----------------------- MODULE QuestionAndChartProofs -----------------------
(***************************************************************************)
(* Theorems about what a report is made of beside its figures: recurring   *)
(* and unanswered questions, and the charts.  TopQuestions, for any        *)
(* callers, conversations and texts and any number of passes; AgentWeek,   *)
(* for any conversations and attempts; UnansweredRows, for any             *)
(* conversations, batches, processes, verdicts of the models,              *)
(* cancellations and faults; ReportCharts, for any conversations by day,   *)
(* hour and channel, and any number of days.                               *)
(*                                                                         *)
(* The ranking: a sorting by a strict order is one to one (OrderedSorts in *)
(* DataLemmas), so the kept clusters are different sets of questions       *)
(* (ClustersInOrder), and the sizes of the first i of them are the         *)
(* cardinality of their union: partial sums that stay below the number of  *)
(* questions (RankingOfClusters).                                          *)
(*                                                                         *)
(* The passes: the rows of a pass are inserted whole and deleted whole,    *)
(* because a DELETE that goes on has waited for whoever deletes a row of   *)
(* those it has seen (DeletesWhole); a row that another pass has not seen  *)
(* is of a pass that was in its transaction meanwhile (Meetings).          *)
(*                                                                         *)
(* The week: what the database and the session hold is justified each for  *)
(* itself (Coherent), so a commit at any moment, of anything the session   *)
(* holds, leaves it so.                                                    *)
(*                                                                         *)
(* The rows: a conversation that nobody else has written to during a job   *)
(* is followed through it (FollowedOK): once its metrics are written, its  *)
(* no_reply rows are those its messages call for (SilentRows); once it is  *)
(* collected, its answered questions are candidates, and its rows of the   *)
(* scored kinds are deleted or about to be (Collected).  So what the end   *)
(* of the job writes, together with what it leaves, is right.  A process   *)
(* that does write to it marks it as dirty, and all that is left to know   *)
(* is that its rows of other kinds can only go (Untouched).  The rows and  *)
(* counts themselves are written by two kinds of steps; to all others they *)
(* are Steady.                                                             *)
(*                                                                         *)
(* The charts: days, hours and time buckets count the same conversations   *)
(* (ChartsInv); all else is about one state.  The labels of the days are   *)
(* kept apart by the recursion that chooses them (LabelsHold, by           *)
(* NumberInduction over the places), heights on the square root scale are  *)
(* in the order of their values (HeightsInOrder) and so are the ticks that *)
(* are drawn (TicksHold).  Every chart is made of a comprehension that     *)
(* lists each channel or time bucket that occurs once (KeepOnce), so its   *)
(* parts add up to the whole (Totals, PartsHold), and what a text names is *)
(* the first largest among those that the chart draws (FirstBestIs).       *)
(***************************************************************************)
EXTENDS TopQuestions, AgentWeek, UnansweredRows, ReportCharts, DataLemmas, SequenceTheorems

-------------------------------------------------------------------------------
(* The ranking of clusters *)

\* A function on 1..k is a sequence of length k.
LEMMA FunctionIsSequence ==
  ASSUME NEW k \in Nat, NEW T, NEW f \in [1..k -> T]
  PROVE  f \in Seq(T) /\ Len(f) = k /\ DOMAIN f = 1..k
OBVIOUS

\* The first k clusters of kept have different keys, are ordered by size and share
\* none of n texts.
ClustersInOrder(n, L, k, Names, r, member, kept) ==
  /\ n \in Nat /\ L \in Nat /\ k \in Nat /\ k <= MaxClusters /\ MinSize \in Nat
  /\ r \in [1..k -> [key : Names, count : Nat]]
  /\ member \in [1..L -> SUBSET (1..n)]
  /\ kept \in [1..k -> 1..L]
  /\ \A i \in 1..k : r[i].count = Cardinality(member[kept[i]]) /\ r[i].count >= MinSize
  /\ \A i, j \in 1..k : i < j => /\ r[i].count >= r[j].count /\ r[i].key # r[j].key
                                 /\ member[kept[i]] \cap member[kept[j]] = {}

\* Such clusters are a ranking.
LEMMA RankingOfClusters ==
  ASSUME NEW n, NEW L, NEW k, NEW Names, NEW r, NEW member, NEW kept,
         ClustersInOrder(n, L, k, Names, r, member, kept)
  PROVE  r \in Seq([key : Names, count : Nat]) /\ RankingOK(r, n)
<1> USE DEF ClustersInOrder
<1>1. IsFiniteSet(1..n) /\ Cardinality(1..n) = n
  BY FS_Interval
<1>2. \A i \in 1..k : member[kept[i]] \subseteq 1..n
  OBVIOUS
<1>3. \A i \in 1..k : IsFiniteSet(member[kept[i]]) /\ Cardinality(member[kept[i]]) \in Nat
  BY <1>1, <1>2, FS_Subset, FS_CardinalityType
<1>6. r \in Seq([key : Names, count : Nat]) /\ Len(r) = k /\ DOMAIN r = 1..k
  <2>1. \A T : \A f \in [1..k -> T] : f \in Seq(T) /\ Len(f) = k /\ DOMAIN f = 1..k
    OBVIOUS
  <2> QED BY <2>1, Zenon
<1> DEFINE counted == [i \in 0..k |-> UNION {member[kept[m]] : m \in 1..i}]
           sum == [i \in 0..k |-> Cardinality(counted[i])]
<1>9. \A i \in 0..k : IsFiniteSet(counted[i]) /\ Cardinality(counted[i]) \in 0..n
  <2>1. TAKE i \in 0..k
  <2>2. \A m \in 1..i : m \in 1..k
    OBVIOUS
  <2>3. \A m \in 1..i : member[kept[m]] \subseteq 1..n
    BY <1>2, <2>2
  <2>4. counted[i] = UNION {member[kept[m]] : m \in 1..i}
    OBVIOUS
  <2> HIDE DEF counted
  <2>5. counted[i] \subseteq 1..n
    BY <2>3, <2>4
  <2> QED BY <1>1, <2>5, FS_Subset, FS_CardinalityType
<1>10. counted[0] = {}
  OBVIOUS
<1>11. ASSUME NEW i \in 1..k PROVE sum[i] = sum[i - 1] + r[i].count
  <2>1. i \in 0..k /\ i - 1 \in 0..k /\ i \in Nat
    OBVIOUS
  <2>2. counted[i] = counted[i - 1] \cup member[kept[i]]
    <3>1. \A m : m \in 1..i <=> m \in 1..(i - 1) \/ m = i
      BY <2>1
    <3>2. /\ counted[i] = UNION {member[kept[m]] : m \in 1..i}
          /\ counted[i - 1] = UNION {member[kept[m]] : m \in 1..(i - 1)}
      BY <2>1
    <3> HIDE DEF counted
    <3> QED BY <3>1, <3>2
  <2>3. counted[i - 1] \cap member[kept[i]] = {}
    <3>1. \A m \in 1..(i - 1) : m \in 1..k /\ m < i
      BY <2>1
    <3>2. \A m \in 1..(i - 1) : member[kept[m]] \cap member[kept[i]] = {}
      BY <3>1
    <3>3. counted[i - 1] = UNION {member[kept[m]] : m \in 1..(i - 1)}
      BY <2>1
    <3> HIDE DEF counted
    <3> QED BY <3>2, <3>3
  <2>4. IsFiniteSet(member[kept[i]]) /\ Cardinality(member[kept[i]]) = r[i].count
        /\ r[i].count \in Nat
    BY <1>3
  <2> HIDE DEF counted
  <2>5. IsFiniteSet(counted[i - 1]) /\ Cardinality(counted[i - 1]) \in Nat
    BY <1>9, <2>1
  <2>6. Cardinality(counted[i]) = Cardinality(counted[i - 1]) + r[i].count
    <3>1. Cardinality(counted[i - 1] \cup member[kept[i]]) =
            Cardinality(counted[i - 1]) + Cardinality(member[kept[i]])
              - Cardinality(counted[i - 1] \cap member[kept[i]])
      BY <2>4, <2>5, FS_Union
    <3>2. Cardinality(counted[i - 1] \cap member[kept[i]]) = 0
      BY <2>3, FS_EmptySet
    <3> QED BY <2>2, <2>4, <2>5, <3>1, <3>2
  <2> QED BY <2>1, <2>6
<1> HIDE DEF counted
<1>12. sum \in [0..k -> 0..n] /\ sum[0] = 0
  <2>1. 0 \in 0..k
    OBVIOUS
  <2>2. sum[0] = Cardinality(counted[0])
    BY <2>1
  <2>3. sum \in [0..k -> 0..n]
    BY <1>9
  <2> QED BY <1>10, <2>2, <2>3, FS_EmptySet
<1>13. \A i \in DOMAIN r : r[i].count >= MinSize
  BY <1>6
<1>14. RankingOK(r, n)
  <2> HIDE DEF sum
  <2>1. \E s \in [0..Len(r) -> 0..n] : s[0] = 0 /\ \A i \in DOMAIN r : s[i] = s[i - 1] + r[i].count
    <3>1. sum \in [0..Len(r) -> 0..n] /\ sum[0] = 0
      BY <1>6, <1>12
    <3>2. \A i \in DOMAIN r : sum[i] = sum[i - 1] + r[i].count
      BY <1>6, <1>11
    <3> QED BY <3>1, <3>2
  <2>2. Len(r) <= MaxClusters
    BY <1>6
  <2>3. \A i, j \in DOMAIN r : i < j => r[i].count >= r[j].count /\ r[i].key # r[j].key
    BY <1>6
  <2> QED BY <1>13, <2>1, <2>2, <2>3 DEF RankingOK
<1> QED BY <1>6, <1>14

\* What a ranking of the first n texts of tx consists of.
Entries(tx, n) == [key : {Key[tx[t]] : t \in 1..n}, count : Nat]

\* Whatever the models answer, the ranking is in order, its keys differ and are
\* those of the texts, and no text counts twice.
LEMMA RankedOK ==
  ASSUME RankingConstants, NEW n \in Nat, NEW tx, NEW c \in Clusterings(n)
  PROVE  Ranking(tx, c) \in Seq(Entries(tx, n)) /\ RankingOK(Ranking(tx, c), n)
<1> DEFINE large == Ordered(Large(c), LargestFirst(c))
           KeyAt(m) == Key[tx[c.closest[large[m]]]]
           distinct == {m \in DOMAIN large : \A l \in 1..(m - 1) : KeyAt(l) # KeyAt(m)}
           smaller == {x \in distinct \X distinct : x[1] < x[2]}
           kept == Ordered(distinct, smaller)
           L == Cardinality(Large(c))
           D == Cardinality(distinct)
           k == Min({Len(kept), MaxClusters})
           name == [m \in 1..L |-> KeyAt(m)]
           member == [m \in 1..L |-> Members(c, large[m])]
           r == [m \in 1..k |-> [key |-> name[kept[m]], count |-> Cardinality(member[kept[m]])]]
<1>1. c.label \in [1..n -> 1..n] /\ c.closest \in [1..n -> 1..n] /\ DOMAIN c.label = 1..n
  BY DEF Clusterings
<1>2. IsFiniteSet(1..n) /\ Cardinality(1..n) = n
  BY FS_Interval
<1>3. Large(c) \subseteq 1..n /\ IsFiniteSet(Large(c))
  <2>1. Large(c) \subseteq 1..n
    BY <1>1 DEF Large, Range
  <2> QED BY <2>1, <1>2, FS_Subset
<1>4. \A l : /\ Members(c, l) \subseteq 1..n
             /\ IsFiniteSet(Members(c, l))
             /\ Size(c, l) \in Nat
  BY <1>1, <1>2, FS_Subset, FS_CardinalityType DEF Members, Size
<1>5. StrictOrder(Large(c), LargestFirst(c))
  <2>1. \A x \in Large(c) : <<x, x>> \notin LargestFirst(c)
    BY <1>3, <1>4 DEF LargestFirst
  <2>2. \A x, y \in Large(c) : <<x, y>> \in LargestFirst(c) <=>
           Size(c, x) > Size(c, y) \/ (Size(c, x) = Size(c, y) /\ x < y)
    BY DEF LargestFirst
  <2>3. \A x, y, z \in Large(c) : <<x, y>> \in LargestFirst(c) /\ <<y, z>> \in LargestFirst(c)
                                    => <<x, z>> \in LargestFirst(c)
    BY <1>3, <1>4, <2>2
  <2>4. \A x, y \in Large(c) : x # y => <<x, y>> \in LargestFirst(c) \/ <<y, x>> \in LargestFirst(c)
    BY <1>3, <1>4, <2>2
  <2> QED BY <2>1, <2>3, <2>4 DEF StrictOrder
<1>6. /\ L \in Nat /\ large \in [1..L -> Large(c)]
      /\ \A i, j \in 1..L : i < j => <<large[i], large[j]>> \in LargestFirst(c)
  BY <1>3, <1>5, OrderedSorts
<1>7. distinct \subseteq 1..L /\ IsFiniteSet(distinct)
  <2>1. distinct \subseteq 1..L
    BY <1>6
  <2>2. IsFiniteSet(1..L)
    BY <1>6, FS_Interval
  <2> QED BY <2>1, <2>2, FS_Subset
<1>8. StrictOrder(distinct, smaller)
  <2>1. \A x, y \in distinct : <<x, y>> \in smaller <=> x < y
    <3> HIDE DEF distinct
    <3> QED OBVIOUS
  <2>2. \A x \in distinct : x \in Int
    <3> HIDE DEF distinct, L
    <3> QED BY <1>7
  <2> HIDE DEF distinct, smaller
  <2> QED BY <2>1, <2>2 DEF StrictOrder
<1>9. /\ D \in Nat /\ kept \in [1..D -> distinct]
      /\ \A i, j \in 1..D : i < j => <<kept[i], kept[j]>> \in smaller
  <2> HIDE DEF distinct, smaller
  <2> QED BY <1>7, <1>8, OrderedSorts
<1>10. \A i, j \in 1..D : i < j => kept[i] < kept[j]
  <2> HIDE DEF kept, distinct, D
  <2> QED BY <1>9
<1>11. kept \in [1..D -> 1..L] /\ Len(kept) = D
  <2>1. kept \in [1..D -> 1..L]
    <3> HIDE DEF kept, distinct, D, L
    <3> QED BY <1>7, <1>9
  <2> HIDE DEF kept, D, L
  <2>2. \A T : \A d \in Nat : \A f \in [1..d -> T] : Len(f) = d
    OBVIOUS
  <2> QED BY <1>9, <2>1, <2>2
<1>12. \A i, j \in 1..D : i < j => name[kept[i]] # name[kept[j]]
  <2>1. \A m \in distinct : m \in 1..L /\ \A l \in 1..(m - 1) : KeyAt(l) # KeyAt(m)
    <3>1. DOMAIN large = 1..L
      BY <1>6
    <3> HIDE DEF large, KeyAt
    <3> QED BY <3>1
  <2> HIDE DEF kept, distinct, D, L, KeyAt
  <2> QED BY <1>6, <1>9, <1>10, <1>11, <2>1
<1>13. \A m \in 1..L : large[m] \in Large(c) /\ large[m] \in 1..n
  <2> HIDE DEF large, L
  <2> QED BY <1>3, <1>6
<1>14. name \in [1..L -> {Key[tx[t]] : t \in 1..n}]
  <2> HIDE DEF large, L
  <2> QED BY <1>1, <1>13
<1>15. member \in [1..L -> SUBSET (1..n)]
  <2> HIDE DEF large, L
  <2> QED BY <1>4
<1>16. \A m \in 1..L : Cardinality(member[m]) = Size(c, large[m])
  <2> HIDE DEF large, L
  <2> QED BY DEF Size
<1>17. \A m \in 1..L : Cardinality(member[m]) >= MinSize
  <2> HIDE DEF large, L, member
  <2> QED BY <1>13, <1>16 DEF Large
<1>18. ASSUME NEW m \in 1..L, NEW l \in 1..L, m < l
       PROVE  /\ Cardinality(member[m]) >= Cardinality(member[l])
              /\ member[m] \cap member[l] = {}
  <2>1. <<large[m], large[l]>> \in LargestFirst(c)
    <3> HIDE DEF large, L
    <3> QED BY <1>6, <1>18
  <2>2. large[m] # large[l] /\ Size(c, large[m]) >= Size(c, large[l])
    <3> HIDE DEF large, L
    <3> QED BY <1>4, <1>13, <2>1 DEF LargestFirst
  <2>3. member[m] \cap member[l] = {}
    <3> HIDE DEF large, L
    <3> QED BY <2>2 DEF Members
  <2> HIDE DEF large, L, member
  <2> QED BY <1>16, <2>2, <2>3
<1>19. /\ k \in Nat /\ k <= MaxClusters
       /\ \A m \in 1..k : m \in 1..D
  <2>1. k = Min({D, MaxClusters})
    <3> HIDE DEF kept, D
    <3> QED BY <1>11
  <2> HIDE DEF kept, D, k
  <2>2. D \in Int /\ MaxClusters \in Int
    BY <1>9 DEF RankingConstants
  <2>3. k = IF D <= MaxClusters THEN D ELSE MaxClusters
    BY <2>1, <2>2, OfTwo
  <2> QED BY <1>9, <2>3 DEF RankingConstants
<1> DEFINE Names == {Key[tx[t]] : t \in 1..n}
           chosen == [m \in 1..k |-> kept[m]]
<1>20. /\ chosen \in [1..k -> 1..L]
       /\ \A i, j \in 1..k : i < j => chosen[i] < chosen[j] /\ name[chosen[i]] # name[chosen[j]]
  <2> HIDE DEF kept, D, L, k, name
  <2> QED BY <1>10, <1>11, <1>12, <1>19
<1>21. \A i \in 1..k : r[i].key = name[chosen[i]] /\ r[i].count = Cardinality(member[chosen[i]])
  <2> HIDE DEF kept, D, L, k, name, member
  <2> QED OBVIOUS
<1>22. r \in [1..k -> [key : Names, count : Nat]]
  <2>1. \A i \in 1..k : name[chosen[i]] \in Names /\ Cardinality(member[chosen[i]]) \in Nat
    <3> HIDE DEF kept, large, D, L, k, name, member, chosen, Names
    <3>1. name \in [1..L -> Names]
      BY <1>14 DEF Names
    <3> QED BY <1>4, <1>16, <1>20, <3>1
  <2>2. r = [m \in 1..k |-> [key |-> name[chosen[m]], count |-> Cardinality(member[chosen[m]])]]
    <3> HIDE DEF kept, L, k, name, member
    <3> QED OBVIOUS
  <2> HIDE DEF kept, L, k, name, member, chosen, Names, r
  <2> QED BY <2>1, <2>2
<1>23. /\ \A i \in 1..k : r[i].count = Cardinality(member[chosen[i]]) /\ r[i].count >= MinSize
       /\ \A i, j \in 1..k : i < j => /\ r[i].count >= r[j].count /\ r[i].key # r[j].key
                                      /\ member[chosen[i]] \cap member[chosen[j]] = {}
  <2> HIDE DEF kept, large, L, k, name, member, chosen, Names, r
  <2> QED BY <1>17, <1>18, <1>20, <1>21
<1>24. r \in Seq(Entries(tx, n)) /\ RankingOK(r, n)
  <2> HIDE DEF large, L, D, kept, member, name, k, Names, chosen, r
  <2>1. MinSize \in Nat
    BY DEF RankingConstants
  <2>2. L \in Nat
    BY <1>6
  <2>3. k \in Nat /\ k <= MaxClusters
    BY <1>19
  <2>4. chosen \in [1..k -> 1..L]
    BY <1>20
  <2>5. \A i \in 1..k : r[i].count = Cardinality(member[chosen[i]]) /\ r[i].count >= MinSize
    BY <1>23
  <2>6. \A i, j \in 1..k : i < j => /\ r[i].count >= r[j].count /\ r[i].key # r[j].key
                                    /\ member[chosen[i]] \cap member[chosen[j]] = {}
    BY <1>23
  <2>7. r \in Seq([key : Names, count : Nat]) /\ RankingOK(r, n)
    <3>1. ClustersInOrder(n, L, k, Names, r, member, chosen)
      BY <1>15, <1>22, <2>1, <2>2, <2>3, <2>4, <2>5, <2>6 DEF ClustersInOrder
    <3> QED BY <3>1, RankingOfClusters
  <2> QED BY <2>7 DEF Entries, Names
<1>25. Ranking(tx, c) = r
  <2>1. \A m \in 1..k : /\ name[kept[m]] = KeyAt(kept[m])
                        /\ Cardinality(member[kept[m]]) = Size(c, large[kept[m]])
    <3> HIDE DEF kept, D, L, k, large
    <3> QED BY <1>11, <1>19 DEF Size
  <2>2. Ranking(tx, c) = [m \in 1..k |-> [key |-> KeyAt(kept[m]), count |-> Size(c, large[kept[m]])]]
    BY DEF Ranking
  <2> HIDE DEF kept, L, k, large, KeyAt, name, member
  <2> QED BY <2>1, <2>2
<1> HIDE DEF r
<1> QED BY <1>24, <1>25

\* What a pass inserts for n questions.
IsRanking(r, n) ==
  /\ Len(r) \in Nat /\ DOMAIN r = 1..Len(r) /\ (r = <<>> <=> Len(r) = 0)
  /\ \A i \in DOMAIN r : r[i].count \in Nat
  /\ RankingOK(r, n)

LEMMA RankedIsRanking ==
  ASSUME RankingConstants, NEW n \in Nat, NEW tx, NEW c \in Clusterings(n)
  PROVE  IsRanking(Ranking(tx, c), n)
<1>1. Ranking(tx, c) \in Seq(Entries(tx, n)) /\ RankingOK(Ranking(tx, c), n)
  BY RankedOK
<1>2. \A e \in Entries(tx, n) : e.count \in Nat
  BY DEF Entries
<1> DEFINE r == Ranking(tx, c)
<1> HIDE DEF r
<1> QED BY <1>1, <1>2 DEF IsRanking, r

LEMMA EmptyIsRanking ==
  ASSUME RankingConstants, NEW n \in Nat
  PROVE  IsRanking(<<>>, n)
<1>1. Len(<<>>) = 0 /\ DOMAIN <<>> = {} /\ DOMAIN <<>> = 1..0
  OBVIOUS
<1>2. \E sum \in [0..0 -> 0..n] : sum[0] = 0
  <2>1. [i \in 0..0 |-> 0] \in [0..0 -> 0..n] /\ [i \in 0..0 |-> 0][0] = 0
    OBVIOUS
  <2> QED BY <2>1
<1> QED BY <1>1, <1>2 DEF IsRanking, RankingOK, RankingConstants

-------------------------------------------------------------------------------
(* Passes over the questions of an agent *)

\* The types.
TopTypes ==
  /\ IsFiniteSet(DOMAIN first)
  /\ jobs \in 0..MaxPasses /\ last \in 0..jobs
  /\ lastResult \in {"nothing", "clusters", "failed", "purged"}
  /\ at \in [Callers -> Points] /\ job \in [Callers -> 0..jobs]
  /\ DOMAIN targets = Callers /\ DOMAIN texts = Callers /\ DOMAIN ranking = Callers
  /\ size \in [Passes -> Nat]
  /\ \A row \in clusters : row.job \in 1..jobs /\ row.rank \in 1..MaxClusters

\* A pass is of one process, and nobody has seen a row of it before it ends.
PassesApart ==
  /\ \A p \in Callers : at[p] = "off" <=> job[p] = 0
  /\ \A p, q \in Callers : p # q /\ job[p] = job[q] => job[p] = 0
  /\ \A p \in Callers : \A row \in clusters : row.job # job[p]
  /\ \A p, q \in Callers : \A row \in targets[p] : row.job \in 1..jobs /\ row.job # job[q]

\* What a transaction deletes is there, no other deletes it, and it is all there
\* is of a pass, or nothing.
DeletesWhole ==
  /\ \A p \in Callers : at[p] \in Holding => targets[p] \subseteq clusters
  /\ \A p, q \in Callers : p # q /\ at[p] \in Holding /\ at[q] \in Holding => targets[p] \cap targets[q] = {}
  /\ \A p \in Callers : \A row, other \in clusters :
       row.job = other.job /\ row \in targets[p] => other \in targets[p]

\* Transactions that are open at once have met, and a transaction has met the
\* passes whose rows it does not delete.
Meetings ==
  /\ \A p, q \in Callers : p # q /\ at[p] \in InTransaction /\ at[q] \in InTransaction => {job[p], job[q]} \in met
  /\ \A p \in Callers : at[p] \in InTransaction => \A row \in clusters \ targets[p] : {row.job, job[p]} \in met
  /\ \A row \in clusters : row.job = last \/ {row.job, last} \in met

\* What a transaction has read and ranked.
WorkOK ==
  /\ \A p \in Callers : at[p] = "clustering" => Len(texts[p]) = size[job[p]]
  /\ \A p \in Callers : at[p] = "writing" => IsRanking(ranking[p], size[job[p]])

\* Once a pass has found clusters, only one that found none, or a purge, leaves none.
NoneOnlyAfterNone == last # 0 /\ clusters = {} => lastResult \in {"nothing", "failed", "purged"}

TopInvariant == TopTypes /\ PassesApart /\ DeletesWhole /\ Meetings /\ WorkOK /\ PassesWhole /\ NoneOnlyAfterNone

LEMMA TopInitially ==
  ASSUME TopConstants, TopInit
  PROVE  TopInvariant
<1> USE DEF TopInit, TopConstants
<1>1. TopTypes
  <2>1. DOMAIN first = {}
    OBVIOUS
  <2> QED BY <2>1, FS_EmptySet DEF TopTypes, Points, Passes
<1>2. PassesApart /\ DeletesWhole /\ Meetings
  BY DEF PassesApart, DeletesWhole, Meetings, InTransaction, Holding
<1>3. WorkOK
  BY DEF WorkOK
<1>4. PassesWhole
  <2> SUFFICES ASSUME NEW j \in Passes
               PROVE  Whole(RowsOf(j), size[j])
    BY DEF PassesWhole
  <2>1. RowsOf(j) = {} /\ size[j] = 0
    BY DEF RowsOf
  <2>2. Cardinality(RowsOf(j)) = 0 /\ 1..0 = {}
    BY <2>1, FS_EmptySet
  <2>3. RankingOK(<<>>, 0)
    BY EmptyIsRanking DEF IsRanking
  <2>4. [r \in 1..0 |-> CHOOSE row \in RowsOf(j) : row.rank = r] = <<>>
    BY <2>2
  <2> QED BY <2>1, <2>2, <2>3, <2>4 DEF Whole
<1>5. NoneOnlyAfterNone
  BY DEF NoneOnlyAfterNone
<1> QED BY <1>1, <1>2, <1>3, <1>4, <1>5 DEF TopInvariant

\* A pass of which there are no rows is whole.
LEMMA NoRowsWhole ==
  ASSUME RankingConstants, NEW n \in Nat
  PROVE  Whole({}, n)
<1>1. Cardinality({}) = 0 /\ 1..0 = {}
  BY FS_EmptySet
<1>2. RankingOK(<<>>, n)
  BY EmptyIsRanking DEF IsRanking
<1>3. [r \in 1..0 |-> CHOOSE row \in {} : row.rank = r] = <<>>
  BY <1>1
<1> QED BY <1>1, <1>2, <1>3 DEF Whole

\* The rows of a pass.
NewRows(j, r) == {[job |-> j, rank |-> n, key |-> r[n].key, count |-> r[n].count] : n \in DOMAIN r}

\* The rows that a pass inserts are whole.
LEMMA NewRowsWhole ==
  ASSUME RankingConstants, NEW j, NEW r, NEW m \in Nat, IsRanking(r, m)
  PROVE  Whole(NewRows(j, r), m)
<1> DEFINE n == Len(r)
           inserted == NewRows(j, r)
           rowOf == [i \in 1..n |-> [job |-> j, rank |-> i, key |-> r[i].key, count |-> r[i].count]]
<1>1. n \in Nat /\ DOMAIN r = 1..n
  BY DEF IsRanking
<1>2. inserted = {rowOf[i] : i \in 1..n}
  BY <1>1 DEF NewRows
<1>3. \A i \in 1..n : rowOf[i].rank = i /\ rowOf[i].key = r[i].key /\ rowOf[i].count = r[i].count
  OBVIOUS
<1> HIDE DEF rowOf, n, inserted
<1>4. rowOf \in Bijection(1..n, inserted)
  <2>1. DOMAIN rowOf = 1..n /\ rowOf = [i \in 1..n |-> rowOf[i]]
    BY DEF rowOf
  <2>2. rowOf \in [1..n -> inserted]
    BY <1>2, <2>1
  <2>3. \A x, y \in 1..n : rowOf[x] = rowOf[y] => x = y
    BY <1>3
  <2>4. \A row \in inserted : \E i \in 1..n : rowOf[i] = row
    BY <1>2
  <2> QED BY <2>2, <2>3, <2>4 DEF Bijection, Injection, Surjection, IsInjective
<1>5. Cardinality(inserted) = n
  BY <1>1, <1>4, FS_CountingElements DEF ExistsBijection
<1>6. {row.rank : row \in inserted} = 1..n
  BY <1>2, <1>3
<1> DEFINE shown == [i \in 1..n |-> CHOOSE row \in inserted : row.rank = i]
<1>7. \A i \in 1..n : shown[i] = rowOf[i]
  <2>1. TAKE i \in 1..n
  <2>2. \A row \in inserted : row.rank = i <=> row = rowOf[i]
    BY <1>2, <1>3
  <2>3. rowOf[i] \in inserted
    BY <1>2
  <2> QED BY <2>2, <2>3
<1>8. \A i \in 1..n : shown[i].key = r[i].key /\ shown[i].count = r[i].count
  BY <1>3, <1>7
<1>9. DOMAIN shown = 1..n /\ Len(shown) = n
  <2>1. \A T : \A f \in [1..n -> T] : Len(f) = n
    BY <1>1
  <2>2. shown \in [1..n -> inserted]
    BY <1>2, <1>7
  <2> HIDE DEF shown
  <2> QED BY <2>1, <2>2
<1>10. RankingOK(shown, m)
  <2> HIDE DEF shown
  <2>1. \E sum \in [0..n -> 0..m] : sum[0] = 0 /\ \A i \in 1..n : sum[i] = sum[i - 1] + r[i].count
    BY <1>1 DEF IsRanking, RankingOK, n
  <2>2. \E sum \in [0..n -> 0..m] : sum[0] = 0 /\ \A i \in 1..n : sum[i] = sum[i - 1] + shown[i].count
    BY <1>8, <2>1
  <2>3. \E sum \in [0..Len(shown) -> 0..m] :
          sum[0] = 0 /\ \A i \in DOMAIN shown : sum[i] = sum[i - 1] + shown[i].count
    BY <1>9, <2>2
  <2>4. \A i \in 1..n : r[i].count >= MinSize
    BY <1>1 DEF IsRanking, RankingOK
  <2>5. \A i, k \in 1..n : i < k => r[i].count >= r[k].count /\ r[i].key # r[k].key
    BY <1>1 DEF IsRanking, RankingOK
  <2>6. \A i, k \in DOMAIN shown : i < k => shown[i].count >= shown[k].count /\ shown[i].key # shown[k].key
    BY <1>8, <1>9, <2>5
  <2>7. \A i \in DOMAIN shown : shown[i].count >= MinSize
    BY <1>8, <1>9, <2>4
  <2>8. Len(shown) <= MaxClusters
    BY <1>9 DEF IsRanking, RankingOK, n
  <2> QED BY <2>3, <2>6, <2>7, <2>8 DEF RankingOK
<1> QED BY <1>5, <1>6, <1>10 DEF Whole, shown, inserted

\* A transaction that ends leaves the rows it has not seen: all there are of a
\* pass or none, and only of passes it has met.
LEMMA LeftWhole ==
  ASSUME TopConstants, TopInvariant, NEW p \in Callers, at[p] \in InTransaction, NEW j
  PROVE  {row \in clusters \ targets[p] : row.job = j} \in {{}, RowsOf(j)}
BY DEF TopInvariant, DeletesWhole, RowsOf

\* A step that changes none of what the invariant says of the committed rows and
\* of the transactions, and lets a process go on in its transaction.
LEMMA GoesOn ==
  ASSUME TopConstants, TopInvariant, NEW p \in Callers, NEW stage \in Points,
         at[p] \in Holding, stage \in Holding, at' = [at EXCEPT ![p] = stage],
         UNCHANGED <<first, clusters, job, targets, jobs, last, lastResult, met>>,
         size' \in [Passes -> Nat], \A j \in Passes : size'[j] = size[j] \/ j = job[p],
         DOMAIN texts' = Callers, DOMAIN ranking' = Callers, WorkOK'
  PROVE  TopInvariant'
<1> USE DEF TopInvariant
<1>1. TopTypes'
  BY DEF TopTypes
<1>2. PassesApart'
  BY DEF PassesApart, TopTypes, Holding
<1>3. DeletesWhole'
  BY DEF DeletesWhole, TopTypes
<1>4. Meetings'
  BY DEF Meetings, TopTypes, Holding, InTransaction
<1>5. PassesWhole'
  <2> SUFFICES ASSUME NEW j \in Passes PROVE Whole(RowsOf(j), size[j])'
    BY DEF PassesWhole
  <2>1. RowsOf(j)' = RowsOf(j)
    BY DEF RowsOf
  <2>2. CASE size'[j] = size[j]
    BY <2>1, <2>2 DEF PassesWhole
  <2>3. CASE j = job[p]
    <3>1. RowsOf(j) = {}
      BY <2>3 DEF RowsOf, PassesApart
    <3> QED BY <2>1, <3>1, NoRowsWhole DEF TopConstants
  <2> QED BY <2>2, <2>3
<1>6. NoneOnlyAfterNone'
  BY DEF NoneOnlyAfterNone
<1> QED BY <1>1, <1>2, <1>3, <1>4, <1>5, <1>6

\* A conversation is stored.
LEMMA StoreKeepsTop ==
  ASSUME TopConstants, TopInvariant, NEW c \in ConvIds, NEW t, StoreConversation(c, t)
  PROVE  TopInvariant'
<1> USE DEF TopInvariant, StoreConversation
<1>1. TopTypes'
  <2>1. DOMAIN first' = DOMAIN first \cup {c}
    OBVIOUS
  <2> QED BY <2>1, FS_AddElement DEF TopTypes
<1>2. PassesApart' /\ DeletesWhole' /\ Meetings' /\ WorkOK'
  BY DEF PassesApart, DeletesWhole, Meetings, WorkOK
<1>3. PassesWhole' /\ NoneOnlyAfterNone'
  BY DEF PassesWhole, NoneOnlyAfterNone, RowsOf
<1> QED BY <1>1, <1>2, <1>3

\* A process begins a pass.
LEMMA CreateKeepsTop ==
  ASSUME TopConstants, TopInvariant, NEW p \in Callers, CreatePass(p)
  PROVE  TopInvariant'
<1> USE DEF TopInvariant, CreatePass
<1>1. TopTypes'
  BY DEF TopTypes, TopConstants, Points
<1>2. PassesApart'
  BY DEF PassesApart, TopTypes, TopConstants
<1>3. DeletesWhole'
  BY DEF DeletesWhole, TopTypes, Holding
<1>4. Meetings'
  BY DEF Meetings, TopTypes, InTransaction
<1>5. WorkOK'
  BY DEF WorkOK, TopTypes
<1>6. PassesWhole' /\ NoneOnlyAfterNone'
  BY DEF PassesWhole, NoneOnlyAfterNone, RowsOf
<1> QED BY <1>1, <1>2, <1>3, <1>4, <1>5, <1>6

\* A transaction begins: it sees all rows, and meets those that are open.
LEMMA BeginDeleteKeepsTop ==
  ASSUME TopConstants, TopInvariant, NEW p \in Callers, BeginDelete(p)
  PROVE  TopInvariant'
<1> USE DEF TopInvariant, BeginDelete
<1>1. TopTypes'
  BY DEF TopTypes, Points
<1>2. PassesApart'
  BY DEF PassesApart, TopTypes
<1>3. DeletesWhole'
  BY DEF DeletesWhole, TopTypes, Holding
<1>4. Meetings'
  <2>1. ASSUME NEW q \in Callers, NEW r \in Callers, q # r,
               at'[q] \in InTransaction, at'[r] \in InTransaction
        PROVE  {job[q], job[r]} \in met'
    <3>1. CASE q # p /\ r # p
      BY <2>1, <3>1 DEF Meetings, TopTypes
    <3>2. CASE q = p
      <4>1. at[r] \in InTransaction /\ r \in Callers \ {p}
        BY <2>1, <3>2 DEF TopTypes
      <4>2. {job[p], job[r]} \in Meets(p)
        BY <4>1 DEF Meets
      <4> QED BY <3>2, <4>2
    <3>3. CASE r = p
      <4>1. at[q] \in InTransaction /\ q \in Callers \ {p}
        BY <2>1, <3>3 DEF TopTypes
      <4>2. {job[p], job[q]} \in Meets(p)
        BY <4>1 DEF Meets
      <4>3. {job[p], job[q]} = {job[q], job[p]}
        OBVIOUS
      <4> QED BY <3>3, <4>2, <4>3
    <3> QED BY <3>1, <3>2, <3>3
  <2>2. ASSUME NEW q \in Callers, at'[q] \in InTransaction, NEW row \in clusters \ targets'[q]
        PROVE  {row.job, job[q]} \in met'
    BY <2>2 DEF Meetings, TopTypes
  <2> QED BY <2>1, <2>2 DEF Meetings
<1>5. WorkOK'
  BY DEF WorkOK, TopTypes
<1>6. PassesWhole' /\ NoneOnlyAfterNone'
  BY DEF PassesWhole, NoneOnlyAfterNone, RowsOf
<1> QED BY <1>1, <1>2, <1>3, <1>4, <1>5, <1>6

\* A transaction has deleted what is still there of the rows it has seen.
LEMMA EndDeleteKeepsTop ==
  ASSUME TopConstants, TopInvariant, NEW p \in Callers, EndDelete(p)
  PROVE  TopInvariant'
<1> USE DEF TopInvariant, EndDelete
<1>1. TopTypes'
  BY DEF TopTypes, Points
<1>2. PassesApart'
  BY DEF PassesApart, TopTypes
<1>3. DeletesWhole'
  <2>1. targets'[p] = targets[p] \cap clusters /\ \A q \in Callers \ {p} : targets'[q] = targets[q] /\ at'[q] = at[q]
    BY DEF TopTypes
  <2>2. \A q \in Callers : at'[q] \in Holding => targets'[q] \subseteq clusters
    BY <2>1 DEF DeletesWhole
  <2>3. \A q \in Callers \ {p} : at[q] \in Holding => targets[q] \cap targets[p] = {}
    OBVIOUS
  <2>4. \A q, r \in Callers : q # r /\ at'[q] \in Holding /\ at'[r] \in Holding => targets'[q] \cap targets'[r] = {}
    BY <2>1, <2>3 DEF DeletesWhole
  <2>5. \A q \in Callers : \A row, other \in clusters :
          row.job = other.job /\ row \in targets'[q] => other \in targets'[q]
    BY <2>1 DEF DeletesWhole
  <2> QED BY <2>2, <2>4, <2>5 DEF DeletesWhole
<1>4. Meetings'
  BY DEF Meetings, TopTypes, InTransaction
<1>5. WorkOK'
  BY DEF WorkOK, TopTypes
<1>6. PassesWhole' /\ NoneOnlyAfterNone'
  BY DEF PassesWhole, NoneOnlyAfterNone, RowsOf
<1> QED BY <1>1, <1>2, <1>3, <1>4, <1>5, <1>6

\* The questions are read.
LEMMA ReadKeepsTop ==
  ASSUME TopConstants, TopInvariant, NEW p \in Callers, ReadQuestions(p)
  PROVE  TopInvariant'
<1> DEFINE asking == {c \in DOMAIN first : first[c] # NoQuestion}
           order == Ordered(asking, {x \in asking \X asking : x[1] < x[2]})
           count == Cardinality(asking)
<1> USE DEF TopInvariant
<1>1. count \in Nat
  BY FS_Subset, FS_CardinalityType DEF TopTypes
<1>2. DOMAIN order = 1..count /\ Len(order) = count
  <2>1. order \in [1..count -> {order[n] : n \in 1..count}]
    BY DEF Ordered
  <2> HIDE DEF order, count
  <2>2. \A T : \A f \in [1..count -> T] : Len(f) = count /\ DOMAIN f = 1..count
    BY <1>1
  <2> QED BY <2>1, <2>2
<1>3. /\ texts' = [texts EXCEPT ![p] = [n \in DOMAIN order |-> first[order[n]]]]
      /\ size' = [size EXCEPT ![job[p]] = Len(order)]
  BY DEF ReadQuestions
<1> HIDE DEF order, count
<1>4. Len([n \in DOMAIN order |-> first[order[n]]]) = count
  <2>1. \A T : \A f \in [1..count -> T] : Len(f) = count
    BY <1>1
  <2>2. [n \in DOMAIN order |-> first[order[n]]] \in [1..count -> {first[order[n]] : n \in 1..count}]
    BY <1>2
  <2> QED BY <2>1, <2>2
<1>5. job[p] \in Passes /\ at[p] = "reading"
  BY DEF ReadQuestions, PassesApart, TopTypes, Passes, TopConstants
<1>6. size' \in [Passes -> Nat] /\ size'[job[p]] = count /\ \A j \in Passes : size'[j] = size[j] \/ j = job[p]
  BY <1>1, <1>2, <1>3, <1>5 DEF TopTypes
<1>7. WorkOK'
  <2>1. ASSUME NEW q \in Callers, at'[q] = "clustering" PROVE Len(texts'[q]) = size'[job[q]]
    BY <1>1, <1>2, <1>3, <1>4, <1>5, <1>6, <2>1 DEF ReadQuestions, WorkOK, TopTypes, PassesApart, Passes
  <2>2. ASSUME NEW q \in Callers, at'[q] = "writing" PROVE IsRanking(ranking[q], size'[job[q]])
    <3>1. q # p /\ at[q] = "writing"
      BY <2>2 DEF ReadQuestions, TopTypes
    <3>2. job[q] # job[p] /\ job[q] \in Passes
      BY <1>5, <3>1 DEF PassesApart, TopTypes, Passes, TopConstants
    <3>3. size'[job[q]] = size[job[q]]
      BY <1>6, <3>2
    <3> QED BY <3>1, <3>3 DEF WorkOK
  <2> QED BY <2>1, <2>2 DEF WorkOK, ReadQuestions
<1> QED BY <1>3, <1>5, <1>6, <1>7, GoesOn DEF ReadQuestions, Holding, Points, TopTypes

\* The questions are clustered.
LEMMA ClusterKeepsTop ==
  ASSUME TopConstants, TopInvariant, NEW p \in Callers, ClusterQuestions(p)
  PROVE  TopInvariant'
<1> USE DEF TopInvariant
<1>1. at[p] = "clustering" /\ job[p] \in Passes /\ size[job[p]] \in Nat
  BY DEF ClusterQuestions, PassesApart, TopTypes, Passes, TopConstants
<1>2. Len(texts[p]) = size[job[p]]
  BY <1>1 DEF WorkOK
<1>3. PICK r : ranking' = [ranking EXCEPT ![p] = r] /\ IsRanking(r, size[job[p]])
  <2>1. CASE Len(texts[p]) < 2
    BY <1>1, <2>1, EmptyIsRanking DEF ClusterQuestions, TopConstants
  <2>2. CASE ~ Len(texts[p]) < 2
    <3>1. PICK c \in Clusterings(Len(texts[p])) : ranking' = [ranking EXCEPT ![p] = Ranking(texts[p], c)]
      BY <2>2 DEF ClusterQuestions
    <3>2. IsRanking(Ranking(texts[p], c), size[job[p]])
      BY <1>1, <1>2, RankedIsRanking DEF TopConstants
    <3> QED BY <3>1, <3>2
  <2> QED BY <2>1, <2>2
<1>4. WorkOK'
  BY <1>3 DEF ClusterQuestions, WorkOK, TopTypes
<1> QED BY <1>1, <1>3, <1>4, GoesOn DEF ClusterQuestions, Holding, Points, TopTypes

\* The models raise.
LEMMA FailsKeepsTop ==
  ASSUME TopConstants, TopInvariant, NEW p \in Callers, ModelFails(p)
  PROVE  TopInvariant'
<1>1. WorkOK'
  BY DEF TopInvariant, ModelFails, WorkOK, TopTypes
<1> QED BY <1>1, GoesOn DEF TopInvariant, ModelFails, Holding, Points, TopTypes

\* A pass ends, and of the rows only those it leaves remain, beside new ones of
\* its own that are whole: it is the pass that ended last.
LEMMA EndsWhole ==
  ASSUME TopConstants, TopInvariant, NEW p \in Callers, at[p] \in Holding, EndPass(p),
         NEW r, IsRanking(r, size[job[p]]),
         clusters' = (clusters \ targets[p]) \cup NewRows(job[p], r),
         last' = job[p], lastResult' \in {"nothing", "clusters", "failed", "purged"},
         lastResult' = "clusters" => r # <<>>
  PROVE  TopInvariant'
<1> USE DEF TopInvariant, EndPass
<1>1. job[p] \in 1..jobs /\ jobs \in 0..MaxPasses /\ MaxPasses \in Nat /\ at[p] # "off" /\ job[p] \in Passes
  BY DEF PassesApart, TopTypes, Holding, Passes, TopConstants
<1>2. \A row \in NewRows(job[p], r) : row.job = job[p] /\ row.rank \in 1..MaxClusters
  BY DEF NewRows, IsRanking, RankingOK, TopConstants, RankingConstants
<1>3. /\ at' = [at EXCEPT ![p] = "off"] /\ job' = [job EXCEPT ![p] = 0] /\ targets' = [targets EXCEPT ![p] = {}]
      /\ \A q \in Callers \ {p} : at'[q] = at[q] /\ job'[q] = job[q] /\ targets'[q] = targets[q]
      /\ at'[p] = "off" /\ job'[p] = 0 /\ targets'[p] = {}
  BY DEF TopTypes
<1>4. TopTypes'
  BY <1>1, <1>2, <1>3 DEF TopTypes, Points
<1>5. PassesApart'
  <2>1. \A q \in Callers \ {p} : job[q] # job[p]
    BY <1>1 DEF PassesApart
  <2>2. \A q \in Callers : \A row \in clusters' : row.job # job'[q]
    BY <1>1, <1>2, <1>3, <2>1 DEF PassesApart, TopTypes
  <2>3. \A q, o \in Callers : \A row \in targets'[q] : row.job \in 1..jobs /\ row.job # job'[o]
    BY <1>3 DEF PassesApart
  <2>4. \A q \in Callers : at'[q] = "off" <=> job'[q] = 0
    BY <1>3 DEF PassesApart
  <2>5. \A q, o \in Callers : q # o /\ job'[q] = job'[o] => job'[q] = 0
    BY <1>3 DEF PassesApart
  <2> QED BY <2>2, <2>3, <2>4, <2>5 DEF PassesApart
<1>6. DeletesWhole'
  <2>1. ASSUME NEW q \in Callers, at'[q] \in Holding PROVE targets'[q] \subseteq clusters'
    <3>1. q # p /\ at[q] \in Holding
      BY <1>3, <2>1 DEF Holding
    <3> QED BY <1>3, <3>1 DEF DeletesWhole
  <2>2. \A q, o \in Callers : q # o /\ at'[q] \in Holding /\ at'[o] \in Holding => targets'[q] \cap targets'[o] = {}
    BY <1>3 DEF DeletesWhole
  <2>3. ASSUME NEW q \in Callers, NEW row \in clusters', NEW other \in clusters',
               row.job = other.job, row \in targets'[q]
        PROVE  other \in targets'[q]
    <3>1. q # p /\ row \in targets[q]
      BY <1>3, <2>3
    <3>2. row.job # job[p]
      BY <2>3, <3>1 DEF PassesApart
    <3>3. row \in clusters /\ other \in clusters
      BY <1>2, <2>3, <3>2
    <3> QED BY <1>3, <2>3, <3>1, <3>3 DEF DeletesWhole
  <2> QED BY <2>1, <2>2, <2>3 DEF DeletesWhole
<1>7. Meetings'
  <2>1. \A q, o \in Callers : q # o /\ at'[q] \in InTransaction /\ at'[o] \in InTransaction
          => {job'[q], job'[o]} \in met
    BY <1>3 DEF Meetings, InTransaction
  <2>2. ASSUME NEW q \in Callers, at'[q] \in InTransaction, NEW row \in clusters' \ targets'[q]
        PROVE  {row.job, job'[q]} \in met
    <3>1. q # p /\ at[q] \in InTransaction /\ job'[q] = job[q] /\ targets'[q] = targets[q]
      BY <1>3, <2>2 DEF InTransaction
    <3>2. CASE row \in clusters
      BY <2>2, <3>1, <3>2 DEF Meetings
    <3>3. CASE row.job = job[p]
      BY <3>1, <3>3 DEF Meetings, InTransaction, Holding
    <3> QED BY <1>2, <2>2, <3>2, <3>3
  <2>3. ASSUME NEW row \in clusters' PROVE row.job = last' \/ {row.job, last'} \in met
    <3>1. CASE row \in NewRows(job[p], r)
      BY <1>2, <3>1
    <3>2. CASE row \in clusters \ targets[p]
      BY <3>2 DEF Meetings, InTransaction, Holding
    <3> QED BY <2>3, <3>1, <3>2
  <2> QED BY <2>1, <2>2, <2>3 DEF Meetings
<1>8. WorkOK'
  <2>1. \A q \in Callers \ {p} : texts'[q] = texts[q] /\ ranking'[q] = ranking[q] /\ job'[q] = job[q]
    BY <1>3 DEF TopTypes
  <2> QED BY <1>3, <2>1 DEF WorkOK
<1>9. PassesWhole'
  <2> SUFFICES ASSUME NEW j \in Passes PROVE Whole(RowsOf(j)', size[j])
    BY DEF PassesWhole
  <2>1. CASE j = job[p]
    <3>1. RowsOf(j)' = NewRows(job[p], r)
      BY <1>2, <2>1 DEF RowsOf, PassesApart
    <3>2. size[j] \in Nat
      BY DEF TopTypes
    <3> QED BY <2>1, <3>1, <3>2, NewRowsWhole DEF TopConstants
  <2>2. CASE j # job[p]
    <3>1. RowsOf(j)' = {row \in clusters \ targets[p] : row.job = j}
      BY <1>2, <2>2 DEF RowsOf
    <3>2. RowsOf(j)' \in {{}, RowsOf(j)}
      BY <3>1, LeftWhole DEF InTransaction, Holding
    <3>3. size[j] \in Nat /\ Whole(RowsOf(j), size[j])
      BY DEF TopTypes, PassesWhole
    <3> QED BY <3>2, <3>3, NoRowsWhole DEF TopConstants
  <2> QED BY <2>1, <2>2
<1>10. NoneOnlyAfterNone'
  <2>1. ASSUME lastResult' = "clusters" PROVE clusters' # {}
    <3>1. r # <<>>
      BY <2>1
    <3>2. Len(r) \in Nat /\ Len(r) # 0 /\ DOMAIN r = 1..Len(r)
      BY <3>1 DEF IsRanking
    <3>3. 1 \in DOMAIN r
      BY <3>2
    <3> QED BY <3>3 DEF NewRows
  <2> QED BY <2>1 DEF NoneOnlyAfterNone
<1> QED BY <1>4, <1>5, <1>6, <1>7, <1>8, <1>9, <1>10

\* A pass commits its ranking.
LEMMA CommitKeepsTop ==
  ASSUME TopConstants, TopInvariant, NEW p \in Callers, CommitPass(p)
  PROVE  TopInvariant'
<1>1. at[p] \in Holding /\ IsRanking(ranking[p], size[job[p]])
  BY DEF TopInvariant, CommitPass, WorkOK, Holding
<1>2. clusters' = (clusters \ targets[p]) \cup NewRows(job[p], ranking[p])
  BY DEF CommitPass, NewRows
<1>3. /\ last' = job[p] /\ lastResult' \in {"nothing", "clusters", "failed", "purged"} /\ EndPass(p)
      /\ lastResult' = "clusters" => ranking[p] # <<>>
  BY DEF CommitPass
<1> QED BY <1>1, <1>2, <1>3, EndsWhole

\* The handler of a pass that failed commits its DELETE.
LEMMA HandlerKeepsTop ==
  ASSUME TopConstants, TopInvariant, NEW p \in Callers, HandlerCommits(p)
  PROVE  TopInvariant'
<1>1. at[p] \in Holding /\ job[p] \in Passes /\ size[job[p]] \in Nat
  BY DEF TopInvariant, HandlerCommits, Holding, PassesApart, TopTypes, Passes, TopConstants
<1>2. IsRanking(<<>>, size[job[p]])
  BY <1>1, EmptyIsRanking DEF TopConstants
<1>3. clusters' = (clusters \ targets[p]) \cup NewRows(job[p], <<>>)
  BY DEF HandlerCommits, NewRows
<1>4. /\ last' = job[p] /\ lastResult' \in {"nothing", "clusters", "failed", "purged"} /\ EndPass(p)
      /\ lastResult' # "clusters"
  BY DEF HandlerCommits
<1> QED BY <1>1, <1>2, <1>3, <1>4, EndsWhole

\* A purge commits its DELETE.
LEMMA PurgeKeepsTop ==
  ASSUME TopConstants, TopInvariant, NEW p \in Callers, PurgeInsights(p)
  PROVE  TopInvariant'
<1>1. at[p] \in Holding /\ job[p] \in Passes /\ size[job[p]] \in Nat
  BY DEF TopInvariant, PurgeInsights, Holding, PassesApart, TopTypes, Passes, TopConstants
<1>2. IsRanking(<<>>, size[job[p]])
  BY <1>1, EmptyIsRanking DEF TopConstants
<1>3. clusters' = (clusters \ targets[p]) \cup NewRows(job[p], <<>>)
  BY DEF PurgeInsights, NewRows
<1>4. /\ last' = job[p] /\ lastResult' \in {"nothing", "clusters", "failed", "purged"} /\ EndPass(p)
      /\ lastResult' # "clusters"
  BY DEF PurgeInsights
<1> QED BY <1>1, <1>2, <1>3, <1>4, EndsWhole

\* A transaction is rolled back.
LEMMA RollBackKeepsTop ==
  ASSUME TopConstants, TopInvariant, NEW p \in Callers, RollBack(p)
  PROVE  TopInvariant'
<1> USE DEF TopInvariant, RollBack, EndPass
<1>1. TopTypes'
  BY DEF TopTypes, Points
<1>2. PassesApart'
  BY DEF PassesApart, TopTypes
<1>3. DeletesWhole'
  BY DEF DeletesWhole, TopTypes, Holding
<1>4. Meetings'
  BY DEF Meetings, TopTypes, InTransaction
<1>5. WorkOK'
  BY DEF WorkOK, TopTypes
<1>6. PassesWhole' /\ NoneOnlyAfterNone'
  BY DEF PassesWhole, NoneOnlyAfterNone, RowsOf
<1> QED BY <1>1, <1>2, <1>3, <1>4, <1>5, <1>6

\* Every step keeps the invariant.
LEMMA TopStep ==
  ASSUME TopConstants, TopInvariant, [TopNext]_topVars
  PROVE  TopInvariant'
<1>1. CASE \E c \in ConvIds, t \in Texts \cup {NoQuestion} : StoreConversation(c, t)
  BY <1>1, StoreKeepsTop
<1>2. ASSUME NEW p \in Callers, PassStep(p) PROVE TopInvariant'
  BY <1>2, CreateKeepsTop, BeginDeleteKeepsTop, EndDeleteKeepsTop, ReadKeepsTop, ClusterKeepsTop,
     FailsKeepsTop, CommitKeepsTop, PurgeKeepsTop, HandlerKeepsTop, RollBackKeepsTop DEF PassStep
<1>3. CASE UNCHANGED topVars
  <2> USE DEF topVars
  <2>1. TopTypes' /\ PassesApart' /\ DeletesWhole' /\ Meetings'
    BY <1>3 DEF TopInvariant, TopTypes, PassesApart, DeletesWhole, Meetings
  <2>2. WorkOK' /\ PassesWhole' /\ NoneOnlyAfterNone'
    BY <1>3 DEF TopInvariant, WorkOK, PassesWhole, NoneOnlyAfterNone, RowsOf
  <2> QED BY <2>1, <2>2 DEF TopInvariant
<1> QED BY <1>1, <1>2, <1>3 DEF TopNext

\* The invariant says what the runs check.
LEMMA TopInvariantImplies ==
  ASSUME TopConstants, TopInvariant
  PROVE  QuestionsCoherent
BY DEF TopInvariant, Meetings, NoneOnlyAfterNone, QuestionsCoherent

\* Whatever passes overlap, fail, are killed or rolled back, and whatever the
\* models answer: what a reader sees of one pass is its whole ranking, and the
\* clusters are those of the pass that committed last and of passes that were in
\* their transactions at the same time as it (QuestionAnalysisService.analyze).
THEOREM QuestionsAlwaysCoherent ==
  ASSUME TopConstants
  PROVE  TopSpec => []QuestionsCoherent
<1>1. TopInit => TopInvariant
  BY TopInitially
<1>2. TopInvariant /\ [TopNext]_topVars => TopInvariant'
  BY TopStep
<1>3. TopInvariant => QuestionsCoherent
  BY TopInvariantImplies
<1> QED BY <1>1, <1>2, <1>3, PTL DEF TopSpec

-------------------------------------------------------------------------------
(* The week of an agent *)

\* A view of the weekly database: of the committed rows, or of a session.
IsView(v) ==
  /\ v = [talks |-> v.talks, findings |-> v.findings, clusters |-> v.clusters]
  /\ v.clusters = [of |-> v.clusters.of, ranking |-> v.clusters.ranking]
  /\ DOMAIN v.talks \subseteq Conversations
  /\ \A c \in DOMAIN v.talks : v.talks[c] \in Nat

\* Its findings are of stored questions, one of each, and say whether they have
\* a reply; findings and clusters are of one attempt.
Coherent(v) ==
  /\ \A f \in v.findings :
       /\ f.question \in Questions(v.talks) /\ f.status \in Flags
       /\ (f.status = "no_reply") <=> ~Replied(v.talks, f.question)
       /\ \A g \in v.findings : g.question = f.question => g = f
  /\ \A f, g \in v.findings : f.of = g.of
  /\ v.clusters # NoClusters => \A f \in v.findings : f.of = v.clusters.of

\* All questions without a reply are flagged, by this attempt.
Judged(v) ==
  /\ NoReply(v.talks) \subseteq {f.question : f \in v.findings}
  /\ \A f \in v.findings : f.of = tries

\* Its clusters rank its questions.
Clustered(v) ==
  /\ RankingOK(v.clusters.ranking, Cardinality(Questions(v.talks)))
  /\ \A e \in Range(v.clusters.ranking) : e.key \in {Key[t] : t \in Range(TextsOf(v.talks))}

WeekTypes ==
  /\ DOMAIN inbox = Conversations /\ \A c \in Conversations : inbox[c] \in Nat
  /\ IsView(db) /\ IsView(session)
  /\ step \in Steps
  /\ step = "entries" => todo \in Seq(Conversations)

\* What the attempt has come to.
AttemptOK ==
  /\ step \in {"collect", "entries", "loaded"} => session.findings = {}
  /\ step = "cluster" => session.clusters = NoClusters /\ Judged(session)
  /\ step = "render" => Judged(session) /\ Clustered(session)
  /\ status = "complete" => step = "off"

WeekInvariant == WeekTypes /\ Coherent(db) /\ Coherent(session) /\ AttemptOK /\ CompleteMatches

\* An image under a function of a finite set is finite.
LEMMA FiniteImage ==
  ASSUME NEW S, IsFiniteSet(S), NEW f, DOMAIN f = S
  PROVE  IsFiniteSet({f[x] : x \in S})
<1> DEFINE T == {f[x] : x \in S}
           g == [x \in S |-> f[x]]
<1>1. g \in Surjection(S, T)
  BY DEF Surjection
<1> QED BY <1>1, FS_Surjection

\* There are finitely many questions.
LEMMA QuestionsFinite ==
  ASSUME WeekConstants, NEW talks, DOMAIN talks \subseteq Conversations,
         \A c \in DOMAIN talks : talks[c] \in Nat
  PROVE  IsFiniteSet(Questions(talks)) /\ Cardinality(Questions(talks)) \in Nat
<1>1. ASSUME NEW c \in DOMAIN talks PROVE IsFiniteSet(QuestionsOf(c, talks[c]))
  <2> DEFINE asks == {i \in 1..talks[c] : ~Talk[c][i].agent /\ Talk[c][i].ask # Absent}
             pair == [i \in asks |-> <<c, i>>]
  <2>1. IsFiniteSet(1..talks[c])
    BY FS_Interval
  <2>2. IsFiniteSet(asks)
    BY <2>1, FS_Subset
  <2>3. IsFiniteSet({pair[i] : i \in asks})
    BY <2>2, FiniteImage
  <2>4. QuestionsOf(c, talks[c]) = {pair[i] : i \in asks}
    BY DEF QuestionsOf
  <2> QED BY <2>3, <2>4
<1> DEFINE of == [c \in DOMAIN talks |-> QuestionsOf(c, talks[c])]
<1>2. IsFiniteSet(DOMAIN talks)
  BY FS_Subset DEF WeekConstants
<1>3. IsFiniteSet({of[c] : c \in DOMAIN talks})
  <2>1. DOMAIN of = DOMAIN talks
    OBVIOUS
  <2> HIDE DEF of
  <2> QED BY <1>2, <2>1, FiniteImage
<1>4. \A Q \in {of[c] : c \in DOMAIN talks} : IsFiniteSet(Q)
  BY <1>1
<1>5. Questions(talks) = UNION {of[c] : c \in DOMAIN talks}
  BY DEF Questions
<1>6. IsFiniteSet(Questions(talks))
  <2> HIDE DEF of
  <2> QED BY <1>3, <1>4, <1>5, FS_UNION
<1> QED BY <1>6, FS_CardinalityType

\* There are as many texts as questions.
LEMMA TextsCount ==
  ASSUME WeekConstants, NEW talks, Cardinality(Questions(talks)) \in Nat
  PROVE  /\ Len(TextsOf(talks)) = Cardinality(Questions(talks))
         /\ DOMAIN TextsOf(talks) = 1..Cardinality(Questions(talks))
<1> DEFINE asked == Questions(talks)
           N == Cardinality(asked)
           order == Ordered(asked, {x \in asked \X asked :
                      x[1][1] < x[2][1] \/ (x[1][1] = x[2][1] /\ x[1][2] < x[2][2])})
<1>1. DOMAIN order = 1..N
  BY DEF Ordered
<1>2. TextsOf(talks) = [i \in DOMAIN order |-> Talk[order[i][1]][order[i][2]].ask]
  BY DEF TextsOf
<1> HIDE DEF order
<1>3. TextsOf(talks) \in [1..N -> {Talk[order[i][1]][order[i][2]].ask : i \in 1..N}]
  BY <1>1, <1>2
<1>4. \A T : \A f \in [1..N -> T] : Len(f) = N /\ DOMAIN f = 1..N
  OBVIOUS
<1> QED BY <1>3, <1>4

\* At most one finding of each question: no more is flagged than was asked.
LEMMA FlaggedBounded ==
  ASSUME NEW F, NEW A, IsFiniteSet(A),
         \A f \in F : f.question \in A /\ f.status \in Flags,
         \A f, g \in F : f.question = g.question => f = g
  PROVE  /\ \A kind \in Flags : Breakdown(F)[kind] \in Nat
         /\ Breakdown(F)["no_reply"] + Breakdown(F)["weak_answer"] + Breakdown(F)["not_answered"]
              <= Cardinality(A)
<1> DEFINE q == [f \in F |-> f.question]
           Flagged(kind) == {f \in F : f.status = kind}
<1>1. q \in Injection(F, A)
  BY DEF Injection, IsInjective
<1>2. IsFiniteSet(F) /\ Cardinality(F) <= Cardinality(A) /\ Cardinality(A) \in Nat
  BY <1>1, FS_Injection, FS_CardinalityType
<1>3. \A kind : IsFiniteSet(Flagged(kind)) /\ Cardinality(Flagged(kind)) \in Nat
  BY <1>2, FS_Subset, FS_CardinalityType
<1>4. \A kind \in Flags : Breakdown(F)[kind] = Cardinality(Flagged(kind))
  BY DEF Breakdown
<1>5. "no_reply" \in Flags /\ "weak_answer" \in Flags /\ "not_answered" \in Flags
  BY DEF Flags
<1>6. Flagged("no_reply") \cap Flagged("weak_answer") = {}
  OBVIOUS
<1>7. (Flagged("no_reply") \cup Flagged("weak_answer")) \cap Flagged("not_answered") = {}
  OBVIOUS
<1>8. Flagged("no_reply") \cup Flagged("weak_answer") \cup Flagged("not_answered") = F
  BY DEF Flags
<1> HIDE DEF Flagged
<1>9. /\ IsFiniteSet(Flagged("no_reply") \cup Flagged("weak_answer"))
      /\ Cardinality(Flagged("no_reply") \cup Flagged("weak_answer")) =
           Cardinality(Flagged("no_reply")) + Cardinality(Flagged("weak_answer"))
  BY <1>3, <1>6, ApartUnion
<1>10. Cardinality(F) = Cardinality(Flagged("no_reply")) + Cardinality(Flagged("weak_answer"))
                         + Cardinality(Flagged("not_answered"))
  <2>1. Cardinality((Flagged("no_reply") \cup Flagged("weak_answer")) \cup Flagged("not_answered")) =
          Cardinality(Flagged("no_reply") \cup Flagged("weak_answer")) + Cardinality(Flagged("not_answered"))
    BY <1>3, <1>7, <1>9, ApartUnion
  <2> QED BY <1>8, <1>9, <2>1
<1> QED BY <1>2, <1>3, <1>4, <1>5, <1>10

LEMMA WeekInitially ==
  ASSUME WeekConstants, WeekInit
  PROVE  WeekInvariant
<1> USE DEF WeekInit
<1>1. IsView(Empty)
  <2>1. DOMAIN <<>> = {}
    OBVIOUS
  <2> QED BY <2>1 DEF IsView, Empty, NoClusters
<1>2. WeekTypes
  BY <1>1 DEF WeekTypes, Steps
<1>3. Coherent(Empty)
  BY DEF Coherent, Empty
<1>4. AttemptOK /\ CompleteMatches
  BY DEF AttemptOK, CompleteMatches
<1> QED BY <1>2, <1>3, <1>4 DEF WeekInvariant

\* A view of conversations alone.
LEMMA NoFindingsCoherent ==
  ASSUME NEW v, v.findings = {}
  PROVE  Coherent(v)
BY DEF Coherent

\* Messages are written.
LEMMA WriteKeepsWeek ==
  ASSUME WeekConstants, WeekInvariant, NEW c \in Conversations, Write(c)
  PROVE  WeekInvariant'
<1> USE DEF WeekInvariant, Write
<1>1. WeekTypes'
  BY DEF WeekTypes, IsView
<1>2. Coherent(db)' /\ Coherent(session)'
  BY DEF Coherent
<1>3. AttemptOK'
  BY DEF AttemptOK, Judged, Clustered
<1>4. CompleteMatches'
  BY DEF CompleteMatches
<1> QED BY <1>1, <1>2, <1>3, <1>4

\* The attempt begins.
LEMMA BeginKeepsWeek ==
  ASSUME WeekConstants, WeekInvariant, BeginAttempt
  PROVE  WeekInvariant'
<1> USE DEF WeekInvariant, BeginAttempt
<1>1. WeekTypes'
  BY DEF WeekTypes, IsView, Steps
<1>2. Coherent(db)' /\ Coherent(session)'
  BY DEF Coherent
<1>3. AttemptOK' /\ CompleteMatches'
  BY DEF AttemptOK, CompleteMatches
<1> QED BY <1>1, <1>2, <1>3

\* The conversations of the earlier attempt go, and their findings with them.
LEMMA ClearKeepsWeek ==
  ASSUME WeekConstants, WeekInvariant, ClearWindow
  PROVE  WeekInvariant'
<1> USE DEF WeekInvariant, ClearWindow
<1>1. IsView(db') /\ db'.findings = {} /\ session' = db'
  <2>1. DOMAIN <<>> = {}
    OBVIOUS
  <2>2. db' = [talks |-> <<>>, findings |-> {}, clusters |-> db.clusters]
    BY DEF WeekTypes, IsView
  <2> QED BY <2>1, <2>2 DEF WeekTypes, IsView
<1>2. WeekTypes'
  BY <1>1 DEF WeekTypes, Steps, IsView
<1>3. Coherent(db)' /\ Coherent(session)'
  BY <1>1, NoFindingsCoherent DEF Coherent
<1>4. AttemptOK' /\ CompleteMatches'
  BY <1>1 DEF AttemptOK, CompleteMatches
<1> QED BY <1>2, <1>3, <1>4

\* The entries of the inbox.
LEMMA CollectKeepsWeek ==
  ASSUME WeekConstants, WeekInvariant, CollectEntries
  PROVE  WeekInvariant'
<1> USE DEF WeekInvariant, CollectEntries
<1> DEFINE S == {c \in Conversations : inbox[c] > 0}
<1>1. IsFiniteSet(S)
  BY FS_Subset DEF WeekConstants
<1>2. Cardinality(S) \in Nat /\ \E f \in [1..Cardinality(S) -> S] : IsInjective(f)
  BY <1>1, FS_CardinalityType DEF ExistsBijection, Bijection, Injection
<1>3. SetToSeq(S) \in [1..Cardinality(S) -> S]
  BY <1>2 DEF SetToSeq
<1>4. todo' \in Seq(Conversations)
  <2>1. todo' = SetToSeq(S) /\ S \subseteq Conversations
    OBVIOUS
  <2>2. \A k \in Nat : \A f \in [1..k -> S] : f \in Seq(Conversations)
    <3> HIDE DEF S
    <3> QED BY <2>1
  <2> HIDE DEF S
  <2> QED BY <1>2, <1>3, <2>1, <2>2
<1>5. WeekTypes'
  BY <1>4 DEF WeekTypes, Steps, IsView
<1>6. Coherent(db)' /\ Coherent(session)'
  BY DEF Coherent
<1>7. AttemptOK' /\ CompleteMatches'
  BY DEF AttemptOK, CompleteMatches
<1> QED BY <1>5, <1>6, <1>7

\* One entry more, or a part of it.
LEMMA EntryKeepsWeek ==
  ASSUME WeekConstants, WeekInvariant, NEW n \in Nat, step = "entries", todo # <<>>,
         todo' = Tail(todo),
         session' \in {session, [session EXCEPT !.talks = With(Head(todo), n)]},
         UNCHANGED <<inbox, db, step, status, breakdown, pdf, tries>>
  PROVE  WeekInvariant'
<1> USE DEF WeekInvariant
<1>1. Head(todo) \in Conversations /\ todo' \in Seq(Conversations)
  BY DEF WeekTypes
<1>2. IsView(session)' /\ session'.findings = {}
  <2>1. CASE session' = session
    BY <2>1 DEF WeekTypes, AttemptOK, IsView
  <2>2. CASE session' = [session EXCEPT !.talks = With(Head(todo), n)]
    <3>1. session' = [talks |-> With(Head(todo), n), findings |-> session.findings, clusters |-> session.clusters]
      BY <2>2 DEF WeekTypes, IsView
    <3>2. /\ DOMAIN With(Head(todo), n) \subseteq Conversations
          /\ \A d \in DOMAIN With(Head(todo), n) : With(Head(todo), n)[d] \in Nat
      BY <1>1 DEF With, WeekTypes, IsView
    <3> QED BY <3>1, <3>2 DEF WeekTypes, AttemptOK, IsView
  <2> QED BY <2>1, <2>2
<1>3. WeekTypes'
  BY <1>1, <1>2 DEF WeekTypes, Steps, IsView
<1>4. Coherent(db)' /\ Coherent(session)'
  BY <1>2 DEF Coherent
<1>5. AttemptOK' /\ CompleteMatches'
  BY <1>2 DEF AttemptOK, CompleteMatches
<1> QED BY <1>3, <1>4, <1>5

\* The conversations are committed.
LEMMA CommitEntriesKeepsWeek ==
  ASSUME WeekConstants, WeekInvariant, CommitEntries
  PROVE  WeekInvariant'
<1> USE DEF WeekInvariant, CommitEntries
<1>1. WeekTypes'
  BY DEF WeekTypes, Steps, IsView
<1>2. Coherent(db)' /\ Coherent(session)'
  BY DEF Coherent
<1>3. AttemptOK' /\ CompleteMatches'
  BY DEF AttemptOK, CompleteMatches
<1> QED BY <1>1, <1>2, <1>3

\* An agent without conversations is skipped.
LEMMA SkipKeepsWeek ==
  ASSUME WeekConstants, WeekInvariant, SkipAgent
  PROVE  WeekInvariant'
<1> USE DEF WeekInvariant, SkipAgent
<1>1. IsView(Empty) /\ Empty.findings = {}
  <2>1. DOMAIN <<>> = {}
    OBVIOUS
  <2> QED BY <2>1 DEF IsView, Empty, NoClusters
<1>2. WeekTypes'
  BY <1>1 DEF WeekTypes, Steps, IsView
<1>3. Coherent(db)' /\ Coherent(session)'
  BY <1>1 DEF Coherent
<1>4. AttemptOK' /\ CompleteMatches'
  BY DEF AttemptOK, CompleteMatches
<1> QED BY <1>2, <1>3, <1>4

\* The findings of the questions without a reply.
LEMMA SilentFindings ==
  ASSUME NEW talks, NEW v, v.talks = talks, v.clusters = NoClusters,
         v.findings = {Finding(q, "no_reply") : q \in NoReply(talks)}
  PROVE  Coherent(v)
<1>1. \A f \in v.findings : \E q \in NoReply(talks) : f = Finding(q, "no_reply")
  OBVIOUS
<1>2. \A f \in v.findings : /\ f.question \in NoReply(talks) /\ f.status = "no_reply" /\ f.of = tries
                            /\ f = [question |-> f.question, status |-> "no_reply", of |-> tries]
  BY <1>1 DEF Finding
<1>3. \A q \in NoReply(talks) : q \in Questions(talks) /\ ~Replied(talks, q)
  BY DEF NoReply
<1> QED BY <1>2, <1>3 DEF Coherent, Flags

\* The findings of all questions, whatever the models say.
LEMMA JudgedFindings ==
  ASSUME NEW talks, NEW v, v.talks = talks, v.clusters = NoClusters,
         NEW scored \in [Candidates(talks) -> {"answered", "weak_answer", "not_answered"}],
         v.findings = {Finding(q, "no_reply") : q \in NoReply(talks)} \cup
                      {Finding(q, scored[q]) : q \in {q \in DOMAIN scored : scored[q] # "answered"}}
  PROVE  Coherent(v) /\ Judged(v)
<1> DEFINE silent == {Finding(q, "no_reply") : q \in NoReply(talks)}
           faulted == {q \in DOMAIN scored : scored[q] # "answered"}
           wanting == {Finding(q, scored[q]) : q \in faulted}
<1>1. \A q \in NoReply(talks) : q \in Questions(talks) /\ ~Replied(talks, q)
  BY DEF NoReply
<1>2. \A q \in faulted : /\ q \in Questions(talks) /\ Replied(talks, q)
                         /\ scored[q] \in {"weak_answer", "not_answered"}
  BY DEF Candidates
<1> HIDE DEF faulted
<1>3. \A f \in silent : /\ f.question \in NoReply(talks) /\ f.status = "no_reply" /\ f.of = tries
                        /\ f = [question |-> f.question, status |-> "no_reply", of |-> tries]
  BY DEF Finding
<1>4. \A f \in wanting : /\ f.question \in faulted /\ f.status = scored[f.question] /\ f.of = tries
                         /\ f = [question |-> f.question, status |-> scored[f.question], of |-> tries]
  <2>1. \A f \in wanting : \E q \in faulted : f = Finding(q, scored[q])
    OBVIOUS
  <2> HIDE DEF wanting
  <2>2. \A f \in wanting : \E q \in faulted : f = [question |-> q, status |-> scored[q], of |-> tries]
    BY <2>1 DEF Finding
  <2> QED BY <2>2
<1>5. \A q \in NoReply(talks) : \E f \in silent : f.question = q
  <2>1. \A q \in NoReply(talks) : Finding(q, "no_reply") \in silent
    OBVIOUS
  <2>2. \A q : Finding(q, "no_reply").question = q
    BY DEF Finding
  <2> HIDE DEF silent
  <2> QED BY <2>1, <2>2
<1>6. v.findings = silent \cup wanting
  BY DEF faulted
<1> HIDE DEF silent, wanting
<1>7. \A f \in v.findings : /\ f.question \in Questions(talks) /\ f.status \in Flags
                            /\ (f.status = "no_reply") <=> ~Replied(talks, f.question)
                            /\ f.of = tries
  BY <1>1, <1>2, <1>3, <1>4, <1>6 DEF Flags
<1>8. \A f, g \in v.findings : g.question = f.question => g = f
  <2>1. \A f, g \in silent : g.question = f.question => g = f
    BY <1>3
  <2>2. \A f, g \in wanting : g.question = f.question => g = f
    BY <1>4
  <2>3. \A f \in silent : \A g \in wanting : g.question # f.question
    BY <1>1, <1>2, <1>3, <1>4
  <2> QED BY <1>6, <2>1, <2>2, <2>3
<1>9. NoReply(talks) \subseteq {f.question : f \in v.findings}
  BY <1>5, <1>6
<1> QED BY <1>7, <1>8, <1>9 DEF Coherent, Judged

\* The questions are judged.
LEMMA JudgeKeepsWeek ==
  ASSUME WeekConstants, WeekInvariant, JudgeQuestions
  PROVE  WeekInvariant'
<1> USE DEF WeekInvariant
<1>1. PICK scored \in [Candidates(session.talks) -> {"answered", "weak_answer", "not_answered"}] :
        session' = [session EXCEPT
          !.clusters = NoClusters,
          !.findings = {Finding(q, "no_reply") : q \in NoReply(session.talks)} \cup
                       {Finding(q, scored[q]) : q \in {q \in DOMAIN scored : scored[q] # "answered"}}]
  BY DEF JudgeQuestions
<1> DEFINE F == {Finding(q, "no_reply") : q \in NoReply(session.talks)} \cup
                {Finding(q, scored[q]) : q \in {q \in DOMAIN scored : scored[q] # "answered"}}
           v == [talks |-> session.talks, findings |-> F, clusters |-> NoClusters]
<1>2. session' = v
  <2> HIDE DEF F
  <2>1. session' = [session EXCEPT !.clusters = NoClusters, !.findings = F]
    BY <1>1 DEF F
  <2> QED BY <2>1 DEF WeekTypes, IsView
<1>3. v.talks = session.talks /\ v.clusters = NoClusters /\ v.findings = F
  <2> HIDE DEF F
  <2> QED OBVIOUS
<1>4. Coherent(v) /\ Judged(v)
  <2> HIDE DEF v
  <2> QED BY <1>3, JudgedFindings
<1>5. IsView(v)
  <2> HIDE DEF F
  <2> QED BY DEF WeekTypes, IsView, NoClusters
<1> HIDE DEF v
<1>6. step' = "cluster" /\ UNCHANGED <<inbox, db, todo, status, breakdown, pdf, tries>> /\ step = "loaded"
  BY DEF JudgeQuestions
<1>7. WeekTypes'
  BY <1>2, <1>5, <1>6 DEF WeekTypes, Steps, IsView
<1>8. Coherent(db)' /\ Coherent(session)'
  BY <1>2, <1>4, <1>6 DEF Coherent
<1>9. AttemptOK'
  BY <1>2, <1>3, <1>4, <1>6 DEF AttemptOK, Judged
<1>10. CompleteMatches'
  BY <1>6 DEF CompleteMatches, AttemptOK
<1> QED BY <1>7, <1>8, <1>9, <1>10

\* The questions are clustered.
LEMMA ClusterKeepsWeek ==
  ASSUME WeekConstants, WeekInvariant, ClusterWeek
  PROVE  WeekInvariant'
<1> DEFINE tx == TextsOf(session.talks)
           N == Cardinality(Questions(session.talks))
<1> USE DEF WeekInvariant
<1>1. step = "cluster" /\ step' = "render" /\ UNCHANGED <<inbox, db, todo, status, breakdown, pdf, tries>>
  BY DEF ClusterWeek
<1>2. session.clusters = NoClusters /\ Judged(session) /\ Coherent(session) /\ IsView(session)
  BY <1>1 DEF AttemptOK, WeekTypes
<1>3. N \in Nat
  BY <1>2, QuestionsFinite DEF IsView
<1>4. Len(tx) = N /\ DOMAIN tx = 1..N
  BY <1>3, TextsCount
<1>5. /\ session'.talks = session.talks /\ session'.findings = session.findings /\ IsView(session)'
      /\ session'.clusters = NoClusters \/ session'.clusters.of = tries
      /\ Clustered(session)'
  <2>1. CASE Len(tx) < 2
    <3>1. session' = session
      BY <2>1 DEF ClusterWeek
    <3>2. session.clusters.ranking = <<>> /\ Range(<<>>) = {}
      BY <1>2 DEF NoClusters, Range
    <3>3. RankingOK(<<>>, N)
      BY <1>3, EmptyIsRanking DEF IsRanking, WeekConstants
    <3>4. Clustered(session)
      BY <3>2, <3>3 DEF Clustered
    <3>5. Clustered(session)'
      BY <3>1, <3>4 DEF Clustered
    <3>6. IsView(session)'
      BY <1>2, <3>1 DEF IsView
    <3> QED BY <1>2, <3>1, <3>5, <3>6
  <2>2. CASE ~ Len(tx) < 2
    <3>1. PICK c \in Clusterings(Len(tx)) :
            session' = [session EXCEPT !.clusters = [of |-> tries, ranking |-> Ranking(tx, c)]]
      BY <2>2 DEF ClusterWeek
    <3>2. Ranking(tx, c) \in Seq(Entries(tx, N)) /\ RankingOK(Ranking(tx, c), N)
      BY <1>3, <1>4, RankedOK DEF WeekConstants
    <3> DEFINE r == Ranking(tx, c)
    <3> HIDE DEF r
    <3>3. session' = [talks |-> session.talks, findings |-> session.findings,
                      clusters |-> [of |-> tries, ranking |-> r]]
      BY <1>2, <3>1 DEF IsView, r
    <3>4. \A e \in Range(r) : e.key \in {Key[t] : t \in Range(tx)}
      <4>1. r \in Seq(Entries(tx, N))
        BY <3>2 DEF r
      <4>2. \A e \in Range(r) : e \in Entries(tx, N)
        BY <4>1 DEF Range
      <4>3. \A i \in 1..N : tx[i] \in Range(tx)
        BY <1>4 DEF Range
      <4> HIDE DEF tx, N
      <4> QED BY <4>2, <4>3 DEF Entries
    <3>5. IsView(session)' /\ session'.clusters.of = tries /\ session'.clusters.ranking = r
          /\ session'.talks = session.talks /\ session'.findings = session.findings
      BY <1>2, <3>3 DEF IsView
    <3>6. Clustered(session)'
      BY <3>2, <3>4, <3>5 DEF Clustered, r
    <3> QED BY <3>5, <3>6
  <2> QED BY <2>1, <2>2
<1>6. WeekTypes'
  BY <1>1, <1>5 DEF WeekTypes, Steps, IsView
<1>7. Coherent(db)'
  BY <1>1 DEF Coherent
<1>8. Coherent(session)'
  BY <1>1, <1>2, <1>5 DEF Coherent, Judged
<1>9. AttemptOK'
  BY <1>1, <1>2, <1>5 DEF AttemptOK, Judged
<1>10. CompleteMatches'
  BY <1>1 DEF CompleteMatches, AttemptOK
<1> QED BY <1>6, <1>7, <1>8, <1>9, <1>10

\* What is complete agrees with itself.
LEMMA CompleteAgrees ==
  ASSUME WeekConstants, NEW v, IsView(v), Coherent(v), Judged(v), Clustered(v)
  PROVE  LET asked == Questions(v.talks)
         IN  /\ NoReply(v.talks) \subseteq {f.question : f \in v.findings}
             /\ Breakdown(v.findings)["no_reply"] + Breakdown(v.findings)["weak_answer"]
                  + Breakdown(v.findings)["not_answered"] <= Cardinality(asked)
             /\ RankingOK(v.clusters.ranking, Cardinality(asked))
             /\ \A r \in Range(v.clusters.ranking) : r.key \in {Key[t] : t \in Range(TextsOf(v.talks))}
<1> DEFINE asked == Questions(v.talks)
<1>1. IsFiniteSet(asked)
  BY QuestionsFinite DEF IsView
<1>2. \A f \in v.findings : f.question \in asked /\ f.status \in Flags
  BY DEF Coherent
<1>3. \A f, g \in v.findings : f.question = g.question => f = g
  BY DEF Coherent
<1>4. Breakdown(v.findings)["no_reply"] + Breakdown(v.findings)["weak_answer"]
        + Breakdown(v.findings)["not_answered"] <= Cardinality(asked)
  <2> HIDE DEF asked
  <2> QED BY <1>1, <1>2, <1>3, FlaggedBounded
<1> QED BY <1>4 DEF Judged, Clustered

\* The PDF is written and the row says "complete".
LEMMA CompleteKeepsWeek ==
  ASSUME WeekConstants, WeekInvariant, CompleteAgent
  PROVE  WeekInvariant'
<1> USE DEF WeekInvariant, CompleteAgent
<1>1. IsView(session) /\ Coherent(session) /\ Judged(session) /\ Clustered(session)
  BY DEF WeekTypes, AttemptOK
<1>2. WeekTypes'
  BY DEF WeekTypes, Steps, IsView
<1>3. Coherent(db)' /\ Coherent(session)'
  BY DEF Coherent
<1>4. AttemptOK'
  BY DEF AttemptOK
<1>5. CompleteMatches'
  BY <1>1, CompleteAgrees DEF CompleteMatches, Rendered
<1> QED BY <1>2, <1>3, <1>4, <1>5

\* What a failure commits is a coherent view, and the row is not complete.
LEMMA FailureKeepsWeek ==
  ASSUME WeekConstants, WeekInvariant, HandleFailure, IsView(db)', Coherent(db)'
  PROVE  WeekInvariant'
<1> USE DEF WeekInvariant, HandleFailure
<1>1. WeekTypes'
  BY DEF WeekTypes, Steps, IsView
<1>2. Coherent(session)'
  BY DEF Coherent
<1>3. AttemptOK' /\ CompleteMatches'
  BY DEF AttemptOK, CompleteMatches
<1> QED BY <1>1, <1>2, <1>3

\* The handler commits what the session holds.
LEMMA SessionCommitted ==
  ASSUME WeekInvariant, db' = session
  PROVE  IsView(db)' /\ Coherent(db)'
BY DEF WeekInvariant, WeekTypes, IsView, Coherent

\* The models raise.
LEMMA JudgeFailsKeepsWeek ==
  ASSUME WeekConstants, WeekInvariant, JudgeFails
  PROVE  WeekInvariant'
<1> DEFINE F == {Finding(q, "no_reply") : q \in NoReply(session.talks)}
           v == [talks |-> session.talks, findings |-> F, clusters |-> NoClusters]
<1>1. db' = v
  <2>1. db' = [session EXCEPT !.clusters = NoClusters, !.findings = F]
    BY DEF JudgeFails
  <2> HIDE DEF F
  <2> QED BY <2>1 DEF WeekInvariant, WeekTypes, IsView
<1>2. IsView(v)
  <2> HIDE DEF F
  <2> QED BY DEF WeekInvariant, WeekTypes, IsView, NoClusters
<1>3. v.talks = session.talks /\ v.clusters = NoClusters /\ v.findings = F
  <2> HIDE DEF F
  <2> QED OBVIOUS
<1>4. Coherent(v)
  <2> HIDE DEF v
  <2> QED BY <1>3, SilentFindings
<1> HIDE DEF v
<1>5. IsView(db)' /\ Coherent(db)'
  BY <1>1, <1>2, <1>4 DEF IsView, Coherent
<1> QED BY <1>5, FailureKeepsWeek DEF JudgeFails

\* The attempt is lost with its session.
LEMMA LoseKeepsWeek ==
  ASSUME WeekConstants, WeekInvariant, LoseSession
  PROVE  WeekInvariant'
<1> USE DEF WeekInvariant, LoseSession
<1>1. WeekTypes'
  BY DEF WeekTypes, Steps, IsView
<1>2. Coherent(db)' /\ Coherent(session)'
  BY DEF Coherent
<1>3. AttemptOK' /\ CompleteMatches'
  BY DEF AttemptOK, CompleteMatches
<1> QED BY <1>1, <1>2, <1>3

\* Every step keeps the invariant.
LEMMA WeekStep ==
  ASSUME WeekConstants, WeekInvariant, [WeekNext]_weekVars
  PROVE  WeekInvariant'
<1>1. CASE \E c \in Conversations : Write(c)
  BY <1>1, WriteKeepsWeek
<1>2. CASE BeginAttempt \/ ClearWindow \/ CollectEntries
  BY <1>2, BeginKeepsWeek, ClearKeepsWeek, CollectKeepsWeek
<1>3. CASE StoreEntry
  <2>1. inbox[Head(todo)] \in Nat
    BY <1>3 DEF StoreEntry, WeekInvariant, WeekTypes
  <2> QED BY <1>3, <2>1, EntryKeepsWeek DEF StoreEntry
<1>4. CASE SkipEntry
  <2>1. 0 \in Nat
    OBVIOUS
  <2> QED BY <1>4, <2>1, EntryKeepsWeek DEF SkipEntry
<1>5. ASSUME NEW n \in 0..Max({inbox[c] : c \in Conversations}), CutEntry(n)
      PROVE  WeekInvariant'
  <2>1. inbox[Head(todo)] \in Nat
    BY <1>5 DEF CutEntry, WeekInvariant, WeekTypes
  <2>2. n \in Nat
    BY <1>5
  <2> QED BY <1>5, <2>2, EntryKeepsWeek DEF CutEntry
<1>6. CASE CommitEntries \/ SkipAgent \/ JudgeQuestions \/ ClusterWeek \/ CompleteAgent
  BY <1>6, CommitEntriesKeepsWeek, SkipKeepsWeek, JudgeKeepsWeek, ClusterKeepsWeek, CompleteKeepsWeek
<1>7. CASE FetchFails \/ ClusterFails \/ RenderFails
  BY <1>7, SessionCommitted, FailureKeepsWeek DEF FetchFails, ClusterFails, RenderFails
<1>8. CASE JudgeFails \/ LoseSession
  BY <1>8, JudgeFailsKeepsWeek, LoseKeepsWeek
<1>9. CASE UNCHANGED weekVars
  <2> USE <1>9 DEF weekVars
  <2>1. WeekTypes' /\ AttemptOK'
    BY DEF WeekInvariant, WeekTypes, AttemptOK, IsView, Judged, Clustered
  <2>2. Coherent(db)' /\ Coherent(session)'
    BY DEF WeekInvariant, Coherent
  <2>3. CompleteMatches'
    BY DEF WeekInvariant, CompleteMatches
  <2> QED BY <2>1, <2>2, <2>3 DEF WeekInvariant
<1> QED BY <1>1, <1>2, <1>3, <1>4, <1>5, <1>6, <1>7, <1>8, <1>9 DEF WeekNext

\* Whatever of an attempt fails or is lost, and whatever the models answer: the
\* findings of the week are of stored questions, say whether they have a reply,
\* and are with the clusters of one attempt; and the counts, the PDF and the
\* ranking of a complete agent are those of its rows (WeeklyOrchestrator.run_agent).
THEOREM WeekAlwaysMatches ==
  ASSUME WeekConstants
  PROVE  WeekSpec => []WeekMatches
<1>1. WeekInit => WeekInvariant
  BY WeekInitially
<1>2. WeekInvariant /\ [WeekNext]_weekVars => WeekInvariant'
  BY WeekStep
<1>3. WeekInvariant => WeekMatches
  BY DEF WeekInvariant, Coherent, WeekMatches, FindingsJustified, OneAttempt
<1> QED BY <1>1, <1>2, <1>3, PTL DEF WeekSpec

-------------------------------------------------------------------------------
(* Unanswered questions: operators *)

\* The conversations that w has still to visit.
Ahead(w) == {Order[m] : m \in Rest(w, next[w])}

\* First finds the least position of the batch, if there is one.
LEMMA FirstOf ==
  ASSUME RowsConstants, NEW w, NEW n \in Nat \ {0}
  PROVE  /\ Rest(w, n) \subseteq 1..Len(Order)
         /\ Rest(w, n) = {} => First(Rest(w, n)) = Len(Order) + 1
         /\ Rest(w, n) # {} => /\ First(Rest(w, n)) \in Rest(w, n)
                               /\ First(Rest(w, n)) \in Nat \ {0}
                               /\ First(Rest(w, n)) <= Len(Order)
                               /\ \A m \in Rest(w, n) : First(Rest(w, n)) <= m
                               /\ Rest(w, First(Rest(w, n))) = Rest(w, n)
<1>1. Rest(w, n) \subseteq 1..Len(Order)
  BY DEF Rest, RowsConstants
<1>2. CASE Rest(w, n) = {}
  BY <1>1, <1>2 DEF First
<1>3. CASE Rest(w, n) # {}
  <2>1. First(Rest(w, n)) \in Rest(w, n) /\ \A m \in Rest(w, n) : First(Rest(w, n)) <= m
    <3>1. Rest(w, n) \subseteq Nat
      BY <1>1
    <3> QED BY <1>3, <3>1, LeastElement DEF First
  <2> DEFINE f == First(Rest(w, n))
  <2>2. f \in Nat \ {0} /\ f <= Len(Order) /\ n <= f
    BY <1>1, <2>1 DEF Rest, RowsConstants
  <2>4. \A m \in Rest(w, n) : f <= m
    BY <2>1
  <2> HIDE DEF f
  <2>3. Rest(w, f) = Rest(w, n)
    BY <2>2, <2>4 DEF Rest, RowsConstants
  <2> QED BY <1>1, <1>3, <2>1, <2>2, <2>3 DEF f
<1> QED BY <1>2, <1>3

\* Questions are at positions, and there are finitely many of those.
LEMMA PositionsFinite ==
  ASSUME RowsConstants, NEW S, S \subseteq Positions
  PROVE  IsFiniteSet(S) /\ Cardinality(S) \in Nat
<1>1. IsFiniteSet(Positions)
  BY FS_Interval DEF RowsConstants, Positions
<1> QED BY <1>1, FS_Subset, FS_CardinalityType
-------------------------------------------------------------------------------
(* The invariant *)

Message == {"Q", "A"}
MessageLists == {s \in Seq(Message) : Len(s) <= MaxLength}

RowsTypes ==
  /\ msgs \in [Convs -> MessageLists]
  /\ rows \in [Convs -> [Positions -> Statuses \cup {"none"}]]
  /\ counts \in [Convs -> [{"no_reply", "weak_answer", "not_answered", "total"} -> Nat]]
  /\ verdict \in [Positions -> {"answered", "weak_answer", "not_answered"}]
  /\ wpc \in [Writers -> WorkSteps] /\ scope \in [Writers -> SUBSET Convs]
  /\ next \in [Writers -> Nat \ {0}]
  /\ loaded \in [Writers -> MessageLists]
  /\ cands \in [Writers -> SUBSET (Convs \X Positions)]
  /\ open \in [Writers -> SUBSET Convs]
  /\ dirty \in [Writers -> SUBSET Convs]

\* Positions of questions without, and with, a later message of the agent.
Silent(c) == {i \in Positions : i \in QuestionsIn(msgs[c]) /\ ~RepliedIn(msgs[c], i)}
Answered(c) == {i \in Positions : i \in QuestionsIn(msgs[c]) /\ RepliedIn(msgs[c], i)}

\* The no_reply rows of c are right; there are no others.
SilentRows(c) == \A i \in Positions : rows[c][i] = "no_reply" <=> i \in Silent(c)
Clean(c) == \A i \in Positions : rows[c][i] \in {"none", "no_reply"}

\* What w has collected of c, with the rows it has deleted.
Collected(w, c) ==
  /\ \A i \in Answered(c) : <<c, i>> \in cands[w]
  /\ c \in open[w] \/ Clean(c)

\* What an insights job has done for conversations nobody else has written to.
FollowedOK(w) ==
  /\ wpc[w] \in {"ingest", "tier1", "begin", "metrics", "write", "collect"} => next[w] \in Rest(w, 1)
  /\ wpc[w] = "begin" => next[w] = First(Rest(w, 1))
  /\ wpc[w] = "write" /\ Here(w) \notin dirty[w] => loaded[w] = msgs[Here(w)]
  /\ wpc[w] \in {"metrics", "write"} => \A c \in scope[w] \ dirty[w] : c \notin Ahead(w) => SilentRows(c)
  /\ wpc[w] \in {"collect", "score"} => \A c \in scope[w] \ dirty[w] :
       SilentRows(c) /\ \A i \in Positions : <<c, i>> \in cands[w] => i \in Answered(c)
  /\ wpc[w] = "collect" => \A c \in scope[w] \ dirty[w] : c \notin Ahead(w) => Collected(w, c)
  /\ wpc[w] = "score" => \A c \in scope[w] \ dirty[w] : Collected(w, c)
  /\ wpc[w] \notin {"collect", "score"} => cands[w] = {} /\ open[w] = {}
  /\ \A x \in cands[w] : x[1] \in scope[w]
  /\ open[w] \subseteq scope[w]

\* The two claims of CountsMatchRows, conversation by conversation.
Counted(c) == counts[c].no_reply = Number(c, "no_reply")
Right(c) ==
  /\ rows[c] = Expected(c)
  /\ \A s \in Statuses : counts[c][s] = Number(c, s)
  /\ counts[c].total = Cardinality({i \in Positions : rows[c][i] # "none"})

Matched(c) == (c \notin raced => Counted(c)) /\ (c \in settled => Right(c))

RowsInvariant ==
  /\ RowsTypes
  /\ \A w \in Writers : FollowedOK(w)
  /\ \A c \in Convs : Matched(c)
-------------------------------------------------------------------------------
(* What a step leaves to others *)

\* The rows of c change at most by a deletion of rows of the scored kinds.
Weaker(c) == \A i \in Positions : rows'[c][i] = rows[c][i] \/ (rows[c][i] # "no_reply" /\ rows'[c][i] = "none")

\* A step of another process, as v meets it.
Untouched(v) ==
  /\ wpc'[v] = wpc[v] /\ scope'[v] = scope[v] /\ next'[v] = next[v]
  /\ loaded'[v] = loaded[v] /\ cands'[v] = cands[v] /\ open'[v] = open[v]
  /\ dirty[v] \subseteq dirty'[v]
  /\ \A c \in scope[v] \ dirty'[v] : msgs'[c] = msgs[c] /\ Weaker(c)

\* A step that writes no counts of c, as its rows and counts meet it.
Steady(c) ==
  /\ c \notin raced' => c \notin raced /\ counts'[c] = counts[c] /\ Weaker(c)
  /\ c \in settled' =>
       /\ c \in settled /\ rows'[c] = rows[c] /\ counts'[c] = counts[c]
       /\ msgs'[c] = msgs[c] /\ verdict' = verdict

LEMMA UntouchedKeeps ==
  ASSUME RowsConstants, RowsTypes, NEW v \in Writers, FollowedOK(v), Untouched(v)
  PROVE  FollowedOK(v)'
<1> USE DEF Untouched
<1>1. Rest(v, 1)' = Rest(v, 1) /\ First(Rest(v, 1))' = First(Rest(v, 1)) /\ Here(v)' = Here(v) /\ Ahead(v)' = Ahead(v)
  BY DEF Rest, First, Here, Ahead
<1>2. ASSUME NEW c \in scope[v] \ dirty'[v]
      PROVE  /\ Silent(c)' = Silent(c) /\ Answered(c)' = Answered(c)
             /\ SilentRows(c) => SilentRows(c)'
             /\ Collected(v, c) => Collected(v, c)'
  <2>1. Silent(c)' = Silent(c) /\ Answered(c)' = Answered(c)
    BY DEF Silent, Answered
  <2>2. SilentRows(c) => SilentRows(c)'
    BY <2>1 DEF SilentRows, Weaker
  <2>3. Clean(c) => Clean(c)'
    BY DEF Clean, Weaker
  <2> QED BY <2>1, <2>2, <2>3 DEF Collected
<1>3. wpc[v] = "write" => Here(v) \in scope[v]
  BY DEF FollowedOK, Rest, Here
<1>4. /\ wpc'[v] \in {"ingest", "tier1", "begin", "metrics", "write", "collect"} => next'[v] \in Rest(v, 1)'
      /\ wpc'[v] = "begin" => next'[v] = First(Rest(v, 1))'
      /\ wpc'[v] \notin {"collect", "score"} => cands'[v] = {} /\ open'[v] = {}
      /\ \A x \in cands'[v] : x[1] \in scope'[v]
      /\ open'[v] \subseteq scope'[v]
  BY <1>1 DEF FollowedOK
<1>5. wpc'[v] = "write" /\ Here(v)' \notin dirty'[v] => loaded'[v] = msgs'[Here(v)']
  <2>1. SUFFICES ASSUME wpc[v] = "write", Here(v) \notin dirty'[v]
                 PROVE  loaded[v] = msgs'[Here(v)]
    BY <1>1
  <2>2. Here(v) \in scope[v] \ dirty'[v] /\ Here(v) \notin dirty[v]
    BY <1>3, <2>1
  <2> QED BY <2>1, <2>2 DEF FollowedOK
<1>6. ASSUME NEW c \in scope'[v] \ dirty'[v]
      PROVE  /\ wpc'[v] \in {"metrics", "write"} => (c \notin Ahead(v)' => SilentRows(c)')
             /\ wpc'[v] \in {"collect", "score"} =>
                  SilentRows(c)' /\ \A i \in Positions : <<c, i>> \in cands'[v] => i \in Answered(c)'
             /\ wpc'[v] = "collect" => (c \notin Ahead(v)' => Collected(v, c)')
             /\ wpc'[v] = "score" => Collected(v, c)'
  <2>1. c \in scope[v] \ dirty[v] /\ c \in scope[v] \ dirty'[v]
    OBVIOUS
  <2> QED BY <1>1, <1>2, <2>1 DEF FollowedOK
<1> QED BY <1>4, <1>5, <1>6 DEF FollowedOK

LEMMA SteadyKeeps ==
  ASSUME NEW c \in Convs, Matched(c), Steady(c)
  PROVE  Matched(c)'
<1>1. ASSUME c \notin raced' PROVE Counted(c)'
  <2>1. {i \in Positions : rows'[c][i] = "no_reply"} = {i \in Positions : rows[c][i] = "no_reply"}
    BY <1>1 DEF Steady, Weaker
  <2> QED BY <1>1, <2>1 DEF Steady, Matched, Counted, Number
<1>2. ASSUME c \in settled' PROVE Right(c)'
  <2>1. Expected(c)' = Expected(c) /\ \A s \in Statuses : Number(c, s)' = Number(c, s)
    BY <1>2 DEF Steady, Expected, Number
  <2> QED BY <1>2, <2>1 DEF Steady, Matched, Right
<1> QED BY <1>1, <1>2 DEF Matched

\* A step of w, of which it is known what it does to w and to the others.
LEMMA StepKeeps ==
  ASSUME RowsConstants, RowsInvariant, NEW w \in Writers, RowsTypes', FollowedOK(w)',
         \A v \in Writers \ {w} : Untouched(v), \A c \in Convs : Matched(c)'
  PROVE  RowsInvariant'
<1>1. ASSUME NEW v \in Writers \ {w} PROVE FollowedOK(v)'
  BY UntouchedKeeps DEF RowsInvariant
<1> QED BY <1>1 DEF RowsInvariant

\* A step of w that writes nothing.
LEMMA QuietKeeps ==
  ASSUME RowsConstants, RowsInvariant, NEW w \in Writers, RowsTypes', FollowedOK(w)',
         UNCHANGED <<msgs, rows, counts, verdict>>, settled' \subseteq settled, raced \subseteq raced',
         \A v \in Writers \ {w} :
           /\ wpc'[v] = wpc[v] /\ scope'[v] = scope[v] /\ next'[v] = next[v]
           /\ loaded'[v] = loaded[v] /\ cands'[v] = cands[v] /\ open'[v] = open[v]
           /\ dirty'[v] = dirty[v]
  PROVE  RowsInvariant'
<1>1. \A v \in Writers \ {w} : Untouched(v)
  BY DEF Untouched, Weaker
<1>2. \A c \in Convs : Matched(c)'
  <2>1. ASSUME NEW c \in Convs PROVE Steady(c)
    BY DEF Steady, Weaker
  <2> QED BY <2>1, SteadyKeeps DEF RowsInvariant
<1> QED BY <1>1, <1>2, StepKeeps

\* The process goes on: what is ahead of it shrinks by the conversation it leaves.
LEMMA OnwardsGoes ==
  ASSUME RowsConstants, RowsTypes, NEW w \in Writers, NEW stay \in WorkSteps, NEW s \in WorkSteps,
         next[w] \in Rest(w, 1), Onwards(w, stay, s), scope' = scope
  PROVE  /\ next' \in [Writers -> Nat \ {0}] /\ wpc' \in [Writers -> WorkSteps]
         /\ \A v \in Writers \ {w} : next'[v] = next[v] /\ wpc'[v] = wpc[v]
         /\ next'[w] \in Rest(w, 1)'
         /\ \/ wpc'[w] = stay /\ Ahead(w) \subseteq Ahead(w)' \cup {Here(w)}
            \/ /\ wpc'[w] = s /\ Ahead(w) \subseteq {Here(w)}
               /\ next'[w] = First(Rest(w, 1))' /\ Ahead(w)' = scope[w]
<1> DEFINE n == First(Rest(w, next[w] + 1))
           f == First(Rest(w, 1))
<1>1. Rest(w, 1)' = Rest(w, 1) /\ First(Rest(w, 1))' = f
  BY DEF Rest, First
<1>2. next[w] \in Nat \ {0} /\ Len(Order) \in Nat
  BY DEF RowsTypes, RowsConstants
<1>3. Rest(w, 1) # {} /\ f \in Rest(w, 1) /\ f \in Nat \ {0} /\ Rest(w, f) = Rest(w, 1)
  BY FirstOf
<1>4. Ahead(w) \subseteq {Order[m] : m \in Rest(w, next[w] + 1)} \cup {Here(w)}
  BY <1>2 DEF Ahead, Here, Rest
<1>5. CASE n <= Len(Order)
  <2>1. next' = [next EXCEPT ![w] = n] /\ wpc' = [wpc EXCEPT ![w] = stay]
    BY <1>5 DEF Onwards
  <2>2. Rest(w, next[w] + 1) # {}
    BY <1>2, <1>5, FirstOf
  <2>3. n \in Rest(w, next[w] + 1) /\ n \in Nat \ {0} /\ Rest(w, n) = Rest(w, next[w] + 1)
    BY <1>2, <2>2, FirstOf
  <2>4. n \in Rest(w, 1)
    BY <1>2, <2>3 DEF Rest
  <2> HIDE DEF n
  <2>6. next'[w] = n /\ wpc'[w] = stay
    BY <2>1 DEF RowsTypes
  <2>7. Ahead(w)' = {Order[m] : m \in Rest(w, n)}
    <3>1. Rest(w, next[w])' = Rest(w, n)
      BY <2>6 DEF Rest
    <3> QED BY <3>1 DEF Ahead
  <2> QED BY <1>1, <1>4, <2>1, <2>3, <2>4, <2>6, <2>7 DEF RowsTypes
<1>6. CASE ~(n <= Len(Order))
  <2>1. next' = [next EXCEPT ![w] = f] /\ wpc' = [wpc EXCEPT ![w] = s]
    BY <1>6 DEF Onwards
  <2>2. Rest(w, next[w] + 1) = {}
    BY <1>2, <1>6, FirstOf
  <2> HIDE DEF n, f
  <2>3. next'[w] = f /\ wpc'[w] = s
    BY <2>1 DEF RowsTypes
  <2>4. Ahead(w)' = {Order[m] : m \in Rest(w, 1)}
    <3>1. Rest(w, next[w])' = Rest(w, f)
      BY <2>3 DEF Rest
    <3> QED BY <1>3, <3>1 DEF Ahead
  <2>5. {Order[m] : m \in Rest(w, 1)} = scope[w]
    BY DEF Rest, RowsTypes, RowsConstants, Convs
  <2> QED BY <1>1, <1>3, <1>4, <2>1, <2>2, <2>3, <2>4, <2>5 DEF RowsTypes
<1> QED BY <1>5, <1>6
-------------------------------------------------------------------------------
(* The steps that write nothing *)

LEMMA RowsInitially ==
  ASSUME RowsConstants, RowsInit
  PROVE  RowsInvariant
<1> USE DEF RowsInit
<1>1. RowsTypes
  <2>1. <<>> \in MessageLists
    BY DEF MessageLists, RowsConstants
  <2> QED BY <2>1 DEF RowsTypes, NoCounts, WorkSteps, RowsConstants
<1>2. \A w \in Writers : FollowedOK(w)
  BY DEF FollowedOK
<1>3. \A c \in Convs : Matched(c)
  <2> SUFFICES ASSUME NEW c \in Convs PROVE Matched(c)
    OBVIOUS
  <2>1. {i \in Positions : rows[c][i] = "no_reply"} = {}
    OBVIOUS
  <2>2. Cardinality({}) = 0
    BY FS_EmptySet
  <2> QED BY <2>1, <2>2 DEF Matched, Counted, Number, NoCounts
<1> QED BY <1>1, <1>2, <1>3 DEF RowsInvariant

LEMMA StartKeeps ==
  ASSUME RowsConstants, RowsInvariant, NEW w \in Writers, Start(w)
  PROVE  RowsInvariant'
<1> USE DEF Start, rowVars, workVars
<1>1. PICK S \in Scopes[w] : scope' = [scope EXCEPT ![w] = S]
                             /\ next' = [next EXCEPT ![w] = Min({n \in DOMAIN Order : Order[n] \in S})]
  OBVIOUS
<1>2. PICK s \in {"ingest", "begin"} : wpc' = [wpc EXCEPT ![w] = s]
  OBVIOUS
<1>3. RowsTypes /\ FollowedOK(w)
  BY DEF RowsInvariant
<1>4. S \subseteq Convs /\ S # {}
  BY DEF RowsConstants
<1>5. scope'[w] = S /\ wpc'[w] = s /\ cands'[w] = {} /\ open'[w] = {}
  BY <1>1, <1>2, <1>3 DEF RowsTypes, FollowedOK
<1>6. Rest(w, 1)' = {n \in DOMAIN Order : Order[n] \in S} /\ Rest(w, 1)' # {} /\ Rest(w, 1)' \subseteq Nat \ {0}
  BY <1>4, <1>5 DEF Rest, RowsConstants, Convs
<1>7. next'[w] = Min(Rest(w, 1)')
  BY <1>1, <1>3, <1>6 DEF RowsTypes
<1>8. next'[w] \in Rest(w, 1)' /\ next'[w] = First(Rest(w, 1))'
  <2>1. Rest(w, 1)' \subseteq Nat
    BY <1>6
  <2> QED BY <1>6, <1>7, <2>1, LeastElement DEF First
<1>9. FollowedOK(w)'
  BY <1>5, <1>8 DEF FollowedOK
<1>10. RowsTypes'
  BY <1>1, <1>2, <1>3, <1>4, <1>6, <1>8 DEF RowsTypes, WorkSteps
<1> QED BY <1>1, <1>2, <1>3, <1>9, <1>10, QuietKeeps DEF RowsTypes

LEMMA BeginKeeps ==
  ASSUME RowsConstants, RowsInvariant, NEW w \in Writers, BeginInsights(w)
  PROVE  RowsInvariant'
<1> USE DEF BeginInsights, rowVars, workVars
<1>1. RowsTypes /\ FollowedOK(w)
  BY DEF RowsInvariant
<1>2. RowsTypes'
  BY <1>1 DEF RowsTypes, WorkSteps
<1>3. wpc'[w] = "metrics" /\ UNCHANGED <<scope, next, cands, open>> /\ next[w] = First(Rest(w, 1)) /\ next[w] \in Rest(w, 1)
      /\ cands[w] = {} /\ open[w] = {}
  BY <1>1 DEF RowsTypes, FollowedOK
<1>4. Rest(w, 1)' = Rest(w, 1)
  BY <1>3 DEF Rest
<1>5. Ahead(w)' = scope[w]
  <2>1. Rest(w, next[w])' = Rest(w, 1)
    <3>1. Rest(w, First(Rest(w, 1))) = Rest(w, 1)
      BY <1>3, FirstOf
    <3>2. Rest(w, next[w])' = Rest(w, next[w])
      BY <1>3 DEF Rest
    <3> QED BY <1>3, <3>1, <3>2
  <2>2. {Order[m] : m \in Rest(w, 1)} = scope[w]
    BY <1>1 DEF Rest, RowsTypes, RowsConstants, Convs
  <2> QED BY <2>1, <2>2 DEF Ahead
<1>6. FollowedOK(w)'
  BY <1>3, <1>4, <1>5 DEF FollowedOK
<1> QED BY <1>1, <1>2, <1>6, QuietKeeps DEF RowsTypes

\* A flag is set or deleted.
LEMMA FlagKeeps ==
  ASSUME RowsConstants, RowsInvariant, UNCHANGED <<rowVars, workVars, dirty, raced, settled>>
  PROVE  RowsInvariant'
<1> USE DEF rowVars, workVars
<1>1. RowsTypes'
  BY DEF RowsInvariant, RowsTypes
<1>2. ASSUME NEW v \in Writers PROVE FollowedOK(v)'
  <2>1. Untouched(v)
    BY DEF Untouched, Weaker
  <2> QED BY <2>1, UntouchedKeeps DEF RowsInvariant
<1>3. ASSUME NEW c \in Convs PROVE Matched(c)'
  <2>1. Steady(c)
    BY DEF Steady, Weaker
  <2> QED BY <2>1, SteadyKeeps DEF RowsInvariant
<1> QED BY <1>1, <1>2, <1>3 DEF RowsInvariant

LEMMA LoadKeeps ==
  ASSUME RowsConstants, RowsInvariant, NEW w \in Writers, LoadMetrics(w)
  PROVE  RowsInvariant'
<1> USE DEF LoadMetrics, rowVars, workVars
<1>1. RowsTypes /\ FollowedOK(w)
  BY DEF RowsInvariant
<1>2. Rest(w, 1)' = Rest(w, 1) /\ Ahead(w)' = Ahead(w) /\ Here(w)' = Here(w) /\ next[w] \in Rest(w, 1)
  BY <1>1 DEF Rest, Ahead, Here, FollowedOK
<1>3. Here(w) \in Convs
  BY <1>1, <1>2 DEF Here, Rest, RowsTypes
<1>4. RowsTypes'
  <2>1. msgs[Here(w)] \in MessageLists
    BY <1>1, <1>3 DEF RowsTypes
  <2> QED BY <1>1, <2>1 DEF RowsTypes, WorkSteps
<1>5. wpc'[w] = "write" /\ loaded'[w] = msgs[Here(w)]
  BY <1>1 DEF RowsTypes
<1>6. \A c \in Convs : SilentRows(c)' = SilentRows(c)
  BY DEF SilentRows, Silent
<1>7. FollowedOK(w)'
  BY <1>1, <1>2, <1>5, <1>6 DEF FollowedOK, RowsTypes
<1> QED BY <1>1, <1>4, <1>7, QuietKeeps DEF RowsTypes

LEMMA RaiseKeeps ==
  ASSUME RowsConstants, RowsInvariant, NEW w \in Writers, MetricsRaise(w)
  PROVE  RowsInvariant'
<1> USE DEF MetricsRaise, rowVars
<1>1. RowsTypes /\ FollowedOK(w) /\ next[w] \in Rest(w, 1)
  BY DEF RowsInvariant, FollowedOK
<1>2. /\ next' \in [Writers -> Nat \ {0}] /\ wpc' \in [Writers -> WorkSteps]
      /\ \A v \in Writers \ {w} : next'[v] = next[v] /\ wpc'[v] = wpc[v]
      /\ next'[w] \in Rest(w, 1)'
      /\ \/ wpc'[w] = "metrics" /\ Ahead(w) \subseteq Ahead(w)' \cup {Here(w)}
         \/ /\ wpc'[w] = "collect" /\ Ahead(w) \subseteq {Here(w)}
            /\ next'[w] = First(Rest(w, 1))' /\ Ahead(w)' = scope[w]
  BY <1>1, OnwardsGoes DEF WorkSteps
<1>3. Here(w) \in scope[w]
  BY <1>1 DEF Here, Rest
<1>4. RowsTypes'
  <2>1. <<>> \in MessageLists
    BY DEF MessageLists, RowsConstants
  <2> QED BY <1>1, <1>2, <1>3, <2>1 DEF RowsTypes
<1>5. dirty'[w] = dirty[w] \cup {Here(w)} /\ cands[w] = {} /\ open[w] = {}
  BY <1>1 DEF RowsTypes, FollowedOK
<1>6. \A c \in Convs : SilentRows(c)' = SilentRows(c)
  BY DEF SilentRows, Silent
<1>7. FollowedOK(w)'
  BY <1>1, <1>2, <1>5, <1>6 DEF FollowedOK, RowsTypes
<1> QED BY <1>1, <1>2, <1>4, <1>7, QuietKeeps DEF RowsTypes

LEMMA BreakOffKeeps ==
  ASSUME RowsConstants, RowsInvariant, NEW w \in Writers, BreakOff(w)
  PROVE  RowsInvariant'
<1> USE DEF BreakOff, rowVars
<1>1. RowsTypes /\ FollowedOK(w)
  BY DEF RowsInvariant
<1>2. Ahead(w) \subseteq Convs
  BY <1>1 DEF Ahead, Rest, RowsTypes
<1>3. dirty' = [dirty EXCEPT ![w] = @ \cup Ahead(w)] /\ dirty'[w] = dirty[w] \cup Ahead(w) /\ wpc'[w] = "score"
  BY <1>1 DEF RowsTypes, Ahead
<1>4. RowsTypes'
  BY <1>1, <1>2, <1>3 DEF RowsTypes, WorkSteps
<1>5. \A c \in Convs : /\ SilentRows(c)' = SilentRows(c) /\ Answered(c)' = Answered(c)
                       /\ Collected(w, c)' = Collected(w, c)
  BY DEF SilentRows, Silent, Answered, Collected, Clean
<1>6. FollowedOK(w)'
  BY <1>1, <1>3, <1>5 DEF FollowedOK, RowsTypes
<1> QED BY <1>1, <1>3, <1>4, <1>6, QuietKeeps DEF RowsTypes

\* A job that is over has no work left.
LEMMA StopIdle ==
  ASSUME RowsConstants, RowsTypes, NEW w \in Writers, Stop(w)
  PROVE  /\ FollowedOK(w)'
         /\ wpc' \in [Writers -> WorkSteps] /\ scope' \in [Writers -> SUBSET Convs]
         /\ next' \in [Writers -> Nat \ {0}] /\ loaded' \in [Writers -> MessageLists]
         /\ cands' \in [Writers -> SUBSET (Convs \X Positions)]
         /\ open' \in [Writers -> SUBSET Convs] /\ dirty' \in [Writers -> SUBSET Convs]
         /\ \A v \in Writers \ {w} :
              /\ wpc'[v] = wpc[v] /\ scope'[v] = scope[v] /\ next'[v] = next[v]
              /\ loaded'[v] = loaded[v] /\ cands'[v] = cands[v] /\ open'[v] = open[v]
              /\ dirty'[v] = dirty[v]
<1> USE DEF Stop
<1>1. <<>> \in MessageLists
  BY DEF MessageLists, RowsConstants
<1>2. wpc'[w] = "off" /\ scope'[w] = {} /\ cands'[w] = {} /\ open'[w] = {}
  BY DEF RowsTypes
<1>3. FollowedOK(w)'
  BY <1>2 DEF FollowedOK
<1> QED BY <1>1, <1>3 DEF RowsTypes, WorkSteps

LEMMA DieKeeps ==
  ASSUME RowsConstants, RowsInvariant, NEW w \in Writers, Die(w)
  PROVE  RowsInvariant'
<1> USE DEF Die, rowVars
<1>1. RowsTypes
  BY DEF RowsInvariant
<1>2. RowsTypes'
  BY <1>1, StopIdle DEF RowsTypes
<1> QED BY <1>1, <1>2, StopIdle, QuietKeeps

LEMMA RetuneKeeps ==
  ASSUME RowsConstants, RowsInvariant, Retune
  PROVE  RowsInvariant'
<1> USE DEF Retune, workVars
<1>1. RowsTypes
  BY DEF RowsInvariant
<1>2. RowsTypes'
  BY <1>1 DEF RowsTypes, RowsConstants
<1>3. ASSUME NEW v \in Writers PROVE FollowedOK(v)'
  <2>1. Untouched(v)
    BY DEF Untouched, Weaker
  <2> QED BY <1>1, <2>1, UntouchedKeeps DEF RowsInvariant
<1>4. ASSUME NEW c \in Convs PROVE Matched(c)'
  <2>1. Steady(c)
    BY DEF Steady, Weaker
  <2> QED BY <2>1, SteadyKeeps DEF RowsInvariant
<1> QED BY <1>2, <1>3, <1>4 DEF RowsInvariant
-------------------------------------------------------------------------------
(* The steps that write *)

LEMMA WroteFacts ==
  ASSUME RowsTypes, NEW w \in Writers, NEW S \in SUBSET Convs, Wrote(w, S)
  PROVE  /\ dirty' \in [Writers -> SUBSET Convs] /\ dirty'[w] = dirty[w]
         /\ \A v \in Writers \ {w} : dirty'[v] = dirty[v] \cup (S \cap scope[v])
         /\ settled' = settled \ S /\ raced \subseteq raced'
BY DEF Wrote, RowsTypes

LEMMA CommittedFacts ==
  ASSUME RowsTypes, NEW w, NEW S
  PROVE  /\ Committed(w, S) \in [Convs -> [Positions -> Statuses \cup {"none"}]]
         /\ \A c \in Convs : c \notin S => Committed(w, S)[c] = rows[c]
         /\ \A c \in Convs, i \in Positions :
              /\ Committed(w, S)[c][i] = rows[c][i] \/ (rows[c][i] # "no_reply" /\ Committed(w, S)[c][i] = "none")
              /\ c \in S => Committed(w, S)[c][i] \in {"none", "no_reply"}
<1>1. \A c \in Convs : rows[c] \in [Positions -> Statuses \cup {"none"}]
  BY DEF RowsTypes
<1> QED BY <1>1 DEF Committed

LEMMA CancelledKeeps ==
  ASSUME RowsConstants, RowsInvariant, NEW w \in Writers, Cancelled(w)
  PROVE  RowsInvariant'
<1> USE DEF Cancelled
<1>1. RowsTypes /\ FollowedOK(w)
  BY DEF RowsInvariant
<1>2. RowsTypes'
  BY <1>1, StopIdle, CommittedFacts DEF RowsTypes
<1>3. \A c \in Convs : Weaker(c)
  BY <1>1, CommittedFacts DEF Weaker
<1>4. \A v \in Writers \ {w} : Untouched(v)
  <2>1. \A v \in Writers : scope[v] \subseteq Convs
    BY <1>1 DEF RowsTypes
  <2> QED BY <1>1, <1>3, <2>1, StopIdle DEF Untouched
<1>5. ASSUME NEW c \in Convs PROVE Matched(c)'
  <2>1. c \in settled' => c \in settled /\ c \notin open[w]
    BY <1>1 DEF FollowedOK
  <2>2. Steady(c)
    BY <1>1, <1>3, <2>1, CommittedFacts DEF Steady
  <2> QED BY <2>2, SteadyKeeps DEF RowsInvariant
<1> QED BY <1>1, <1>2, <1>4, <1>5, StopIdle, StepKeeps

LEMMA StoreKeeps ==
  ASSUME RowsConstants, RowsInvariant, NEW w \in Writers, StoreMessages(w)
  PROVE  RowsInvariant'
<1> USE DEF StoreMessages
<1> DEFINE c == Here(w)
<1>1. RowsTypes /\ FollowedOK(w) /\ next[w] \in Rest(w, 1) /\ cands[w] = {} /\ open[w] = {}
  BY DEF RowsInvariant, FollowedOK
<1>2. c \in Convs /\ {c} \in SUBSET Convs
  BY <1>1 DEF Here, Rest, RowsTypes
<1>3. PICK new \in {<<>>, <<"Q">>, <<"A">>, <<"Q", "A">>} :
        /\ Len(msgs[c] \o new) <= Lengths[c]
        /\ msgs' = [msgs EXCEPT ![c] = @ \o new]
        /\ loaded' = [loaded EXCEPT ![w] = msgs[c] \o new]
  OBVIOUS
<1>4. Wrote(w, {c})
  OBVIOUS
<1> HIDE DEF c
<1>5. msgs[c] \o new \in MessageLists
  <2>1. new \in Seq(Message) /\ msgs[c] \in Seq(Message)
    <3>1. msgs[c] \in Seq(Message)
      BY <1>1, <1>2 DEF RowsTypes, MessageLists
    <3>2. /\ <<>> \in Seq(Message) /\ <<"Q">> \in Seq(Message)
          /\ <<"A">> \in Seq(Message) /\ <<"Q", "A">> \in Seq(Message)
      BY DEF Message
    <3> QED BY <3>1, <3>2
  <2>2. msgs[c] \o new \in Seq(Message) /\ Len(msgs[c] \o new) \in Nat
    BY <2>1
  <2>3. Lengths[c] \in 0..MaxLength /\ MaxLength \in Nat
    BY <1>2 DEF RowsConstants
  <2> QED BY <1>3, <2>2, <2>3 DEF MessageLists
<1>6. RowsTypes'
  BY <1>1, <1>2, <1>3, <1>4, <1>5, WroteFacts DEF RowsTypes, WorkSteps
<1>7. FollowedOK(w)'
  <2>1. wpc'[w] = "tier1" /\ Rest(w, 1)' = Rest(w, 1)
    BY <1>1 DEF RowsTypes, Rest
  <2> QED BY <1>1, <2>1 DEF FollowedOK
<1>8. \A d \in Convs \ {c} : msgs'[d] = msgs[d]
  BY <1>1, <1>3 DEF RowsTypes
<1>9. \A v \in Writers \ {w} : Untouched(v)
  <2> SUFFICES ASSUME NEW v \in Writers \ {w} PROVE Untouched(v)
    OBVIOUS
  <2>1. dirty'[v] = dirty[v] \cup ({c} \cap scope[v])
    BY <1>1, <1>2, <1>4, WroteFacts
  <2>2. wpc'[v] = wpc[v] /\ loaded'[v] = loaded[v] /\ scope[v] \subseteq Convs
    BY <1>1, <1>3 DEF RowsTypes
  <2> QED BY <1>8, <2>1, <2>2 DEF Untouched, Weaker
<1>10. ASSUME NEW d \in Convs PROVE Matched(d)'
  <2>1. Steady(d)
    BY <1>1, <1>2, <1>4, <1>8, WroteFacts DEF Steady, Weaker
  <2> QED BY <2>1, SteadyKeeps DEF RowsInvariant
<1> QED BY <1>6, <1>7, <1>9, <1>10, StepKeeps

\* The metrics of a conversation, in an ingest or an insights job, and the way on.
LEMMA Tier1Keeps ==
  ASSUME RowsConstants, RowsInvariant, NEW w \in Writers, WriteTier1(w, Here(w)),
         \/ wpc[w] = "tier1" /\ Onwards(w, "ingest", "begin")
         \/ wpc[w] = "write" /\ Onwards(w, "metrics", "collect"),
         UNCHANGED <<msgs, verdict, scope, cands, open>>
  PROVE  RowsInvariant'
<1> DEFINE c == Here(w)
           silent == {i \in QuestionsIn(loaded[w]) : ~RepliedIn(loaded[w], i)}
<1>1. RowsTypes /\ FollowedOK(w) /\ next[w] \in Rest(w, 1) /\ cands[w] = {} /\ open[w] = {}
  BY DEF RowsInvariant, FollowedOK
<1>2. c \in Convs /\ {c} \in SUBSET Convs /\ c \in scope[w]
  BY <1>1 DEF Here, Rest, RowsTypes
<1>3. /\ next' \in [Writers -> Nat \ {0}] /\ wpc' \in [Writers -> WorkSteps]
      /\ \A v \in Writers \ {w} : next'[v] = next[v] /\ wpc'[v] = wpc[v]
      /\ next'[w] \in Rest(w, 1)'
  BY <1>1, OnwardsGoes DEF WorkSteps
<1>4. \/ wpc'[w] = "ingest"
      \/ wpc'[w] = "begin" /\ next'[w] = First(Rest(w, 1))'
      \/ wpc[w] = "write" /\ wpc'[w] = "metrics" /\ Ahead(w) \subseteq Ahead(w)' \cup {c}
      \/ /\ wpc[w] = "write" /\ wpc'[w] = "collect" /\ Ahead(w) \subseteq {c}
         /\ next'[w] = First(Rest(w, 1))' /\ Ahead(w)' = scope[w]
  <2>1. CASE wpc[w] = "tier1" /\ Onwards(w, "ingest", "begin")
    BY <1>1, <2>1, OnwardsGoes DEF WorkSteps
  <2>2. CASE wpc[w] = "write" /\ Onwards(w, "metrics", "collect")
    BY <1>1, <2>2, OnwardsGoes DEF WorkSteps
  <2> QED BY <2>1, <2>2
<1>5. /\ rows' = [rows EXCEPT ![c] = Tier1Rows(c, loaded[w])]
      /\ counts' = [counts EXCEPT ![c] = [no_reply |-> Cardinality(silent), weak_answer |-> 0,
                                          not_answered |-> 0, total |-> Cardinality(silent)]]
      /\ loaded' = [loaded EXCEPT ![w] = <<>>]
      /\ Wrote(w, {c})
  BY DEF WriteTier1
<1>6. silent \subseteq Positions
  <2>1. loaded[w] \in Seq(Message) /\ Len(loaded[w]) <= MaxLength /\ MaxLength \in Nat
    BY <1>1 DEF RowsTypes, MessageLists, RowsConstants
  <2> QED BY <2>1 DEF QuestionsIn, Positions
<1>7. Cardinality(silent) \in Nat
  BY <1>6, PositionsFinite
<1> HIDE DEF c
<1>8. Tier1Rows(c, loaded[w]) \in [Positions -> Statuses \cup {"none"}]
  BY <1>1, <1>2 DEF Tier1Rows, RowsTypes, Statuses
<1>9. \A i \in Positions : rows'[c][i] = "no_reply" <=> i \in silent
  BY <1>1, <1>2, <1>5 DEF Tier1Rows, RowsTypes
<1>10. \A d \in Convs \ {c} : rows'[d] = rows[d] /\ counts'[d] = counts[d]
  BY <1>1, <1>5 DEF RowsTypes
<1>11. counts'[c].no_reply = Cardinality(silent)
  BY <1>1, <1>2, <1>5 DEF RowsTypes
<1>12. /\ dirty' \in [Writers -> SUBSET Convs] /\ dirty'[w] = dirty[w]
       /\ \A v \in Writers \ {w} : dirty'[v] = dirty[v] \cup ({c} \cap scope[v])
       /\ settled' = settled \ {c} /\ raced \subseteq raced'
  BY <1>1, <1>2, <1>5, WroteFacts
<1>13. RowsTypes'
  <2>1. <<>> \in MessageLists
    BY DEF MessageLists, RowsConstants
  <2>2. loaded' \in [Writers -> MessageLists]
    BY <1>1, <1>5, <2>1 DEF RowsTypes
  <2>3. rows' \in [Convs -> [Positions -> Statuses \cup {"none"}]]
    BY <1>1, <1>5, <1>8 DEF RowsTypes
  <2> HIDE DEF silent
  <2>4. counts' \in [Convs -> [{"no_reply", "weak_answer", "not_answered", "total"} -> Nat]]
    <3>1. [no_reply |-> Cardinality(silent), weak_answer |-> 0, not_answered |-> 0, total |-> Cardinality(silent)]
            \in [{"no_reply", "weak_answer", "not_answered", "total"} -> Nat]
      BY <1>7
    <3> QED BY <1>1, <1>5, <3>1 DEF RowsTypes
  <2> QED BY <1>1, <1>3, <1>12, <2>2, <2>3, <2>4 DEF RowsTypes
<1>14. \A d \in Convs : Silent(d)' = Silent(d) /\ Answered(d)' = Answered(d)
  BY DEF Silent, Answered
<1>15. wpc[w] = "write" => \A d \in scope[w] \ dirty[w] : (d \notin Ahead(w) \/ d = c) => SilentRows(d)'
  <2> SUFFICES ASSUME wpc[w] = "write", NEW d \in scope[w] \ dirty[w], d \notin Ahead(w) \/ d = c
               PROVE  SilentRows(d)'
    OBVIOUS
  <2>1. d \in Convs
    BY <1>1 DEF RowsTypes
  <2>2. CASE d # c
    <3>1. SilentRows(d)
      BY <1>1, <2>2 DEF FollowedOK
    <3> QED BY <1>10, <1>14, <2>1, <2>2, <3>1 DEF SilentRows
  <2>3. CASE d = c
    <3>1. loaded[w] = msgs[c]
      BY <1>1, <2>3 DEF FollowedOK, c
    <3>2. \A i \in Positions : i \in silent <=> i \in Silent(c)
      BY <3>1 DEF Silent
    <3> QED BY <1>9, <1>14, <2>1, <2>3, <3>2 DEF SilentRows
  <2> QED BY <2>2, <2>3
<1>16. FollowedOK(w)'
  <2>1. Rest(w, 1)' = Rest(w, 1)
    BY DEF Rest
  <2>2. scope'[w] = scope[w] /\ cands'[w] = {} /\ open'[w] = {}
    BY <1>1
  <2>3. wpc'[w] = "metrics" => wpc[w] = "write" /\ \A d \in scope[w] \ dirty[w] : d \notin Ahead(w)' => SilentRows(d)'
    BY <1>4, <1>15
  <2>4. wpc'[w] = "collect" => /\ wpc[w] = "write" /\ Ahead(w)' = scope[w]
                               /\ \A d \in scope[w] \ dirty[w] : SilentRows(d)'
    BY <1>4, <1>15
  <2>5. wpc'[w] \in {"ingest", "begin", "metrics", "collect"} /\ (wpc'[w] = "begin" => next'[w] = First(Rest(w, 1))')
    BY <1>4
  <2> QED BY <1>3, <1>12, <2>1, <2>2, <2>3, <2>4, <2>5 DEF FollowedOK
<1>17. \A v \in Writers \ {w} : Untouched(v)
  <2> SUFFICES ASSUME NEW v \in Writers \ {w} PROVE Untouched(v)
    OBVIOUS
  <2>1. dirty'[v] = dirty[v] \cup ({c} \cap scope[v])
    BY <1>12
  <2>2. loaded'[v] = loaded[v] /\ scope[v] \subseteq Convs
    BY <1>1, <1>5 DEF RowsTypes
  <2> QED BY <1>3, <1>10, <2>1, <2>2 DEF Untouched, Weaker
<1>18. ASSUME NEW d \in Convs PROVE Matched(d)'
  <2>1. CASE d = c
    <3>1. {i \in Positions : rows'[d][i] = "no_reply"} = silent
      BY <1>6, <1>9, <2>1
    <3>2. Counted(d)'
      BY <1>11, <2>1, <3>1 DEF Counted, Number
    <3> QED BY <1>12, <2>1, <3>2 DEF Matched
  <2>2. CASE d # c
    <3>1. Steady(d)
      BY <1>10, <1>12, <2>2 DEF Steady, Weaker
    <3> QED BY <3>1, SteadyKeeps DEF RowsInvariant
  <2> QED BY <2>1, <2>2
<1> QED BY <1>13, <1>16, <1>17, <1>18, StepKeeps

LEMMA CollectKeeps ==
  ASSUME RowsConstants, RowsInvariant, NEW w \in Writers, Collect(w)
  PROVE  RowsInvariant'
<1> DEFINE c == Here(w)
           pending == open[w] \cup {c}
           answered == {<<c, i>> : i \in {q \in QuestionsIn(msgs[c]) : RepliedIn(msgs[c], q)}}
<1>1. RowsTypes /\ FollowedOK(w) /\ next[w] \in Rest(w, 1) /\ wpc[w] = "collect"
  BY DEF RowsInvariant, FollowedOK, Collect
<1>2. c \in Convs /\ c \in scope[w] /\ pending \in SUBSET Convs /\ pending \subseteq scope[w]
  BY <1>1 DEF Here, Rest, RowsTypes, FollowedOK
<1>3. UNCHANGED <<msgs, counts, verdict, scope, loaded>> /\ Onwards(w, "collect", "score")
      /\ cands' = [cands EXCEPT ![w] = @ \cup answered]
  BY DEF Collect
<1>4. \/ open' = [open EXCEPT ![w] = {}] /\ rows' = Committed(w, pending) /\ Wrote(w, pending)
      \/ open' = [open EXCEPT ![w] = pending] /\ rows' = rows /\ UNCHANGED <<dirty, raced, settled>>
  BY DEF Collect, Deleted
<1>5. /\ next' \in [Writers -> Nat \ {0}] /\ wpc' \in [Writers -> WorkSteps]
      /\ \A v \in Writers \ {w} : next'[v] = next[v] /\ wpc'[v] = wpc[v]
      /\ next'[w] \in Rest(w, 1)'
      /\ \/ wpc'[w] = "collect" /\ Ahead(w) \subseteq Ahead(w)' \cup {c}
         \/ /\ wpc'[w] = "score" /\ Ahead(w) \subseteq {c}
  BY <1>1, <1>3, OnwardsGoes DEF WorkSteps
<1>6. QuestionsIn(msgs[c]) \subseteq Positions
  <2>1. msgs[c] \in Seq(Message) /\ Len(msgs[c]) <= MaxLength /\ MaxLength \in Nat
    BY <1>1, <1>2 DEF RowsTypes, MessageLists, RowsConstants
  <2> QED BY <2>1 DEF QuestionsIn, Positions
<1>7. answered = {<<c, i>> : i \in Answered(c)} /\ answered \subseteq Convs \X Positions
  BY <1>2, <1>6 DEF Answered
<1> HIDE DEF c, pending, answered
<1>8. /\ dirty' \in [Writers -> SUBSET Convs] /\ dirty'[w] = dirty[w]
      /\ \A v \in Writers \ {w} : dirty[v] \subseteq dirty'[v]
      /\ settled' \subseteq settled /\ raced \subseteq raced'
      /\ \A d \in settled' : rows' = rows \/ d \notin pending
  BY <1>1, <1>2, <1>4, WroteFacts DEF RowsTypes
<1>9. /\ rows' \in [Convs -> [Positions -> Statuses \cup {"none"}]]
      /\ \A d \in Convs : Weaker(d) /\ (rows' = rows \/ d \in pending \/ rows'[d] = rows[d])
  <2>1. CASE rows' = rows
    BY <1>1, <2>1 DEF RowsTypes, Weaker
  <2>2. CASE rows' = Committed(w, pending)
    BY <1>1, <2>2, CommittedFacts DEF Weaker
  <2> QED BY <1>4, <2>1, <2>2
<1>10. RowsTypes'
  <2>1. open' \in [Writers -> SUBSET Convs]
    BY <1>1, <1>2, <1>4 DEF RowsTypes
  <2>2. cands' \in [Writers -> SUBSET (Convs \X Positions)]
    BY <1>1, <1>3, <1>7 DEF RowsTypes
  <2> QED BY <1>1, <1>3, <1>5, <1>8, <1>9, <2>1, <2>2 DEF RowsTypes
<1>11. \A d \in Convs : Silent(d)' = Silent(d) /\ Answered(d)' = Answered(d)
  BY <1>3 DEF Silent, Answered
<1>12. cands'[w] = cands[w] \cup answered /\ scope'[w] = scope[w]
  BY <1>1, <1>3 DEF RowsTypes
<1>13. \A d \in pending : d \in open'[w] \/ Clean(d)'
  <2>1. CASE open' = [open EXCEPT ![w] = {}] /\ rows' = Committed(w, pending)
    BY <1>1, <1>2, <2>1, CommittedFacts DEF Clean
  <2>2. CASE open' = [open EXCEPT ![w] = pending]
    BY <1>1, <2>2 DEF RowsTypes
  <2> QED BY <1>4, <2>1, <2>2
<1>14. ASSUME NEW d \in scope[w] \ dirty[w]
       PROVE  /\ SilentRows(d)' /\ \A i \in Positions : <<d, i>> \in cands'[w] => i \in Answered(d)'
              /\ d = c \/ d \notin Ahead(w) => Collected(w, d)'
  <2>1. d \in Convs
    BY <1>1 DEF RowsTypes
  <2>2. SilentRows(d)'
    BY <1>1, <1>9, <1>11, <2>1 DEF FollowedOK, SilentRows, Weaker
  <2>3. ASSUME NEW i \in Positions, <<d, i>> \in cands'[w] PROVE i \in Answered(d)'
    <3>1. CASE <<d, i>> \in cands[w]
      BY <1>1, <1>11, <2>1, <3>1 DEF FollowedOK
    <3>2. CASE <<d, i>> \in answered
      BY <1>7, <1>11, <2>1, <3>2
    <3> QED BY <1>12, <2>3, <3>1, <3>2
  <2>4. CASE d = c
    <3>1. \A i \in Answered(d)' : <<d, i>> \in cands'[w]
      BY <1>7, <1>11, <1>12, <2>1, <2>4
    <3>2. d \in open'[w] \/ Clean(d)'
      BY <1>13, <2>4 DEF pending
    <3> QED BY <2>2, <2>3, <3>1, <3>2 DEF Collected
  <2>5. CASE d # c
    <3>1. SUFFICES ASSUME d \notin Ahead(w) PROVE Collected(w, d)'
      BY <2>2, <2>3, <2>5
    <3>2. Collected(w, d)
      BY <1>1, <3>1 DEF FollowedOK
    <3>3. \A i \in Answered(d)' : <<d, i>> \in cands'[w]
      BY <1>11, <1>12, <2>1, <3>2 DEF Collected
    <3>4. Clean(d) => Clean(d)'
      BY <1>9, <2>1 DEF Clean, Weaker
    <3>5. d \in open[w] => d \in pending
      BY DEF pending
    <3> QED BY <1>13, <3>2, <3>3, <3>4, <3>5 DEF Collected
  <2> QED BY <2>2, <2>3, <2>4, <2>5
<1>15. FollowedOK(w)'
  <2>1. Rest(w, 1)' = Rest(w, 1)
    BY <1>12 DEF Rest
  <2>2. wpc'[w] \in {"collect", "score"}
    BY <1>5
  <2>3. wpc'[w] = "collect" => \A d \in scope[w] \ dirty[w] : d \notin Ahead(w)' => Collected(w, d)'
    BY <1>5, <1>14
  <2>4. wpc'[w] = "score" => \A d \in scope[w] \ dirty[w] : Collected(w, d)'
    BY <1>5, <1>14
  <2>5. open'[w] \subseteq scope'[w]
    BY <1>1, <1>2, <1>4, <1>12 DEF RowsTypes
  <2>6. \A x \in cands'[w] : x[1] \in scope'[w]
    BY <1>1, <1>2, <1>7, <1>12 DEF FollowedOK
  <2> QED BY <1>5, <1>8, <1>12, <1>14, <2>1, <2>2, <2>3, <2>4, <2>5, <2>6 DEF FollowedOK
<1>16. \A v \in Writers \ {w} : Untouched(v)
  <2> SUFFICES ASSUME NEW v \in Writers \ {w} PROVE Untouched(v)
    OBVIOUS
  <2>1. cands'[v] = cands[v] /\ open'[v] = open[v] /\ scope[v] \subseteq Convs
    BY <1>1, <1>3, <1>4 DEF RowsTypes
  <2> QED BY <1>3, <1>5, <1>8, <1>9, <2>1 DEF Untouched
<1>17. ASSUME NEW d \in Convs PROVE Matched(d)'
  <2>1. Steady(d)
    BY <1>3, <1>8, <1>9 DEF Steady
  <2> QED BY <2>1, SteadyKeeps DEF RowsInvariant
<1> QED BY <1>10, <1>15, <1>16, <1>17, StepKeeps
-------------------------------------------------------------------------------
(* The end of an insights job *)

\* Pairs of one conversation are as many as their positions.
LEMMA PairsCount ==
  ASSUME RowsConstants, NEW C, NEW c \in C, NEW F \in SUBSET (C \X Positions), \A x \in F : x[1] = c
  PROVE  Cardinality(F) = Cardinality({i \in Positions : <<c, i>> \in F}) /\ Cardinality(F) \in Nat
<1> DEFINE T == {i \in Positions : <<c, i>> \in F}
           f == [i \in T |-> <<c, i>>]
<1>1. IsFiniteSet(T) /\ Cardinality(T) \in Nat
  BY PositionsFinite
<1>2. f \in Bijection(T, F)
  <2>1. f \in [T -> F]
    OBVIOUS
  <2>2. \A a, b \in T : f[a] = f[b] => a = b
    OBVIOUS
  <2>3. \A x \in F : \E a \in T : f[a] = x
    OBVIOUS
  <2> QED BY <2>1, <2>2, <2>3 DEF Bijection, Injection, Surjection, IsInjective
<1> HIDE DEF T, f
<1>3. IsFiniteSet(F) /\ Cardinality(F) = Cardinality(T)
  BY <1>1, <1>2, FS_Bijection DEF ExistsBijection
<1> QED BY <1>1, <1>3 DEF T

\* The rows of a conversation are those of the three kinds.
LEMMA ThreeKinds ==
  ASSUME RowsConstants, NEW f \in [Positions -> Statuses \cup {"none"}]
  PROVE  Cardinality({i \in Positions : f[i] # "none"}) =
           Cardinality({i \in Positions : f[i] = "no_reply"}) +
           Cardinality({i \in Positions : f[i] = "weak_answer"}) +
           Cardinality({i \in Positions : f[i] = "not_answered"})
<1> DEFINE Of(s) == {i \in Positions : f[i] = s}
<1>1. \A s : IsFiniteSet(Of(s))
  BY PositionsFinite
<1>2. {i \in Positions : f[i] # "none"} = (Of("no_reply") \cup Of("weak_answer")) \cup Of("not_answered")
  BY DEF Statuses
<1>3. Of("no_reply") \cap Of("weak_answer") = {}
      /\ (Of("no_reply") \cup Of("weak_answer")) \cap Of("not_answered") = {}
  OBVIOUS
<1> HIDE DEF Of
<1>4. IsFiniteSet(Of("no_reply") \cup Of("weak_answer"))
      /\ Cardinality(Of("no_reply") \cup Of("weak_answer")) = Cardinality(Of("no_reply")) + Cardinality(Of("weak_answer"))
  BY <1>1, <1>3, ApartUnion
<1>5. Cardinality((Of("no_reply") \cup Of("weak_answer")) \cup Of("not_answered")) =
        Cardinality(Of("no_reply") \cup Of("weak_answer")) + Cardinality(Of("not_answered"))
  BY <1>1, <1>3, <1>4, ApartUnion
<1> QED BY <1>2, <1>4, <1>5 DEF Of

LEMMA FinishKeeps ==
  ASSUME RowsConstants, RowsInvariant, NEW w \in Writers, Finish(w)
  PROVE  RowsInvariant'
<1> DEFINE left == Committed(w, open[w])
           found == {x \in cands[w] : verdict[x[2]] # "answered"}
           Of(c, s) == {x \in found : x[1] = c /\ verdict[x[2]] = s}
           Silenced(c) == {i \in Positions : left[c][i] = "no_reply"}
           Written(c) == [no_reply |-> Cardinality(Silenced(c)),
                          weak_answer |-> Cardinality(Of(c, "weak_answer")),
                          not_answered |-> Cardinality(Of(c, "not_answered")),
                          total |-> Cardinality(Silenced(c)) + Cardinality(Of(c, "weak_answer"))
                                      + Cardinality(Of(c, "not_answered"))]
<1>1. RowsTypes /\ FollowedOK(w)
  BY DEF RowsInvariant
<1>2. wpc[w] = "score"
  BY DEF Finish
<1>3. /\ rows' = [c \in Convs |-> [i \in Positions |-> IF <<c, i>> \in found THEN verdict[i] ELSE left[c][i]]]
      /\ counts' = [c \in Convs |-> IF c \notin scope[w] THEN counts[c] ELSE Written(c)]
  BY DEF Finish
<1>4. /\ settled' = (settled \ scope[w]) \cup (scope[w] \ dirty[w])
      /\ raced' = (raced \ scope[w]) \cup (scope[w] \cap dirty[w])
      /\ wpc' = [wpc EXCEPT ![w] = "off"] /\ next' = [next EXCEPT ![w] = 1]
      /\ scope' = [scope EXCEPT ![w] = {}] /\ cands' = [cands EXCEPT ![w] = {}]
      /\ open' = [open EXCEPT ![w] = {}]
      /\ dirty' = [v \in Writers |-> IF v = w THEN {} ELSE dirty[v] \cup (scope[w] \cap scope[v])]
      /\ UNCHANGED <<msgs, verdict, loaded>>
  BY DEF Finish
<1>5. /\ left \in [Convs -> [Positions -> Statuses \cup {"none"}]]
      /\ \A c \in Convs : c \notin open[w] => left[c] = rows[c]
      /\ \A c \in Convs, i \in Positions :
           /\ left[c][i] = rows[c][i] \/ (rows[c][i] # "no_reply" /\ left[c][i] = "none")
           /\ c \in open[w] => left[c][i] \in {"none", "no_reply"}
  BY <1>1, CommittedFacts
<1>6. found \subseteq Convs \X Positions /\ \A x \in found : x[1] \in scope[w] /\ x \in cands[w] /\ verdict[x[2]] # "answered"
  BY <1>1 DEF RowsTypes, FollowedOK
<1>7. \A c, i : <<c, i>> \in found <=> <<c, i>> \in cands[w] /\ verdict[i] # "answered"
  OBVIOUS
<1>8. \A c \in Convs, s \in Statuses :
        /\ Cardinality(Of(c, s)) \in Nat
        /\ Cardinality(Of(c, s)) = Cardinality({i \in Positions : <<c, i>> \in found /\ verdict[i] = s})
  <2> SUFFICES ASSUME NEW c \in Convs, NEW s \in Statuses
               PROVE  /\ Cardinality(Of(c, s)) \in Nat
                      /\ Cardinality(Of(c, s)) = Cardinality({i \in Positions : <<c, i>> \in found /\ verdict[i] = s})
    OBVIOUS
  <2> HIDE DEF found
  <2>1. Of(c, s) \in SUBSET (Convs \X Positions) /\ \A x \in Of(c, s) : x[1] = c
    BY <1>6
  <2>2. {i \in Positions : <<c, i>> \in Of(c, s)} = {i \in Positions : <<c, i>> \in found /\ verdict[i] = s}
    OBVIOUS
  <2> HIDE DEF Of
  <2> QED BY <2>1, <2>2, PairsCount
<1>9. \A c \in Convs : Cardinality(Silenced(c)) \in Nat
  BY PositionsFinite
<1> HIDE DEF left, found, Of, Silenced
<1>10. \A c \in Convs : Written(c) \in [{"no_reply", "weak_answer", "not_answered", "total"} -> Nat]
  <2> SUFFICES ASSUME NEW c \in Convs
               PROVE  Written(c) \in [{"no_reply", "weak_answer", "not_answered", "total"} -> Nat]
    OBVIOUS
  <2>1. Cardinality(Silenced(c)) \in Nat /\ Cardinality(Of(c, "weak_answer")) \in Nat /\ Cardinality(Of(c, "not_answered")) \in Nat
    BY <1>8, <1>9 DEF Statuses
  <2> QED BY <2>1
<1>11. RowsTypes'
  <2>1. \A c \in Convs, i \in Positions : <<c, i>> \in found => verdict[i] \in Statuses
    BY <1>1, <1>7 DEF RowsTypes, Statuses
  <2>2. rows' \in [Convs -> [Positions -> Statuses \cup {"none"}]]
    BY <1>3, <1>5, <2>1
  <2> HIDE DEF Written
  <2>3. counts' \in [Convs -> [{"no_reply", "weak_answer", "not_answered", "total"} -> Nat]]
    BY <1>1, <1>3, <1>10 DEF RowsTypes
  <2> QED BY <1>1, <1>4, <2>2, <2>3 DEF RowsTypes, WorkSteps
<1>12. FollowedOK(w)'
  <2>1. wpc'[w] = "off" /\ scope'[w] = {} /\ cands'[w] = {} /\ open'[w] = {}
    BY <1>1, <1>4 DEF RowsTypes
  <2> QED BY <2>1 DEF FollowedOK
<1>13. ASSUME NEW c \in Convs, c \notin scope[w]
       PROVE  rows'[c] = rows[c] /\ counts'[c] = counts[c]
  <2>1. \A i : <<c, i>> \notin found
    BY <1>6, <1>13
  <2>2. left[c] = rows[c]
    BY <1>1, <1>5, <1>13 DEF FollowedOK
  <2>3. rows[c] \in [Positions -> Statuses \cup {"none"}]
    BY <1>1 DEF RowsTypes
  <2> QED BY <1>3, <1>13, <2>1, <2>2, <2>3
<1>14. \A v \in Writers \ {w} : Untouched(v)
  <2> SUFFICES ASSUME NEW v \in Writers \ {w} PROVE Untouched(v)
    OBVIOUS
  <2>1. dirty'[v] = dirty[v] \cup (scope[w] \cap scope[v]) /\ scope[v] \subseteq Convs
    BY <1>1, <1>4 DEF RowsTypes
  <2>2. \A c \in scope[v] \ dirty'[v] : Weaker(c)
    BY <1>13, <2>1 DEF Weaker
  <2>3. /\ wpc'[v] = wpc[v] /\ scope'[v] = scope[v] /\ next'[v] = next[v]
        /\ loaded'[v] = loaded[v] /\ cands'[v] = cands[v] /\ open'[v] = open[v]
    BY <1>1, <1>4 DEF RowsTypes
  <2> QED BY <1>4, <2>1, <2>2, <2>3 DEF Untouched
<1>15. ASSUME NEW c \in scope[w] \ dirty[w]
       PROVE  Counted(c)' /\ Right(c)'
  <2>1. c \in Convs
    BY <1>1 DEF RowsTypes
  <2>2. /\ SilentRows(c) /\ Collected(w, c)
        /\ \A i \in Positions : <<c, i>> \in cands[w] => i \in Answered(c)
    BY <1>1, <1>2 DEF FollowedOK
  <2>3. \A i \in Positions : <<c, i>> \in found <=> i \in Answered(c) /\ verdict[i] # "answered"
    BY <1>7, <2>2 DEF Collected
  <2>4. \A i \in Positions : left[c][i] = "no_reply" <=> i \in Silent(c)
    BY <1>5, <2>1, <2>2 DEF SilentRows
  <2>5. \A i \in Positions : left[c][i] \in {"none", "no_reply"}
    BY <1>5, <2>1, <2>2 DEF Collected, Clean
  <2>6. \A i \in Positions : rows'[c][i] = IF i \in Answered(c) /\ verdict[i] # "answered" THEN verdict[i]
                                           ELSE IF i \in Silent(c) THEN "no_reply" ELSE "none"
    BY <1>3, <2>1, <2>3, <2>4, <2>5
  <2>7. rows'[c] \in [Positions -> Statuses \cup {"none"}]
    BY <1>11, <2>1 DEF RowsTypes
  <2>8. rows'[c] = Expected(c)'
    <3>1. \A i \in Positions : rows'[c][i] = Expected(c)'[i]
      BY <1>4, <2>6 DEF Expected, Silent, Answered
    <3>2. DOMAIN Expected(c)' = Positions /\ DOMAIN rows'[c] = Positions
      BY <2>7 DEF Expected
    <3> QED BY <3>1, <3>2, <2>7 DEF Expected
  <2>9. verdict \in [Positions -> {"answered", "weak_answer", "not_answered"}]
    BY <1>1 DEF RowsTypes
  <2>10. {i \in Positions : rows'[c][i] = "no_reply"} = Silenced(c)
    BY <2>4, <2>6, <2>9 DEF Silenced, Silent, Answered
  <2>11. \A s \in {"weak_answer", "not_answered"} :
           {i \in Positions : rows'[c][i] = s} = {i \in Positions : <<c, i>> \in found /\ verdict[i] = s}
    BY <2>3, <2>6
  <2>12. counts'[c] = Written(c)
    BY <1>3, <2>1
  <2>13. /\ counts'[c].no_reply = Cardinality({i \in Positions : rows'[c][i] = "no_reply"})
         /\ counts'[c].weak_answer = Cardinality({i \in Positions : rows'[c][i] = "weak_answer"})
         /\ counts'[c].not_answered = Cardinality({i \in Positions : rows'[c][i] = "not_answered"})
    <3>1. counts'[c].no_reply = Cardinality(Silenced(c))
          /\ counts'[c].weak_answer = Cardinality(Of(c, "weak_answer"))
          /\ counts'[c].not_answered = Cardinality(Of(c, "not_answered"))
      BY <2>12
    <3>2. \A s \in {"weak_answer", "not_answered"} :
            Cardinality(Of(c, s)) = Cardinality({i \in Positions : rows'[c][i] = s})
      <4> SUFFICES ASSUME NEW s \in {"weak_answer", "not_answered"}
                   PROVE  Cardinality(Of(c, s)) = Cardinality({i \in Positions : rows'[c][i] = s})
        OBVIOUS
      <4>1. {i \in Positions : rows'[c][i] = s} = {i \in Positions : <<c, i>> \in found /\ verdict[i] = s}
        BY <2>11
      <4>2. s \in Statuses
        BY DEF Statuses
      <4> QED BY <1>8, <2>1, <4>1, <4>2
    <3> QED BY <2>10, <3>1, <3>2
  <2>14. counts'[c].total = Cardinality({i \in Positions : rows'[c][i] # "none"})
    <3>1. counts'[c].total = counts'[c].no_reply + counts'[c].weak_answer + counts'[c].not_answered
      BY <2>12
    <3> QED BY <2>7, <2>13, <3>1, ThreeKinds
  <2>15. Counted(c)'
    BY <2>13 DEF Counted, Number
  <2>16. \A s \in Statuses : counts'[c][s] = Number(c, s)'
    BY <2>13 DEF Number, Statuses
  <2> QED BY <2>8, <2>14, <2>15, <2>16 DEF Right
<1>16. ASSUME NEW c \in Convs PROVE Matched(c)'
  <2>1. CASE c \in scope[w]
    <3>1. CASE c \in dirty[w]
      BY <1>4, <2>1, <3>1 DEF Matched
    <3>2. CASE c \notin dirty[w]
      BY <1>15, <2>1, <3>2 DEF Matched
    <3> QED BY <3>1, <3>2
  <2>2. CASE c \notin scope[w]
    <3>1. Steady(c)
      BY <1>4, <1>13, <2>2 DEF Steady, Weaker
    <3> QED BY <3>1, SteadyKeeps DEF RowsInvariant
  <2> QED BY <2>1, <2>2
<1> QED BY <1>11, <1>12, <1>14, <1>16, StepKeeps
-------------------------------------------------------------------------------
LEMMA RowsStep ==
  ASSUME RowsConstants, RowsInvariant, [RowsNext]_unansweredVars
  PROVE  RowsInvariant'
<1>1. CASE UNCHANGED unansweredVars
  BY <1>1, FlagKeeps DEF unansweredVars
<1>2. ASSUME NEW w \in Writers, IngestTier1(w) PROVE RowsInvariant'
  BY <1>2, Tier1Keeps DEF IngestTier1
<1>3. ASSUME NEW w \in Writers, WriteMetrics(w) PROVE RowsInvariant'
  BY <1>3, Tier1Keeps DEF WriteMetrics
<1>4. ASSUME NEW w \in Writers, RequestCancel(w) \/ WipeFlag(w) PROVE RowsInvariant'
  BY <1>4, FlagKeeps DEF RequestCancel, WipeFlag
<1>5. ASSUME NEW w \in Writers,
             \/ Start(w) \/ StoreMessages(w) \/ BeginInsights(w) \/ Cancelled(w)
             \/ LoadMetrics(w) \/ MetricsRaise(w) \/ BreakOff(w) \/ Collect(w) \/ Finish(w) \/ Die(w)
      PROVE  RowsInvariant'
  BY <1>5, StartKeeps, StoreKeeps, BeginKeeps, CancelledKeeps, LoadKeeps, RaiseKeeps,
     BreakOffKeeps, CollectKeeps, FinishKeeps, DieKeeps
<1>6. CASE Retune
  BY <1>6, RetuneKeeps
<1> QED BY <1>1, <1>2, <1>3, <1>4, <1>5, <1>6 DEF RowsNext

\* For any conversations, batches, processes, verdicts, cancellations and faults:
\* the number of questions without a reply is that of their rows unless processes
\* raced, and after an insights job that ended undisturbed the rows are what the
\* messages call for and all counts are theirs (MetricsService and
\* UnansweredQuestionService, which write rows and counts at different times).
THEOREM CountsAlwaysMatch ==
  ASSUME RowsConstants
  PROVE  RowsSpec => []CountsMatchRows
<1>1. RowsInit => RowsInvariant
  BY RowsInitially
<1>2. RowsInvariant /\ [RowsNext]_unansweredVars => RowsInvariant'
  BY RowsStep
<1>3. RowsInvariant => CountsMatchRows
  BY DEF RowsInvariant, CountsMatchRows, Matched, Counted, Right
<1> QED BY <1>1, <1>2, <1>3, PTL DEF RowsSpec

-------------------------------------------------------------------------------
(* The charts: the days *)

\* Conversations are counted once in the days, in the hours and in the time buckets.
ChartsInv ==
  /\ pattern \in Patterns
  /\ volume \in [ChartChannels -> Seq(Nat)] /\ \A ch \in ChartChannels : Len(volume[ch]) = Days
  /\ hours \in [ChartChannels -> [Hours -> Nat]] /\ buckets \in [ChartChannels -> [ChartBuckets -> Nat]]
  /\ \A ch \in ChartChannels : SumOf(hours[ch]) = SumOf(volume[ch]) /\ SumOf(buckets[ch]) = SumOf(volume[ch])
  /\ Days > 0 => \E ch \in ChartChannels : SumOf(volume[ch]) > 0
  /\ dashboard \in Dashboards

LEMMA SumOfIs ==
  ASSUME NEW f
  PROVE  SumOf(f) = SumOver(f, DOMAIN f)
BY FoldIsSum DEF SumOf

LEMMA UpTo ==
  ASSUME NEW n \in Nat
  PROVE  IsFiniteSet(1..n) /\ Cardinality(1..n) = n /\ IsFiniteSet(0..n)
<1>1. n \in Int /\ 0 \in Int /\ 1 \in Int
  OBVIOUS
<1>2. IsFiniteSet(1..n) /\ Cardinality(1..n) = IF 1 > n THEN 0 ELSE n - 1 + 1
  BY <1>1, FS_Interval
<1>3. IsFiniteSet(0..n)
  BY <1>1, FS_Interval
<1> QED BY <1>2, <1>3

LEMMA Names ==
  /\ ChartChannels = {"whatsapp", "chat", "instagram"} /\ DOMAIN ChannelOrder = 1..3
  /\ ChartBuckets = {"kantooruren", "na_kantooruren", "nacht", "weekend"} /\ DOMAIN TimeBucketOrder = 1..4
  /\ IsFiniteSet(ChartChannels) /\ IsFiniteSet(ChartBuckets)
  /\ \A i, j \in 1..3 : ChannelOrder[i] = ChannelOrder[j] => i = j
  /\ \A i, j \in 1..4 : TimeBucketOrder[i] = TimeBucketOrder[j] => i = j
<1>1. DOMAIN ChannelOrder = 1..3 /\ DOMAIN TimeBucketOrder = 1..4
  BY DEF ChannelOrder, TimeBucketOrder
<1>2. /\ \A i, j \in 1..3 : ChannelOrder[i] = ChannelOrder[j] => i = j
      /\ \A i, j \in 1..4 : TimeBucketOrder[i] = TimeBucketOrder[j] => i = j
  BY DEF ChannelOrder, TimeBucketOrder
<1>3. ChartChannels = {"whatsapp", "chat", "instagram"}
  BY <1>1 DEF ChartChannels, Range, ChannelOrder
<1>4. ChartBuckets = {"kantooruren", "na_kantooruren", "nacht", "weekend"}
  BY <1>1 DEF ChartBuckets, Range, TimeBucketOrder
<1>5. IsFiniteSet(1..3) /\ IsFiniteSet(1..4)
  <2>1. 3 \in Nat /\ 4 \in Nat
    OBVIOUS
  <2> QED BY <2>1, UpTo
<1>6. IsFiniteSet(ChartChannels) /\ IsFiniteSet(ChartBuckets)
  BY <1>1, <1>5, RangeFinite DEF ChartChannels, ChartBuckets
<1> QED BY <1>1, <1>2, <1>3, <1>4, <1>6

LEMMA SumOfAppend ==
  ASSUME NEW s \in Seq(Nat), NEW x \in Nat
  PROVE  SumOf(Append(s, x)) = SumOf(s) + x /\ SumOf(s) \in Nat
<1> DEFINE n == Len(s)
           t == Append(s, x)
<1>1. n \in Nat /\ DOMAIN s = 1..n /\ \A i \in 1..n : s[i] \in Nat
  OBVIOUS
<1>2. DOMAIN t = 1..(n + 1) /\ t[n + 1] = x /\ \A i \in 1..n : t[i] = s[i]
  BY <1>1
<1> HIDE DEF n, t
<1>3. IsFiniteSet(1..(n + 1)) /\ IsFiniteSet(1..n) /\ (1..(n + 1)) \ {n + 1} = 1..n
  <2>1. n + 1 \in Nat /\ n \in Nat /\ (1..(n + 1)) \ {n + 1} = 1..n
    BY <1>1
  <2> QED BY <2>1, UpTo
<1>4. \A i \in 1..(n + 1) : t[i] \in Int
  <2> TAKE i \in 1..(n + 1)
  <2>1. i \in 1..n \/ i = n + 1
    BY <1>1
  <2> QED BY <1>1, <1>2, <2>1
<1>5. SumOver(t, 1..(n + 1)) = t[n + 1] + SumOver(t, (1..(n + 1)) \ {n + 1})
  <2>1. n + 1 \in 1..(n + 1)
    BY <1>1
  <2> QED BY <1>3, <1>4, <2>1, SumTakeOut
<1>6. SumOver(t, 1..n) = SumOver(s, 1..n)
  <2>1. \A i \in 1..n : t[i] \in Int /\ t[i] = s[i]
    BY <1>1, <1>2
  <2> QED BY <1>3, <2>1, SumEqual
<1>7. SumOver(s, 1..n) \in Nat
  BY <1>1, <1>3, SumNat
<1>8. SumOf(t) = SumOver(t, 1..(n + 1)) /\ SumOf(s) = SumOver(s, 1..n)
  BY <1>1, <1>2, SumOfIs
<1>9. SumOf(t) = SumOf(s) + x /\ SumOf(s) \in Nat
  <2>1. SumOver(t, 1..(n + 1)) = x + SumOver(s, 1..n)
    BY <1>2, <1>3, <1>5, <1>6
  <2> QED BY <1>7, <1>8, <2>1
<1> QED BY <1>9 DEF t

LEMMA HoursFinite == ASSUME ChartsConstants PROVE IsFiniteSet(Hours)
<1>1. IsFiniteSet(0..23)
  <2>1. 23 \in Nat
    OBVIOUS
  <2> QED BY <2>1, UpTo
<1> QED BY <1>1, FS_Subset DEF ChartsConstants

LEMMA ChartsBegin == ASSUME ChartsConstants, ChartsInit PROVE ChartsInv
<1>1. /\ pattern \in Patterns /\ volume = [ch \in ChartChannels |-> <<>>]
      /\ hours = [ch \in ChartChannels |-> [h \in Hours |-> 0]]
      /\ buckets = [ch \in ChartChannels |-> [b \in ChartBuckets |-> 0]]
  BY DEF ChartsInit
<1>2. "chat" \in ChartChannels
  BY Names
<1>3. Days = 0 /\ volume \in [ChartChannels -> Seq(Nat)] /\ \A ch \in ChartChannels : volume[ch] = <<>> /\ Len(volume[ch]) = 0
  BY <1>1, <1>2 DEF Days
<1>4. hours \in [ChartChannels -> [Hours -> Nat]] /\ buckets \in [ChartChannels -> [ChartBuckets -> Nat]]
  BY <1>1
<1>5. ASSUME NEW ch \in ChartChannels
      PROVE  SumOf(hours[ch]) = SumOf(volume[ch]) /\ SumOf(buckets[ch]) = SumOf(volume[ch])
  <2> DEFINE f == hours[ch]
             g == buckets[ch]
             e == volume[ch]
  <2>1. /\ DOMAIN f = Hours /\ DOMAIN g = ChartBuckets /\ DOMAIN e = {}
        /\ \A h \in Hours : f[h] = 0 /\ \A b \in ChartBuckets : g[b] = 0
    <3>1. f = [h \in Hours |-> 0] /\ g = [b \in ChartBuckets |-> 0] /\ e = <<>>
      BY <1>1
    <3> HIDE DEF f, g, e
    <3> QED BY <3>1
  <2>2. /\ \A h \in Hours : f[h] = 0
        /\ \A b \in ChartBuckets : g[b] = 0
    <3>1. f = [h \in Hours |-> 0] /\ g = [b \in ChartBuckets |-> 0]
      BY <1>1
    <3> HIDE DEF f, g
    <3> QED BY <3>1
  <2> HIDE DEF f, g, e
  <2>3. SumOver(f, Hours) = 0 /\ SumOver(g, ChartBuckets) = 0 /\ SumOver(e, {}) = 0
    <3>1. IsFiniteSet(Hours) /\ IsFiniteSet(ChartBuckets) /\ IsFiniteSet({})
      BY HoursFinite, Names, FS_EmptySet
    <3>2. \A x \in {} : e[x] = 0
      OBVIOUS
    <3> QED BY <2>2, <3>1, <3>2, SumOfZeros
  <2>4. SumOf(f) = SumOf(e) /\ SumOf(g) = SumOf(e)
    BY <2>1, <2>3, SumOfIs
  <2> QED BY <2>4 DEF f, g, e
<1>6. dashboard \in Dashboards
  BY DEF ChartsInit
<1> QED BY <1>1, <1>3, <1>4, <1>5, <1>6 DEF ChartsInv

\* What one day adds.
LEMMA DayAdds ==
  ASSUME ChartsConstants, ChartsInv, AddDay
  PROVE  \E day \in [ChartChannels -> [Hours -> Nat]], place \in Nat :
           /\ Days = 0 => \E ch \in ChartChannels : SumOf(day[ch]) > 0
           /\ \A h \in Hours : BucketAt[place][h] \in ChartBuckets
           /\ volume' = [ch \in ChartChannels |-> Append(volume[ch], SumOf(day[ch]))]
           /\ hours' = [ch \in ChartChannels |-> [h \in Hours |-> hours[ch][h] + day[ch][h]]]
           /\ buckets' = [ch \in ChartChannels |-> [b \in ChartBuckets |->
                buckets[ch][b] + SumOf([h \in {h \in Hours : BucketAt[place][h] = b} |-> day[ch][h]])]]
           /\ pattern' = pattern
<1> DEFINE place == (Days % Len(pattern)) + 1
<1>1. pattern \in Seq([ChartChannels -> [Hours -> Nat]]) /\ pattern # <<>> /\ pattern \in Patterns
  BY DEF ChartsInv, ChartsConstants
<1>2. Len(pattern) \in Nat \ {0} /\ DOMAIN pattern = 1..Len(pattern)
  BY <1>1
<1>3. Days \in Nat
  <2>1. "chat" \in ChartChannels
    BY Names
  <2> QED BY <2>1 DEF ChartsInv, Days
<1>4. Days % Len(pattern) \in 0..(Len(pattern) - 1) /\ (Days = 0 => Days % Len(pattern) = 0)
  <2> DEFINE n == Len(pattern)
             d == Days
  <2>1. n \in Nat \ {0} /\ d \in Int
    BY <1>2, <1>3
  <2> HIDE DEF n, d
  <2>2. d % n \in 0..(n - 1) /\ d = n * (d \div n) + (d % n) /\ d \div n \in Int
    BY <2>1, Division
  <2>3. 0 % n = 0
    BY <2>1
  <2> QED BY <2>2, <2>3 DEF n, d
<1>5. place \in 1..Len(pattern) /\ (Days = 0 => place = 1)
  BY <1>2, <1>4
<1>6. pattern[place] \in [ChartChannels -> [Hours -> Nat]] /\ place \in Nat
  BY <1>1, <1>2, <1>5
<1>7. Days = 0 => \E ch \in ChartChannels : SumOf(pattern[place][ch]) > 0
  BY <1>1, <1>5 DEF ChartsConstants
<1>8. \A h \in Hours : BucketAt[place][h] \in ChartBuckets
  BY <1>1, <1>2, <1>5 DEF ChartsConstants
<1>9. /\ volume' = [ch \in ChartChannels |-> Append(volume[ch], SumOf(pattern[place][ch]))]
      /\ hours' = [ch \in ChartChannels |-> [h \in Hours |-> hours[ch][h] + pattern[place][ch][h]]]
      /\ buckets' = [ch \in ChartChannels |-> [b \in ChartBuckets |->
           buckets[ch][b] + SumOf([h \in {h \in Hours : BucketAt[place][h] = b} |-> pattern[place][ch][h]])]]
      /\ pattern' = pattern
  BY DEF AddDay
<1> HIDE DEF place
<1> QED BY <1>6, <1>7, <1>8, <1>9

LEMMA DayKeeps == ASSUME ChartsConstants, ChartsInv, AddDay PROVE ChartsInv'
<1>1. PICK day \in [ChartChannels -> [Hours -> Nat]], place \in Nat :
           /\ Days = 0 => \E ch \in ChartChannels : SumOf(day[ch]) > 0
           /\ \A h \in Hours : BucketAt[place][h] \in ChartBuckets
           /\ volume' = [ch \in ChartChannels |-> Append(volume[ch], SumOf(day[ch]))]
           /\ hours' = [ch \in ChartChannels |-> [h \in Hours |-> hours[ch][h] + day[ch][h]]]
           /\ buckets' = [ch \in ChartChannels |-> [b \in ChartBuckets |->
                buckets[ch][b] + SumOf([h \in {h \in Hours : BucketAt[place][h] = b} |-> day[ch][h]])]]
           /\ pattern' = pattern
  BY DayAdds
<1> DEFINE At(b) == {h \in Hours : BucketAt[place][h] = b}
           came == [ch \in ChartChannels |-> SumOf(day[ch])]
           part == [ch \in ChartChannels |-> [b \in ChartBuckets |-> SumOf([h \in At(b) |-> day[ch][h]])]]
<1>2. IsFiniteSet(Hours) /\ IsFiniteSet(ChartBuckets) /\ "chat" \in ChartChannels
  BY HoursFinite, Names
<1>3. /\ volume \in [ChartChannels -> Seq(Nat)] /\ \A ch \in ChartChannels : Len(volume[ch]) = Days
      /\ hours \in [ChartChannels -> [Hours -> Nat]] /\ buckets \in [ChartChannels -> [ChartBuckets -> Nat]]
      /\ \A ch \in ChartChannels : SumOf(hours[ch]) = SumOf(volume[ch]) /\ SumOf(buckets[ch]) = SumOf(volume[ch])
      /\ Days > 0 => \E ch \in ChartChannels : SumOf(volume[ch]) > 0
      /\ Days \in Nat
  <2>1. Len(volume["chat"]) \in Nat
    BY <1>2 DEF ChartsInv
  <2> QED BY <2>1 DEF ChartsInv, Days
<1>4. ASSUME NEW ch \in ChartChannels
      PROVE  /\ came[ch] \in Nat
             /\ SumOf(hours[ch]) \in Nat /\ SumOf(hours'[ch]) = SumOf(hours[ch]) + came[ch]
  <2> DEFINE f == hours[ch]
             g == day[ch]
             h1 == hours'[ch]
  <2>1. /\ f \in [Hours -> Nat] /\ g \in [Hours -> Nat] /\ DOMAIN h1 = Hours
        /\ \A h \in Hours : h1[h] = f[h] + g[h]
    BY <1>1, <1>3
  <2> HIDE DEF f, g, h1
  <2>2. SumOver(h1, Hours) = SumOver(f, Hours) + SumOver(g, Hours)
    <3>1. \A x \in Hours : f[x] \in Int /\ g[x] \in Int /\ h1[x] = f[x] + g[x]
      BY <2>1
    <3> QED BY <1>2, <3>1, SumPlus
  <2>3. SumOver(f, Hours) \in Nat /\ SumOver(g, Hours) \in Nat
    <3>1. /\ \A x \in Hours : f[x] \in Nat
          /\ \A x \in Hours : g[x] \in Nat
      BY <2>1
    <3> QED BY <1>2, <3>1, SumNat
  <2>4. SumOf(f) = SumOver(f, Hours) /\ SumOf(g) = SumOver(g, Hours) /\ SumOf(h1) = SumOver(h1, Hours)
    BY <2>1, SumOfIs
  <2>5. came[ch] = SumOf(g)
    BY DEF g
  <2> HIDE DEF came
  <2> QED BY <2>2, <2>3, <2>4, <2>5 DEF f, h1
<1>5. ASSUME NEW ch \in ChartChannels
      PROVE  /\ part[ch] \in [ChartBuckets -> Nat]
             /\ SumOf(buckets'[ch]) = SumOf(buckets[ch]) + came[ch]
  <2> DEFINE f == buckets[ch]
             g == part[ch]
             h1 == buckets'[ch]
             d == day[ch]
             At1(b) == [h \in At(b) |-> d[h]]
  <2>1. ASSUME NEW b \in ChartBuckets PROVE g[b] \in Nat /\ g[b] = SumOver(d, At(b))
    <3> DEFINE e == At1(b)
    <3>1. g[b] = SumOf(e) /\ DOMAIN e = At(b) /\ \A x \in At(b) : e[x] \in Nat /\ e[x] = d[x]
      OBVIOUS
    <3>2. IsFiniteSet(At(b))
      BY <1>2, FS_Subset
    <3> HIDE DEF e, At, d, g
    <3>3. SumOf(e) = SumOver(e, At(b))
      BY <3>1, SumOfIs
    <3>4. SumOver(e, At(b)) = SumOver(d, At(b))
      <4>1. \A x \in At(b) : e[x] \in Int /\ e[x] = d[x]
        BY <3>1
      <4> QED BY <3>2, <4>1, SumEqual
    <3>5. SumOver(e, At(b)) \in Nat
      BY <3>1, <3>2, SumNat
    <3> QED BY <3>1, <3>3, <3>4, <3>5
  <2>2. /\ f \in [ChartBuckets -> Nat] /\ DOMAIN h1 = ChartBuckets /\ DOMAIN g = ChartBuckets
        /\ \A b \in ChartBuckets : h1[b] = f[b] + g[b]
    BY <1>1, <1>3
  <2>3. DOMAIN d = Hours /\ \A h \in Hours : d[h] \in Int
    OBVIOUS
  <2>4. came[ch] = SumOf(d)
    OBVIOUS
  <2>5. \A b \in ChartBuckets : At(b) = {h \in Hours : BucketAt[place][h] = b}
    OBVIOUS
  <2>6. part[ch] \in [ChartBuckets -> Nat]
    <3>1. part[ch] = [b \in ChartBuckets |-> g[b]]
      OBVIOUS
    <3> HIDE DEF g, At, part
    <3> QED BY <2>1, <3>1
  <2> HIDE DEF f, g, h1, d, At, came, part
  <2>7. SumOver(h1, ChartBuckets) = SumOver(f, ChartBuckets) + SumOver(g, ChartBuckets)
    <3>1. \A b \in ChartBuckets : f[b] \in Int /\ g[b] \in Int /\ h1[b] = f[b] + g[b]
      BY <2>1, <2>2
    <3> QED BY <1>2, <3>1, SumPlus
  <2>8. SumOver(g, ChartBuckets) = SumOver(d, Hours)
    <3> DEFINE class == BucketAt[place]
             cell == [b \in ChartBuckets |-> At(b)]
    <3>1. /\ \A b \in ChartBuckets : cell[b] = {h \in Hours : class[h] = b}
          /\ \A b \in ChartBuckets : g[b] = SumOver(d, cell[b])
      BY <2>1, <2>5
    <3>2. \A h \in Hours : class[h] \in ChartBuckets
      BY <1>1
    <3>3. \A h \in Hours : d[h] \in Int
      BY <2>3
    <3> HIDE DEF class, cell
    <3> QED BY ONLY <1>2, <3>1, <3>2, <3>3, SumByClass
  <2>9. /\ SumOf(h1) = SumOver(h1, ChartBuckets) /\ SumOf(f) = SumOver(f, ChartBuckets)
        /\ SumOf(d) = SumOver(d, Hours)
    BY <2>2, <2>3, SumOfIs
  <2>10. SumOf(h1) = SumOf(f) + came[ch]
    BY <2>4, <2>7, <2>8, <2>9
  <2> QED BY <2>6, <2>10 DEF h1, f
<1>6. ASSUME NEW ch \in ChartChannels
      PROVE  /\ volume'[ch] \in Seq(Nat) /\ Len(volume'[ch]) = Days + 1
             /\ SumOf(volume'[ch]) = SumOf(volume[ch]) + came[ch]
  <2> DEFINE s == volume[ch]
             x == came[ch]
  <2>1. s \in Seq(Nat) /\ Len(s) = Days /\ x \in Nat /\ volume'[ch] = Append(s, x)
    BY <1>1, <1>3, <1>4
  <2> HIDE DEF s, x
  <2>2. Append(s, x) \in Seq(Nat) /\ Len(Append(s, x)) = Days + 1
    BY <2>1
  <2>3. SumOf(Append(s, x)) = SumOf(s) + x
    BY <2>1, SumOfAppend
  <2> QED BY <2>1, <2>2, <2>3 DEF s, x
<1>7. /\ hours' \in [ChartChannels -> [Hours -> Nat]]
      /\ buckets' \in [ChartChannels -> [ChartBuckets -> Nat]]
      /\ volume' \in [ChartChannels -> Seq(Nat)]
  <2>1. hours' \in [ChartChannels -> [Hours -> Nat]]
    <3>1. \A ch \in ChartChannels : \A h \in Hours : hours[ch][h] + day[ch][h] \in Nat
      BY <1>3
    <3> QED BY <1>1, <3>1
  <2>2. buckets' \in [ChartChannels -> [ChartBuckets -> Nat]]
    <3>1. buckets' = [ch \in ChartChannels |-> [b \in ChartBuckets |-> buckets[ch][b] + part[ch][b]]]
      BY <1>1
    <3> HIDE DEF part
    <3>2. \A ch \in ChartChannels : \A b \in ChartBuckets : buckets[ch][b] + part[ch][b] \in Nat
      BY <1>3, <1>5
    <3> QED BY <3>1, <3>2
  <2>3. DOMAIN volume' = ChartChannels /\ volume' = [ch \in ChartChannels |-> volume'[ch]]
    BY <1>1
  <2> QED BY <1>6, <2>1, <2>2, <2>3
<1>8. Days' = Days + 1
  BY <1>2, <1>6 DEF Days
<1>9. \E ch \in ChartChannels : SumOf(volume'[ch]) > 0
  <2> HIDE DEF came
  <2>1. \A ch \in ChartChannels : came[ch] \in Nat /\ SumOf(volume[ch]) \in Nat
    BY <1>3, <1>4
  <2>2. CASE Days > 0
    <3>1. PICK ch \in ChartChannels : SumOf(volume[ch]) > 0
      BY <1>3, <2>2
    <3>2. SumOf(volume'[ch]) = SumOf(volume[ch]) + came[ch] /\ came[ch] \in Nat /\ SumOf(volume[ch]) \in Nat
      BY <1>6, <2>1
    <3>3. SumOf(volume'[ch]) > 0
      BY <3>1, <3>2
    <3> QED BY <3>3
  <2>3. CASE Days = 0
    <3>1. PICK ch \in ChartChannels : came[ch] > 0
      BY <1>1, <2>3 DEF came
    <3> QED BY <1>6, <2>1, <3>1
  <2> QED BY <1>3, <2>2, <2>3
<1>10. \A ch \in ChartChannels : SumOf(hours'[ch]) = SumOf(volume'[ch]) /\ SumOf(buckets'[ch]) = SumOf(volume'[ch])
  <2> HIDE DEF came
  <2> QED BY <1>3, <1>4, <1>5, <1>6
<1>11. pattern' \in Patterns /\ dashboard' \in Dashboards
  BY <1>1 DEF ChartsInv, AddDay
<1> HIDE DEF came, part, At
<1> QED BY <1>6, <1>7, <1>8, <1>9, <1>10, <1>11 DEF ChartsInv

-------------------------------------------------------------------------------
(* The labels of the days *)

\* What is larger has a larger quotient.
LEMMA QuotientMonotone ==
  ASSUME NEW a \in Int, NEW b \in Int, NEW m \in Nat \ {0}, a <= b
  PROVE  a \div m \in Int /\ b \div m \in Int /\ a \div m <= b \div m
<1> DEFINE p == a \div m
           q == b \div m
           r == a % m
           s == b % m
<1>1. /\ p \in Int /\ q \in Int /\ r \in 0..(m - 1) /\ s \in 0..(m - 1)
      /\ a = m * p + r /\ b = m * q + s
  BY Division
<1> HIDE DEF p, q, r, s
<1>2. p <= q
  <2> SUFFICES ASSUME p >= q + 1 PROVE FALSE
    BY <1>1
  <2>1. m * p >= m * (q + 1)
    BY <1>1
  <2>2. m * (q + 1) = m * q + m /\ m * p \in Int /\ m * q \in Int
    BY <1>1
  <2> QED BY <1>1, <2>1, <2>2
<1> QED BY <1>1, <1>2 DEF p, q

LEMMA QuotientExact ==
  ASSUME NEW q \in Int, NEW m \in Nat \ {0}
  PROVE  (m * q) \div m = q
<1> DEFINE a == m * q
           p == a \div m
           r == a % m
<1>1. a \in Int
  OBVIOUS
<1>2. p \in Int /\ r \in 0..(m - 1) /\ a = m * p + r
  <2> HIDE DEF a
  <2> QED BY <1>1, Division
<1> HIDE DEF p, r
<1>3. m * q = m * p + r /\ m * p \in Int /\ m * q \in Int
  BY <1>2
<1>4. p <= q
  <2>1. m * p <= m * q
    BY <1>2, <1>3
  <2> QED BY <1>2, <2>1, LeaveFactorOut
<1>5. q <= p
  <2> SUFFICES ASSUME q >= p + 1 PROVE FALSE
    BY <1>2
  <2>1. m * q >= m * (p + 1) /\ m * (p + 1) = m * p + m
    BY <1>2
  <2> QED BY <1>2, <1>3, <2>1
<1>6. p = q
  BY <1>2, <1>4, <1>5
<1> QED BY <1>6 DEF p

\* The days are in order along the axis.
LEMMA AlongAxis ==
  ASSUME NEW n \in Nat \ {0}, NEW left \in Nat, NEW right \in Nat, left <= right
  PROVE  /\ \A i \in 0..(n - 1) : /\ PlotX(i, n, left, right) \in Int
                                  /\ 1000 * left <= PlotX(i, n, left, right)
                                  /\ PlotX(i, n, left, right) <= 1000 * right
         /\ \A i, j \in 0..(n - 1) : i <= j => PlotX(i, n, left, right) <= PlotX(j, n, left, right)
         /\ n > 1 => PlotX(0, n, left, right) = 1000 * left /\ PlotX(n - 1, n, left, right) = 1000 * right
<1> DEFINE X(i) == PlotX(i, n, left, right)
           A == 1000 * (right - left)
           m == n - 1
           Q(i) == (1000 * i * (right - left)) \div m
<1>1. A \in Nat
  OBVIOUS
<1>2. CASE n = 1
  <2>1. \A i : X(i) = 500 * (left + right)
    BY <1>2 DEF PlotX
  <2>2. 1000 * left <= 500 * (left + right) /\ 500 * (left + right) <= 1000 * right /\ 500 * (left + right) \in Int
    OBVIOUS
  <2> HIDE DEF X
  <2>3. /\ \A i \in 0..(n - 1) : X(i) \in Int /\ 1000 * left <= X(i) /\ X(i) <= 1000 * right
        /\ \A i, j \in 0..(n - 1) : i <= j => X(i) <= X(j)
    BY <2>1, <2>2
  <2>4. ~(n > 1)
    BY <1>2
  <2> QED BY <2>3, <2>4 DEF X
<1>3. CASE n > 1
  <2>1. m \in Nat \ {0}
    BY <1>3
  <2>2. \A i : X(i) = 1000 * left + Q(i)
    BY <1>3 DEF PlotX
  <2>3. \A i \in 0..m : 1000 * i * (right - left) = i * A /\ i * A \in Nat
    BY <1>1
  <2>4. \A i, j \in 0..m : i <= j => Q(i) \in Int /\ Q(j) \in Int /\ Q(i) <= Q(j)
    <3> SUFFICES ASSUME NEW i \in 0..m, NEW j \in 0..m, i <= j
                 PROVE  Q(i) \in Int /\ Q(j) \in Int /\ Q(i) <= Q(j)
      OBVIOUS
    <3> DEFINE a == 1000 * i * (right - left)
               b == 1000 * j * (right - left)
    <3>1. a = i * A /\ b = j * A /\ a \in Int /\ b \in Int
      BY <2>3
    <3>2. i * A <= j * A
      BY <1>1
    <3>3. a <= b
      BY <3>1, <3>2
    <3> HIDE DEF a, b, A, m
    <3>4. a \div m \in Int /\ b \div m \in Int /\ a \div m <= b \div m
      BY <2>1, <3>1, <3>3, QuotientMonotone
    <3> QED BY <3>4 DEF a, b
  <2>5. Q(0) = 0 /\ Q(m) = A
    <3>1. 1000 * 0 * (right - left) = m * 0 /\ 1000 * m * (right - left) = m * A
      BY <2>1
    <3> HIDE DEF A, m
    <3>2. (m * 0) \div m = 0 /\ (m * A) \div m = A
      <4>1. 0 \in Int /\ A \in Int
        BY <1>1
      <4> QED BY <2>1, <4>1, QuotientExact
    <3> QED BY <3>1, <3>2
  <2> HIDE DEF X, Q
  <2>6. \A i \in 0..m : X(i) \in Int /\ 1000 * left <= X(i) /\ X(i) <= 1000 * right
    <3> SUFFICES ASSUME NEW i \in 0..m PROVE X(i) \in Int /\ 1000 * left <= X(i) /\ X(i) <= 1000 * right
      OBVIOUS
    <3>1. 0 \in 0..m /\ m \in 0..m /\ 0 <= i /\ i <= m
      BY <2>1
    <3>2. Q(i) \in Int /\ Q(0) <= Q(i) /\ Q(i) <= Q(m)
      BY <2>4, <3>1
    <3> QED BY <2>2, <2>5, <3>2
  <2>7. \A i, j \in 0..m : i <= j => X(i) <= X(j)
    <3> SUFFICES ASSUME NEW i \in 0..m, NEW j \in 0..m, i <= j PROVE X(i) <= X(j)
      OBVIOUS
    <3>1. Q(i) \in Int /\ Q(j) \in Int /\ Q(i) <= Q(j)
      BY <2>4
    <3> QED BY <2>2, <3>1
  <2>8. X(0) = 1000 * left /\ X(m) = 1000 * right
    BY <2>2, <2>5
  <2> QED BY <2>6, <2>7, <2>8 DEF X
<1> QED BY <1>2, <1>3

LEMMA DaysCounted == ASSUME ChartsInv PROVE Days \in Nat
<1>1. "chat" \in ChartChannels
  BY Names
<1> QED BY <1>1 DEF ChartsInv, Days

\* Of every so many days, and the last one, there are at most thirteen.
LEMMA FewPlaces ==
  ASSUME NEW n \in Nat \ {0}, NEW stride, stride = Max({1, (n - 1) \div 6})
  PROVE  LET P == {i \in 0..(n - 1) : i % stride = 0 \/ i = n - 1}
         IN  /\ IsFiniteSet(P) /\ P \subseteq Nat /\ Cardinality(P) \in Nat /\ Cardinality(P) <= 13
             /\ 0 \in P /\ n - 1 \in P /\ \A i \in P : i <= n - 1
<1> DEFINE P == {i \in 0..(n - 1) : i % stride = 0 \/ i = n - 1}
           q == (n - 1) \div 6
           r == (n - 1) % 6
           f == [i \in 0..12 |-> IF i = 12 THEN n - 1 ELSE stride * i]
<1>1. q \in Int /\ r \in 0..5 /\ n - 1 = 6 * q + r /\ n - 1 >= 0
  <2>1. n - 1 \in Int /\ 6 \in Nat \ {0}
    OBVIOUS
  <2> DEFINE m == n - 1
  <2> HIDE DEF m
  <2>2. m \div 6 \in Int /\ m % 6 \in 0..(6 - 1) /\ m = 6 * (m \div 6) + (m % 6)
    BY <2>1, Division DEF m
  <2> QED BY <2>2 DEF m
<1>2. stride = IF 1 >= q THEN 1 ELSE q
  <2>1. 1 \in Int
    OBVIOUS
  <2> HIDE DEF q
  <2> QED BY <1>1, <2>1, OfTwo DEF q
<1> HIDE DEF q, r
<1>3. stride \in Nat \ {0} /\ n - 1 < 12 * stride
  BY <1>1, <1>2
<1>4. P \subseteq Range(f)
  <2> SUFFICES ASSUME NEW i \in P PROVE \E k \in 0..12 : f[k] = i
    BY DEF Range
  <2>1. CASE i = n - 1
    <3>1. f[12] = n - 1
      OBVIOUS
    <3> QED BY <2>1, <3>1
  <2>2. CASE i # n - 1
    <3> DEFINE k == i \div stride
    <3>1. i \in Nat /\ i <= n - 1 /\ i % stride = 0
      BY <2>2
    <3>2. k \in Int /\ i = stride * k + (i % stride)
      <4>1. i \in Int /\ stride \in Nat \ {0}
        BY <1>3, <3>1
      <4> QED BY ONLY <4>1, Division DEF k
    <3> HIDE DEF k
    <3>3. i = stride * k /\ stride * k \in Int
      BY <1>3, <3>1, <3>2
    <3>4. k <= 11
      <4> SUFFICES ASSUME k >= 12 PROVE FALSE
        BY <3>2
      <4>1. stride * 12 <= stride * k
        <5>1. stride \in Nat /\ k \in Int /\ 12 <= k
          BY <1>3, <3>2
        <5> HIDE DEF f, P
        <5> QED BY ONLY <5>1
      <4> QED BY <1>3, <3>1, <3>3, <4>1
    <3>5. k >= 0
      <4> SUFFICES ASSUME k <= -1 PROVE FALSE
        BY <3>2
      <4>1. stride * k <= stride * (-1)
        BY <1>3, <3>2
      <4> QED BY <1>3, <3>1, <3>3, <4>1
    <3>6. k \in 0..12 /\ k # 12
      BY <3>2, <3>4, <3>5
    <3>7. f[k] = i
      BY <3>3, <3>6
    <3> QED BY <3>6, <3>7
  <2> QED BY <2>1, <2>2
<1>5. IsFiniteSet(0..12) /\ Cardinality(0..12) = 13
  <2>1. 0 \in Int /\ 12 \in Int
    OBVIOUS
  <2>2. IsFiniteSet(0..12) /\ Cardinality(0..12) = IF 0 > 12 THEN 0 ELSE 12 - 0 + 1
    BY <2>1, FS_Interval
  <2> QED BY <2>2
<1>6. DOMAIN f = 0..12
  OBVIOUS
<1> HIDE DEF f
<1>7. IsFiniteSet(Range(f)) /\ Cardinality(Range(f)) <= 13
  BY <1>5, <1>6, RangeFinite
<1>8. IsFiniteSet(P) /\ Cardinality(P) <= Cardinality(Range(f))
  <2> HIDE DEF P
  <2> QED BY <1>4, <1>7, FS_Subset
<1>9. Cardinality(P) \in Nat /\ Cardinality(Range(f)) \in Nat
  BY <1>7, <1>8, FS_CardinalityType
<1>10. 0 \in P
  <2>1. 0 % stride = 0 /\ 0 \in 0..(n - 1)
    BY <1>1, <1>3
  <2> QED BY <2>1
<1>11. n - 1 \in P /\ P \subseteq Nat /\ \A i \in P : i <= n - 1
  BY <1>1
<1> HIDE DEF P
<1>12. Cardinality(P) <= 13
  BY <1>7, <1>8, <1>9
<1> QED BY <1>8, <1>9, <1>10, <1>11, <1>12 DEF P

\* What the filter keeps of the first places.
Kept(ks, p, n, left, right) ==
  /\ ks \in Seq(0..(n - 1)) /\ Len(ks) >= 1 /\ Len(ks) <= p /\ ks[1] = 0
  /\ \A k \in 1..(Len(ks) - 1) : PlotX(ks[k + 1], n, left, right) - PlotX(ks[k], n, left, right) >= 56000

LEMMA KeptOneMore ==
  ASSUME NEW n \in Nat \ {0}, NEW left, NEW right, NEW p \in Nat, NEW ks, Kept(ks, p, n, left, right),
         NEW i \in 0..(n - 1), PlotX(i, n, left, right) - PlotX(Last(ks), n, left, right) >= 56000
  PROVE  Kept(Append(ks, i), p + 1, n, left, right) /\ Last(Append(ks, i)) = i
<1> DEFINE new == Append(ks, i)
           m == Len(ks)
           X(j) == PlotX(j, n, left, right)
<1>1. ks \in Seq(0..(n - 1)) /\ m \in Nat /\ m >= 1 /\ m <= p /\ ks[1] = 0
      /\ \A k \in 1..(m - 1) : X(ks[k + 1]) - X(ks[k]) >= 56000
  BY DEF Kept
<1>2. new \in Seq(0..(n - 1)) /\ Len(new) = m + 1 /\ new[m + 1] = i /\ \A k \in 1..m : new[k] = ks[k]
  BY <1>1
<1>3. X(i) - X(ks[m]) >= 56000
  BY DEF Last
<1> HIDE DEF new, m, X
<1>4. \A k \in 1..(Len(new) - 1) : X(new[k + 1]) - X(new[k]) >= 56000
  <2> SUFFICES ASSUME NEW k \in 1..m PROVE X(new[k + 1]) - X(new[k]) >= 56000
    BY <1>1, <1>2
  <2>1. CASE k = m
    BY <1>1, <1>2, <1>3, <2>1
  <2>2. CASE k # m
    <3>1. k \in 1..(m - 1) /\ k + 1 \in 1..m
      BY <1>1, <2>2
    <3>2. new[k] = ks[k] /\ new[k + 1] = ks[k + 1]
      BY <1>2, <3>1
    <3> QED BY <1>1, <3>1, <3>2
  <2> QED BY <2>1, <2>2
<1>5. Len(new) >= 1 /\ Len(new) <= p + 1 /\ new[1] = 0 /\ new[Len(new)] = i
  <2>1. 1 \in 1..m
    BY <1>1
  <2> QED BY <1>1, <1>2, <2>1
<1>6. Kept(new, p + 1, n, left, right) /\ Last(new) = i
  BY <1>2, <1>4, <1>5 DEF Kept, X, Last
<1> QED BY <1>6 DEF new

LEMMA LabelsHold ==
  ASSUME AllDays \in Nat \ {0}, NEW left \in Nat, NEW right \in Nat, left + 56 <= right
  PROVE  LabelsReadable(SelectLabels(AllDays, left, right), left, right)
<1> DEFINE n == AllDays
           X(i) == PlotX(i, n, left, right)
           Apart(i, j) == X(j) - X(i) >= 56000
           stride == Max({1, (n - 1) \div 6})
           P == {i \in 0..(n - 1) : i % stride = 0 \/ i = n - 1}
           places == InOrder(P)
           filtered[p \in DOMAIN places] ==
             IF p = 1 THEN <<0>>
             ELSE IF Apart(Last(filtered[p - 1]), places[p]) THEN Append(filtered[p - 1], places[p])
             ELSE filtered[p - 1]
           kept == filtered[Len(places)]
           k == Len(kept)
           N == Cardinality(P)
<1>1. n \in Nat \ {0}
  OBVIOUS
<1>2. SelectLabels(n, left, right) =
        IF kept[k] = n - 1 THEN kept
        ELSE IF Apart(kept[k], n - 1) THEN Append(kept, n - 1)
        ELSE IF k >= 2 /\ Apart(kept[k - 1], n - 1) THEN [kept EXCEPT ![k] = n - 1]
        ELSE kept
  BY DEF SelectLabels
<1>3. /\ IsFiniteSet(P) /\ P \subseteq Nat /\ N \in Nat /\ N <= 13
      /\ 0 \in P /\ n - 1 \in P /\ \A i \in P : i <= n - 1
  <2>1. stride = Max({1, (n - 1) \div 6})
    OBVIOUS
  <2> HIDE DEF n, stride
  <2> QED BY <1>1, <2>1, FewPlaces
<1>4. /\ Len(places) = N /\ DOMAIN places = 1..N /\ places \in Bijection(1..N, P)
      /\ \A i, j \in 1..N : i < j => places[i] < places[j]
  <2>1. P \subseteq Int
    BY <1>3
  <2> HIDE DEF P
  <2> QED BY <1>3, <2>1, InOrderLists
<1> HIDE DEF P, N, places
<1>5. /\ \A i \in 1..N : places[i] \in P
      /\ \A x \in P : \E i \in 1..N : places[i] = x
  BY <1>4, BijectionFacts
<1>6. N >= 1 /\ places[1] = 0 /\ places[N] = n - 1
  <2>1. PICK i \in 1..N : places[i] = 0
    BY <1>3, <1>5
  <2>2. PICK j \in 1..N : places[j] = n - 1
    BY <1>3, <1>5
  <2>3. N \in Nat /\ N >= 1
    BY <1>3, <2>1
  <2>4. \A l \in 1..N : places[l] \in Nat /\ places[l] <= n - 1
    BY <1>3, <1>5
  <2>5. i = 1
    <3> SUFFICES ASSUME 1 < i PROVE FALSE
      BY <2>1
    <3>1. places[1] < places[i] /\ places[1] \in Nat
      BY <1>4, <2>3, <2>4
    <3> QED BY <2>1, <3>1
  <2>6. j = N
    <3> SUFFICES ASSUME j < N PROVE FALSE
      BY <2>2, <2>3
    <3>1. places[j] < places[N] /\ places[N] \in Nat /\ places[N] <= n - 1
      BY <1>4, <2>3, <2>4
    <3> QED BY <1>1, <2>2, <3>1
  <2> QED BY <2>1, <2>2, <2>3, <2>5, <2>6
<1> HIDE DEF n, X
<1>7. \A i \in 1..N : places[i] \in 0..(n - 1)
  <2> SUFFICES ASSUME NEW i \in 1..N PROVE places[i] \in 0..(n - 1)
    OBVIOUS
  <2>1. places[i] \in Nat /\ places[i] <= n - 1
    BY <1>3, <1>5
  <2> QED BY <1>1, <2>1
<1>8. \A p \in 1..N : filtered[p] =
         IF p = 1 THEN <<0>>
         ELSE IF Apart(Last(filtered[p - 1]), places[p]) THEN Append(filtered[p - 1], places[p])
         ELSE filtered[p - 1]
  <2> DEFINE All == Seq(Int)
             step1 == [p \in Int |-> [ks \in All |->
                        IF Apart(Last(ks), places[p]) /\ places[p] \in Int THEN Append(ks, places[p]) ELSE ks]]
             Body(f) == [p \in DOMAIN places |->
                          IF p = 1 THEN <<0>>
                          ELSE IF Apart(Last(f[p - 1]), places[p]) THEN Append(f[p - 1], places[p])
                          ELSE f[p - 1]]
  <2>1. <<0>> \in All /\ step1 \in [Int -> [All -> All]]
    OBVIOUS
  <2>2. \A x \in All, p \in 1..N : step1[p][x] = IF Apart(Last(x), places[p]) THEN Append(x, places[p]) ELSE x
    <3>1. \A p \in 1..N : p \in Int /\ places[p] \in Int
      BY <1>7
    <3> HIDE DEF Apart
    <3> QED BY <3>1
  <2> DEFINE opening == <<0>>
  <2> HIDE DEF step1, All, Apart
  <2>3. PICK f : Recursion(N, All, opening, step1, f)
    <3>1. opening \in All /\ N \in Nat
      BY <1>3, <2>1
    <3> HIDE DEF opening
    <3> QED BY ONLY <2>1, <3>1, RecursionSolved
  <2>4. f \in [1..N -> All] /\ \A p \in 1..N : f[p] = IF p = 1 THEN <<0>> ELSE step1[p][f[p - 1]]
    BY <2>3 DEF Recursion, opening
  <2>5. \A p \in 1..N : p # 1 => f[p - 1] \in All
    <3> SUFFICES ASSUME NEW p \in 1..N, p # 1 PROVE f[p - 1] \in All
      OBVIOUS
    <3>1. p - 1 \in 1..N
      BY <1>3
    <3> QED BY <2>4, <3>1
  <2>6. f = Body(f)
    <3>1. \A p \in 1..N : f[p] = IF p = 1 THEN <<0>>
                                 ELSE IF Apart(Last(f[p - 1]), places[p]) THEN Append(f[p - 1], places[p])
                                 ELSE f[p - 1]
      BY <2>2, <2>5, <2>4
    <3> QED BY <1>4, <2>4, <3>1
  <2>7. filtered = CHOOSE g : g = Body(g)
    OBVIOUS
  <2> HIDE DEF filtered, Body
  <2>8. filtered = Body(filtered)
    BY <2>6, <2>7
  <2> QED BY <1>4, <2>8 DEF Body
<1> HIDE DEF filtered
<1> DEFINE Good(p) == Kept(filtered[p], p, n, left, right)
           G == {m \in Nat : m \in 1..N => Good(m)}
<1>9. \A p \in 1..N : Good(p)
  <2>1. 0 \in G
    OBVIOUS
  <2>2. ASSUME NEW m \in Nat, m \in G PROVE m + 1 \in G
    <3> SUFFICES ASSUME m + 1 \in 1..N PROVE Good(m + 1)
      OBVIOUS
    <3>1. CASE m = 0
      <4>1. filtered[1] = <<0>>
        BY <1>6, <1>8
      <4>2. <<0>> \in Seq(0..(n - 1)) /\ Len(<<0>>) = 1 /\ <<0>>[1] = 0 /\ 1..(Len(<<0>>) - 1) = {}
        BY <1>1
      <4>3. Kept(<<0>>, 1, n, left, right)
        BY <4>2 DEF Kept
      <4>4. Good(1)
        BY <4>1, <4>3
      <4> QED BY <3>1, <4>4
    <3>2. CASE m # 0
      <4> DEFINE ks == filtered[m]
      <4>1. m \in 1..N /\ (m + 1) - 1 = m /\ m + 1 # 1
        BY <1>3, <3>2
      <4>2. Kept(ks, m, n, left, right)
        BY <2>2, <4>1
      <4>3. filtered[m + 1] = IF Apart(Last(ks), places[m + 1]) THEN Append(ks, places[m + 1]) ELSE ks
        BY <1>8, <4>1
      <4>4. places[m + 1] \in 0..(n - 1)
        BY <1>7
      <4> HIDE DEF ks
      <4>5. CASE Apart(Last(ks), places[m + 1])
        <5>1. Kept(Append(ks, places[m + 1]), m + 1, n, left, right)
          BY <1>1, <4>2, <4>4, <4>5, KeptOneMore DEF X
        <5> QED BY <4>3, <4>5, <5>1
      <4>6. CASE ~Apart(Last(ks), places[m + 1])
        <5>1. Kept(ks, m + 1, n, left, right)
          BY <4>2 DEF Kept
        <5> QED BY <4>3, <4>6, <5>1
      <4> QED BY <4>5, <4>6
    <3> QED BY <3>1, <3>2
  <2>3. Nat \subseteq G
    <3> HIDE DEF G
    <3> QED BY <2>1, <2>2, NumberInduction
  <2>4. \A p \in 1..N : p \in Nat
    BY <1>3
  <2> QED BY <2>3, <2>4
<1>10. Kept(kept, N, n, left, right) /\ kept = filtered[N]
  BY <1>4, <1>6, <1>9, <1>3
<1>11. kept[k] # n - 1 => ~Apart(kept[k], n - 1)
  <2>1. CASE N = 1
    <3>1. n - 1 = 0 /\ kept = <<0>>
      <4>1. 1 \in 1..N
        BY <2>1
      <4>2. filtered[1] = <<0>>
        BY <1>8, <4>1
      <4> HIDE DEF kept
      <4> QED BY <1>6, <1>10, <2>1, <4>2
    <3>2. kept[k] = 0
      BY <3>1
    <3> QED BY <3>1, <3>2
  <2>2. CASE N # 1
    <3> DEFINE ks == filtered[N - 1]
    <3>1. N \in 1..N /\ N - 1 \in 1..N
      BY <1>3, <1>6, <2>2
    <3>2. kept = IF Apart(Last(ks), n - 1) THEN Append(ks, n - 1) ELSE ks
      BY <1>6, <1>8, <1>10, <2>2, <3>1
    <3>3. Kept(ks, N - 1, n, left, right) /\ N - 1 \in Nat
      BY <1>9, <3>1
    <3> HIDE DEF ks, kept
    <3>4. CASE Apart(Last(ks), n - 1)
      <4>1. n - 1 \in 0..(n - 1)
        BY <1>1
      <4>2. Last(Append(ks, n - 1)) = n - 1
        <5> DEFINE i == n - 1
        <5>1. PlotX(i, n, left, right) - PlotX(Last(ks), n, left, right) >= 56000
          BY <3>4 DEF X
        <5>2. i \in 0..(n - 1)
          BY <4>1
        <5> HIDE DEF i
        <5>3. Kept(Append(ks, i), (N - 1) + 1, n, left, right) /\ Last(Append(ks, i)) = i
          BY <1>1, <3>3, <5>1, <5>2, KeptOneMore
        <5> QED BY <5>3 DEF i
      <4> QED BY <3>2, <3>4, <4>2 DEF Last
    <3>5. CASE ~Apart(Last(ks), n - 1)
      <4>1. kept = ks /\ Last(ks) = kept[k]
        BY <3>2, <3>5 DEF Last
      <4> QED BY <3>5, <4>1
    <3> QED BY <3>4, <3>5
  <2> QED BY <2>1, <2>2
<1>12. /\ kept \in Seq(0..(n - 1)) /\ k \in Nat /\ k >= 1 /\ k <= 13 /\ kept[1] = 0
       /\ \A l \in 1..(k - 1) : Apart(kept[l], kept[l + 1])
       /\ \A l \in 1..k : kept[l] \in 0..(n - 1)
  <2> HIDE DEF kept
  <2>1. kept \in Seq(0..(n - 1)) /\ k \in Nat /\ k >= 1 /\ k <= N /\ kept[1] = 0
    BY <1>10 DEF Kept
  <2>2. \A l \in 1..(k - 1) : Apart(kept[l], kept[l + 1])
    BY <1>10 DEF Kept, X
  <2>3. k <= 13
    BY <1>3, <2>1
  <2>4. \A l \in 1..k : kept[l] \in 0..(n - 1)
    BY <2>1, ElementOfSeq
  <2> HIDE DEF k, Apart
  <2> QED BY <2>1, <2>2, <2>3, <2>4
<1>13. /\ \A i \in 0..(n - 1) : X(i) \in Int
       /\ \A i, j \in 0..(n - 1) : i <= j => X(i) <= X(j)
       /\ n > 1 => X(0) = 1000 * left /\ X(n - 1) = 1000 * right
  <2>1. left <= right
    OBVIOUS
  <2> QED BY <1>1, <2>1, AlongAxis DEF X
<1> DEFINE labels == SelectLabels(n, left, right)
<1> HIDE DEF kept, k
<1>14. CASE kept[k] = n - 1
  <2>1. labels = kept /\ Len(labels) = k
    BY <1>2, <1>14 DEF k
  <2>2. labels[1] = 0 /\ Last(labels) = n - 1 /\ Len(labels) < 14
    BY <1>12, <1>14, <2>1 DEF Last
  <2>3. \A l \in 1..(Len(labels) - 1) : X(labels[l + 1]) - X(labels[l]) >= 56000
    BY <1>12, <2>1
  <2> QED BY <2>2, <2>3 DEF LabelsReadable, X, n
<1>15. CASE kept[k] # n - 1
  <2>1. ~Apart(kept[k], n - 1)
    BY <1>11, <1>15
  <2>2. k >= 2
    <3> SUFFICES ASSUME k = 1 PROVE FALSE
      BY <1>12
    <3>1. kept[k] = 0 /\ n > 1
      BY <1>1, <1>12, <1>15
    <3>2. X(n - 1) - X(0) >= 56000
      BY <1>13, <3>1
    <3> QED BY <2>1, <3>1, <3>2
  <2>3. kept[k - 1] \in 0..(n - 1) /\ kept[k] \in 0..(n - 1) /\ Apart(kept[k - 1], kept[k])
    <3>1. k - 1 \in 1..(k - 1) /\ k - 1 \in 1..k /\ k \in 1..k /\ (k - 1) + 1 = k
      BY <1>12, <2>2
    <3> QED BY <1>12, <3>1, SMTT(20)
  <2>4. Apart(kept[k - 1], n - 1)
    <3>1. n - 1 \in 0..(n - 1) /\ kept[k] <= n - 1
      BY <1>1, <2>3
    <3>2. X(kept[k]) <= X(n - 1) /\ X(kept[k]) \in Int /\ X(n - 1) \in Int /\ X(kept[k - 1]) \in Int
      BY <1>13, <2>3, <3>1
    <3> QED BY <2>3, <3>2
  <2>5. labels = [kept EXCEPT ![k] = n - 1]
    BY <1>2, <1>15, <2>1, <2>2, <2>4
  <2>6. /\ Len(labels) = k /\ labels[k] = n - 1
        /\ \A l \in 1..(k - 1) : labels[l] = kept[l]
    <3>1. Len(labels) = Len(kept) /\ Len(kept) = k
      BY <1>12, <2>5 DEF k
    <3>2. DOMAIN kept = 1..k
      BY <1>12 DEF k
    <3> HIDE DEF labels
    <3> QED BY <1>12, <2>5, <3>1, <3>2
  <2>7. labels[1] = 0 /\ Last(labels) = n - 1 /\ Len(labels) < 14
    <3>1. 1 \in 1..(k - 1)
      BY <1>12, <2>2
    <3> HIDE DEF labels
    <3> QED BY <1>12, <2>6, <3>1 DEF Last
  <2>8. \A l \in 1..(Len(labels) - 1) : X(labels[l + 1]) - X(labels[l]) >= 56000
    <3> SUFFICES ASSUME NEW l \in 1..(k - 1) PROVE Apart(labels[l], labels[l + 1])
      BY <2>6
    <3>1. CASE l = k - 1
      <4>1. labels[l] = kept[k - 1] /\ labels[l + 1] = n - 1
        BY <1>12, <2>6, <3>1
      <4> QED BY <2>4, <4>1
    <3>2. CASE l # k - 1
      <4>1. l + 1 \in 1..(k - 1)
        BY <1>12, <3>2
      <4>2. labels[l] = kept[l] /\ labels[l + 1] = kept[l + 1]
        BY <2>6, <4>1
      <4> QED BY <1>12, <4>2
    <3> QED BY <3>1, <3>2
  <2> QED BY <2>7, <2>8 DEF LabelsReadable, X, n
<1> QED BY <1>14, <1>15

-------------------------------------------------------------------------------
(* Heights on the square root scale, ticks and badges *)

\* Squares that bound the heights of two values.
LEMMA SquaresInOrder ==
  ASSUME NEW t \in Nat \ {0}, NEW r \in Nat, NEW s \in Nat, NEW V \in Int, NEW W \in Int, V <= W,
         r > 0 => (2 * r - 1) * (2 * r - 1) * t <= V, W < (2 * s + 1) * (2 * s + 1) * t
  PROVE  r <= s
<1> SUFFICES ASSUME r >= s + 1 PROVE FALSE
  OBVIOUS
<1> DEFINE a == 2 * r - 1
           b == 2 * s + 1
<1>1. a \in Nat /\ b \in Nat /\ b <= a
  OBVIOUS
<1>2. a * a * t <= V /\ W < b * b * t
  OBVIOUS
<1> HIDE DEF a, b
<1>3. b * b <= a * a /\ b * b \in Nat /\ a * a \in Nat
  <2>1. b * b <= b * a /\ b * a <= a * a
    BY <1>1
  <2> QED BY <1>1, <2>1
<1>4. b * b * t <= a * a * t /\ b * b * t \in Int /\ a * a * t \in Int
  <2> DEFINE x == b * b
             y == a * a
  <2>1. x \in Nat /\ y \in Nat /\ x <= y
    BY <1>3
  <2> HIDE DEF x, y
  <2>2. x * t <= y * t /\ x * t \in Int /\ y * t \in Int
    BY <2>1
  <2> QED BY <2>2 DEF x, y
<1> QED BY <1>2, <1>4

\* There is a height for every value of the scale.
LEMMA HeightIs ==
  ASSUME NEW top \in Nat \ {0}, NEW full \in Nat \ {0}, NEW value \in 0..top
  PROVE  LET r == Height(value, top, full)
         IN  /\ r \in 0..full
             /\ value = 0 => r = 0
             /\ value > 0 => /\ 4 * full * full * value < (2 * r + 1) * (2 * r + 1) * top
                             /\ r > 0 => (2 * r - 1) * (2 * r - 1) * top <= 4 * full * full * value
<1> DEFINE V == 4 * full * full * value
           B == {r \in Nat : V < (2 * r + 1) * (2 * r + 1) * top}
           C(r) == /\ V < (2 * r + 1) * (2 * r + 1) * top
                   /\ r > 0 => (2 * r - 1) * (2 * r - 1) * top <= V
<1>1. CASE value = 0
  BY <1>1 DEF Height
<1>2. CASE value > 0
  <2>1. Height(value, top, full) = CHOOSE r \in 0..full : C(r)
    BY <1>2 DEF Height
  <2>2. V \in Nat
    <3> DEFINE c == 4 * full * full
    <3>1. c \in Nat
      OBVIOUS
    <3> HIDE DEF c
    <3>2. c * value \in Nat
      BY <3>1
    <3> QED BY <3>2 DEF c
  <2>3. full \in B
    <3> DEFINE c == 4 * full * full
               e == 4 * full + 1
    <3>1. c \in Nat /\ e \in Nat /\ e >= 1 /\ (2 * full + 1) * (2 * full + 1) = c + e
      OBVIOUS
    <3> HIDE DEF c, e
    <3>2. c * value <= c * top /\ (c + e) * top = c * top + e * top /\ e * top >= 1
      BY <3>1
    <3>3. c * value \in Int /\ c * top \in Int /\ e * top \in Int
      BY <3>1
    <3>4. c * value < (c + e) * top
      BY <3>2, <3>3
    <3>5. V < (2 * full + 1) * (2 * full + 1) * top
      BY <3>1, <3>4 DEF c
    <3> QED BY <3>5
  <2>4. B \subseteq Nat
    OBVIOUS
  <2> HIDE DEF V
  <2> DEFINE r == Min(B)
  <2>5. r \in B /\ \A s \in B : r <= s
    <3> HIDE DEF B
    <3> QED BY <2>3, <2>4, LeastElement
  <2> HIDE DEF r
  <2>6. r \in Nat /\ V < (2 * r + 1) * (2 * r + 1) * top
    BY <2>5
  <2>7. r \in 0..full
    <3>1. r <= full
      BY <2>3, <2>5
    <3> QED BY <2>6, <3>1
  <2>8. r > 0 => (2 * r - 1) * (2 * r - 1) * top <= V
    <3> SUFFICES ASSUME r > 0, ~((2 * r - 1) * (2 * r - 1) * top <= V) PROVE FALSE
      OBVIOUS
    <3>1. r - 1 \in Nat /\ 2 * (r - 1) + 1 = 2 * r - 1
      BY <2>6
    <3>2. (2 * r - 1) * (2 * r - 1) * top \in Int
      <4> DEFINE a == 2 * r - 1
      <4>1. a \in Int
        BY <2>6
      <4> HIDE DEF a
      <4>2. a * a \in Int
        BY <4>1
      <4> DEFINE b == a * a
      <4> HIDE DEF b
      <4>3. b * top \in Int
        BY <4>2 DEF b
      <4> QED BY <4>3 DEF a, b
    <3>3. V < (2 * r - 1) * (2 * r - 1) * top
      BY <2>2, <3>2
    <3>4. r - 1 \in B
      BY <3>1, <3>3
    <3>5. r <= r - 1
      BY <2>5, <3>4
    <3> QED BY <2>6, <3>5
  <2>9. \E s \in 0..full : C(s)
    BY <2>6, <2>7, <2>8
  <2> HIDE DEF C, B
  <2>10. Height(value, top, full) \in 0..full /\ C(Height(value, top, full))
    BY <2>1, <2>9
  <2> QED BY <1>2, <2>10 DEF C, V
<1> QED BY <1>1, <1>2

\* Larger values are drawn no lower, and the largest at the top.
LEMMA HeightsInOrder ==
  ASSUME NEW top \in Nat \ {0}, NEW full \in Nat \ {0}
  PROVE  /\ \A v \in 0..top : Height(v, top, full) \in 0..full
         /\ \A v, w \in 0..top : v <= w => Height(v, top, full) <= Height(w, top, full)
         /\ Height(0, top, full) = 0 /\ Height(top, top, full) = full
<1> DEFINE H(v) == Height(v, top, full)
           c == 4 * full * full
<1>1. \A v \in 0..top : H(v) \in 0..full
  BY HeightIs
<1>2. \A v \in 0..top : v = 0 => H(v) = 0
  BY HeightIs
<1>3. \A v \in 0..top : v > 0 =>
         /\ c * v < (2 * H(v) + 1) * (2 * H(v) + 1) * top
         /\ H(v) > 0 => (2 * H(v) - 1) * (2 * H(v) - 1) * top <= c * v
  BY HeightIs
<1>4. c \in Nat
  OBVIOUS
<1> HIDE DEF H
<1>5. ASSUME NEW v \in 0..top, NEW w \in 0..top, v <= w PROVE H(v) <= H(w)
  <2>1. CASE v = 0
    BY <1>1, <1>2, <2>1
  <2>2. CASE v > 0
    <3> DEFINE r == H(v)
               s == H(w)
               V == c * v
               W == c * w
    <3>1. r \in Nat /\ s \in Nat
      BY <1>1
    <3>2. (r > 0 => (2 * r - 1) * (2 * r - 1) * top <= V) /\ W < (2 * s + 1) * (2 * s + 1) * top
      <4>1. w > 0
        BY <1>5, <2>2
      <4> HIDE DEF c
      <4> QED BY <1>3, <2>2, <4>1
    <3>3. V \in Int /\ W \in Int /\ V <= W
      <4> HIDE DEF c
      <4> QED BY <1>4, <1>5
    <3> HIDE DEF r, s, V, W
    <3>4. r <= s
      BY <3>1, <3>2, <3>3, SquaresInOrder
    <3> QED BY <3>4 DEF r, s
  <2> QED BY <2>1, <2>2
<1>6. H(top) = full
  <2> DEFINE r == H(top)
             V == c * top
  <2>1. r \in 0..full /\ V < (2 * r + 1) * (2 * r + 1) * top
    <3>1. top \in 0..top /\ top > 0
      OBVIOUS
    <3> HIDE DEF c
    <3> QED BY <1>1, <1>3, <3>1
  <2>2. (2 * full - 1) * (2 * full - 1) * top <= V /\ V \in Int
    <3> DEFINE e == 4 * full - 1
               d == (2 * full - 1) * (2 * full - 1)
    <3>1. d \in Int /\ e \in Nat /\ c = d + e
      OBVIOUS
    <3> HIDE DEF c, d, e
    <3>2. (d + e) * top = d * top + e * top /\ e * top >= 0 /\ e * top \in Int /\ d * top \in Int
      BY <3>1
    <3>3. d * top <= c * top /\ c * top \in Int
      BY <3>1, <3>2
    <3> QED BY <3>3 DEF d
  <2> HIDE DEF r, V
  <2>3. full \in Nat /\ r \in Nat
    BY <2>1
  <2>4. full <= r
    <3>1. V <= V
      BY <2>2
    <3> QED BY <2>1, <2>2, <2>3, <3>1, SquaresInOrder
  <2>5. r = full
    BY <2>1, <2>3, <2>4
  <2> QED BY <2>5 DEF r
<1>7. H(0) = 0
  BY <1>2
<1> QED BY <1>1, <1>5, <1>6, <1>7 DEF H

LEMMA TicksInOrder ==
  ASSUME NEW top \in Nat \ {0}
  PROVE  LET ticks == NiceTicks(top)
             n == Len(ticks)
         IN  /\ n \in Nat /\ n > 1 /\ DOMAIN ticks = 1..n
             /\ \A k \in 1..n : ticks[k] \in 0..top
             /\ \A i, j \in 1..n : i < j => ticks[i] < ticks[j]
             /\ ticks[1] = 0 /\ ticks[n] = top
<1> DEFINE stride == Max({1, RoundDiv(top, 4)})
           c == (top + stride - 1) \div stride
           opening == [k \in 1..c |-> (k - 1) * stride]
           ticks == Append(opening, top)
<1>1. NiceTicks(top) = ticks
  BY DEF NiceTicks
<1>2. stride \in Nat \ {0}
  <2>1. RoundDiv(top, 4) \in Int
    <3>1. top \in Int /\ 4 \in Nat \ {0}
      OBVIOUS
    <3> QED BY <3>1, Rounded
  <2>2. 1 \in Int
    OBVIOUS
  <2> DEFINE q == RoundDiv(top, 4)
  <2> HIDE DEF q
  <2>3. Max({1, q}) = IF 1 >= q THEN 1 ELSE q
    BY <2>1, <2>2, OfTwo DEF q
  <2>4. Max({1, q}) \in Nat \ {0}
    BY <2>1, <2>3 DEF q
  <2> QED BY <2>4 DEF q
<1> HIDE DEF stride
<1>3. c \in Nat /\ c >= 1 /\ (c - 1) * stride < top /\ stride * c >= top
  <2> DEFINE a == top + stride - 1
             r == a % stride
  <2>1. a \in Int /\ a >= stride /\ c = a \div stride
    BY <1>2
  <2>2. c \in Int /\ r \in 0..(stride - 1) /\ a = stride * c + r
    <3> HIDE DEF a, c
    <3>1. a \div stride \in Int /\ a % stride \in 0..(stride - 1) /\ a = stride * (a \div stride) + (a % stride)
      BY <1>2, <2>1, Division
    <3> QED BY <2>1, <3>1
  <2> HIDE DEF c, r
  <2>3. stride * c \in Int /\ stride * c <= top + stride - 1 /\ stride * c >= top
    BY <1>2, <2>2
  <2>4. c >= 1
    <3> SUFFICES ASSUME c <= 0 PROVE FALSE
      BY <2>2
    <3>1. stride * c <= 0
      BY <1>2, <2>2
    <3> QED BY <2>3, <3>1
  <2>5. (c - 1) * stride = stride * c - stride
    BY <1>2, <2>2
  <2>6. (c - 1) * stride < top
    BY <1>2, <2>3, <2>5
  <2> QED BY <2>2, <2>3, <2>4, <2>6
<1> HIDE DEF c
<1>4. \A k \in 1..c : opening[k] \in 0..top /\ opening[k] < top
  <2> SUFFICES ASSUME NEW k \in 1..c PROVE (k - 1) * stride \in 0..top /\ (k - 1) * stride < top
    OBVIOUS
  <2>1. k - 1 \in Nat /\ k - 1 <= c - 1 /\ c - 1 \in Nat
    BY <1>3
  <2> DEFINE a == k - 1
             b == c - 1
  <2>2. a \in Nat /\ b \in Nat /\ a <= b
    BY <2>1
  <2> HIDE DEF a, b
  <2>3. a * stride <= b * stride /\ a * stride \in Nat /\ b * stride \in Nat
    BY <1>2, <2>2
  <2>4. b * stride < top
    BY <1>3 DEF b
  <2>5. a * stride \in 0..top /\ a * stride < top
    BY <2>3, <2>4
  <2> QED BY <2>5 DEF a
<1>5. \A i, j \in 1..c : i < j => opening[i] < opening[j]
  <2> SUFFICES ASSUME NEW i \in 1..c, NEW j \in 1..c, i < j PROVE (i - 1) * stride < (j - 1) * stride
    OBVIOUS
  <2>1. i - 1 \in Nat /\ j - 1 \in Nat /\ (i - 1) + 1 <= j - 1
    OBVIOUS
  <2> DEFINE a == i - 1
             b == j - 1
  <2>2. a \in Nat /\ b \in Nat /\ a + 1 <= b
    BY <2>1
  <2> HIDE DEF a, b
  <2>3. (a + 1) * stride <= b * stride /\ (a + 1) * stride = a * stride + stride /\ a * stride \in Int /\ b * stride \in Int
    BY <1>2, <2>2
  <2>4. a * stride < b * stride
    BY <1>2, <2>3
  <2> QED BY <2>4 DEF a, b
<1>6. opening[1] = 0
  BY <1>2, <1>3
<1>7. opening \in Seq(Int) /\ Len(opening) = c
  <2>1. opening = [k \in 1..c |-> opening[k]]
    OBVIOUS
  <2> HIDE DEF opening
  <2> QED BY <1>3, <1>4, <2>1
<1> HIDE DEF opening
<1>8. /\ Len(ticks) = c + 1 /\ DOMAIN ticks = 1..(c + 1)
      /\ ticks[c + 1] = top /\ \A k \in 1..c : ticks[k] = opening[k]
  BY <1>3, <1>7
<1> HIDE DEF ticks
<1>9. \A k \in 1..(c + 1) : k \in 1..c \/ k = c + 1
  BY <1>3
<1>10. \A k \in 1..(c + 1) : ticks[k] \in 0..top
  <2>1. top \in 0..top
    OBVIOUS
  <2> QED BY <1>4, <1>8, <1>9, <2>1
<1>11. ASSUME NEW i \in 1..(c + 1), NEW j \in 1..(c + 1), i < j PROVE ticks[i] < ticks[j]
  <2>1. i \in 1..c
    BY <1>3, <1>11
  <2>2. CASE j \in 1..c
    BY <1>5, <1>8, <1>11, <2>1, <2>2
  <2>3. CASE j = c + 1
    BY <1>4, <1>8, <2>1, <2>3
  <2> QED BY <1>9, <2>2, <2>3
<1>12. ticks[1] = 0 /\ c + 1 \in Nat /\ c + 1 > 1
  BY <1>3, <1>6, <1>8
<1> QED BY <1>1, <1>8, <1>10, <1>11, <1>12

\* What a comprehension keeps, at the places in their order.
Listed(s, P, K, b, kept) ==
  /\ K \in Nat /\ K = Cardinality(P) /\ DOMAIN kept = 1..K /\ Len(kept) = K
  /\ kept = [i \in 1..K |-> s[b[i]]]
  /\ b \in Bijection(1..K, P)
  /\ \A i \in 1..K : b[i] \in P
  /\ \A i \in 1..K : kept[i] = s[b[i]]
  /\ \A k \in P : \E i \in 1..K : b[i] = k
  /\ \A i, j \in 1..K : i < j => b[i] < b[j]

LEMMA KeepListed ==
  ASSUME NEW s, NEW P, IsFiniteSet(P), P \subseteq Int
  PROVE  Listed(s, P, Cardinality(P), InOrder(P), Keep(s, P))
<1> DEFINE K == Cardinality(P)
           b == InOrder(P)
           kept == Keep(s, P)
           I == 1..K
<1>1. /\ K \in Nat /\ DOMAIN b = 1..K /\ b \in Bijection(I, P)
      /\ \A i, j \in 1..K : i < j => b[i] < b[j]
  BY InOrderLists
<1>2. kept = [i \in DOMAIN b |-> s[b[i]]]
  BY DEF Keep
<1> HIDE DEF b, kept, K
<1>3. /\ DOMAIN kept = 1..K /\ Len(kept) = K /\ \A i \in 1..K : kept[i] = s[b[i]]
      /\ kept = [i \in 1..K |-> s[b[i]]]
  BY <1>1, <1>2
<1>4. b \in [I -> P] /\ \A k \in P : \E i \in I : b[i] = k
  <2> HIDE DEF I
  <2> QED BY ONLY <1>1, BijectionFacts
<1>5. \A i \in 1..K : b[i] \in P
  BY <1>4
<1>6. Listed(s, P, K, b, kept)
  BY <1>1, <1>3, <1>4, <1>5 DEF Listed, K
<1> QED BY <1>6 DEF K, b, kept

LEMMA TicksHold ==
  ASSUME NEW top \in Nat \ {0}, NEW full \in Nat \ {0}
  PROVE  TicksReadable(Ticks(top, full), top, full)
<1> DEFINE ticks == NiceTicks(top)
           n == Len(ticks)
           H(v) == Height(v, top, full)
           Hidden(t) == \E s \in Range(ticks) : s < t /\ H(s) = H(t)
           P == {k \in DOMAIN ticks : ~Hidden(ticks[k])}
           K == Cardinality(P)
           kept == Ticks(top, full)
<1>1. /\ n \in Nat /\ n > 1 /\ DOMAIN ticks = 1..n
      /\ \A k \in 1..n : ticks[k] \in 0..top
      /\ \A i, j \in 1..n : i < j => ticks[i] < ticks[j]
      /\ ticks[1] = 0 /\ ticks[n] = top
  BY TicksInOrder
<1>2. /\ \A v \in 0..top : H(v) \in 0..full
      /\ \A v, w \in 0..top : v <= w => H(v) <= H(w)
      /\ H(top) = full
  BY HeightsInOrder
<1>3. kept = Keep(ticks, P)
  BY DEF Ticks
<1> HIDE DEF ticks, n, H, kept
<1>4. P \in SUBSET (1..n) /\ \A k \in 1..n : k \in P <=> ~ \E j \in 1..n : ticks[j] < ticks[k] /\ H(ticks[j]) = H(ticks[k])
  BY <1>1 DEF Range
<1> HIDE DEF P
<1> DEFINE b == InOrder(P)
<1>5. /\ K \in Nat /\ DOMAIN kept = 1..K /\ Len(kept) = K
      /\ \A i \in 1..K : b[i] \in P /\ b[i] \in 1..n /\ kept[i] = ticks[b[i]]
      /\ \A k \in P : \E i \in 1..K : b[i] = k
      /\ \A i, j \in 1..K : i < j => b[i] < b[j]
  <2>1. IsFiniteSet(P) /\ P \subseteq Int
    <3>1. IsFiniteSet(1..n) /\ P \subseteq 1..n
      BY <1>1, <1>4, UpTo
    <3>2. IsFiniteSet(P)
      BY <3>1, FS_Subset
    <3>3. P \subseteq Int
      BY <3>1
    <3> QED BY <3>2, <3>3
  <2>2. Listed(ticks, P, K, b, kept)
    BY <1>3, <2>1, KeepListed
  <2> HIDE DEF K, b
  <2> QED BY <1>4, <2>2 DEF Listed
<1> HIDE DEF K, b
<1>6. 1 \in P
  <2>1. 1 \in 1..n /\ \A j \in 1..n : ~(ticks[j] < ticks[1])
    BY <1>1
  <2> QED BY <1>4, <2>1
<1>7. K >= 1 /\ kept[1] = 0
  <2>1. PICK i \in 1..K : b[i] = 1
    BY <1>5, <1>6
  <2>2. K >= 1 /\ i = 1
    <3>1. K \in Nat /\ 1 \in 1..K /\ i \in Nat /\ i >= 1
      BY <1>5, <2>1
    <3>2. 1 < i => b[1] < b[i] /\ b[1] \in 1..n
      BY <1>5, <2>1, <3>1
    <3> QED BY <2>1, <3>1, <3>2
  <2> QED BY <1>1, <1>5, <2>1, <2>2
<1>8. ASSUME NEW k \in 1..(K - 1) PROVE H(kept[k]) < H(kept[k + 1])
  <2>1. k \in 1..K /\ k + 1 \in 1..K /\ k < k + 1
    BY <1>5
  <2>2. b[k] \in 1..n /\ b[k + 1] \in P /\ b[k + 1] \in 1..n /\ b[k] < b[k + 1]
    BY <1>5, <2>1
  <2>3. ticks[b[k]] < ticks[b[k + 1]] /\ ticks[b[k]] \in 0..top /\ ticks[b[k + 1]] \in 0..top
    BY <1>1, <2>2
  <2>4. H(ticks[b[k]]) <= H(ticks[b[k + 1]]) /\ H(ticks[b[k]]) \in Int /\ H(ticks[b[k + 1]]) \in Int
    BY <1>2, <2>3
  <2>5. H(ticks[b[k]]) # H(ticks[b[k + 1]])
    BY <1>4, <2>2, <2>3
  <2> QED BY <1>5, <2>1, <2>4, <2>5
<1>9. H(kept[K]) = full
  <2> DEFINE S == {k \in 1..n : H(ticks[k]) = full}
             opening == Min(S)
  <2>1. S \subseteq Nat /\ n \in S
    BY <1>1, <1>2
  <2>2. opening \in S /\ \A k \in S : opening <= k
    <3> HIDE DEF S
    <3> QED BY <2>1, LeastElement
  <2> HIDE DEF opening
  <2>3. opening \in 1..n /\ H(ticks[opening]) = full
    BY <2>2
  <2>4. opening \in P
    <3> SUFFICES ASSUME NEW j \in 1..n, ticks[j] < ticks[opening], H(ticks[j]) = H(ticks[opening]) PROVE FALSE
      BY <1>4, <2>3
    <3>1. j \in S
      BY <2>3
    <3>2. opening <= j
      BY <2>2, <3>1
    <3>3. opening < j => ticks[opening] < ticks[j]
      BY <1>1, <2>3
    <3>4. ticks[opening] \in Int /\ ticks[j] \in Int /\ opening \in Int /\ j \in Int
      BY <1>1, <2>3
    <3> QED BY <3>2, <3>3, <3>4
  <2>5. PICK i \in 1..K : b[i] = opening
    BY <1>5, <2>4
  <2>6. K \in 1..K /\ (i < K \/ i = K)
    BY <1>5, <1>7
  <2>7. b[i] <= b[K] /\ b[K] \in 1..n
    <3>1. b[K] \in 1..n /\ b[i] \in 1..n
      BY <1>5, <2>6
    <3> QED BY <1>5, <2>6, <3>1
  <2>8. ticks[opening] <= ticks[b[K]] /\ ticks[b[K]] \in 0..top /\ ticks[opening] \in 0..top
    <3>1. opening < b[K] \/ opening = b[K]
      BY <2>3, <2>5, <2>7
    <3>2. ticks[b[K]] \in 0..top /\ ticks[opening] \in 0..top
      BY <1>1, <2>3, <2>7
    <3>3. opening < b[K] => ticks[opening] < ticks[b[K]]
      BY <1>1, <2>3, <2>7
    <3> QED BY <3>1, <3>2, <3>3
  <2>9. full <= H(ticks[b[K]]) /\ H(ticks[b[K]]) \in 0..full
    BY <1>2, <2>3, <2>8
  <2>10. H(ticks[b[K]]) = full
    BY <2>9
  <2> QED BY <1>5, <2>6, <2>10
<1> QED BY <1>5, <1>7, <1>8, <1>9 DEF TicksReadable, Last, H, kept

\* The largest of the values of a function, if it has any.
LEMMA LargestIs ==
  ASSUME NEW f, IsFiniteSet(DOMAIN f), \A x \in DOMAIN f : f[x] \in Nat
  PROVE  /\ Largest(f) \in Nat /\ \A x \in DOMAIN f : f[x] <= Largest(f)
         /\ DOMAIN f # {} => \E x \in DOMAIN f : f[x] = Largest(f)
         /\ Largest(f) > 0 => \E x \in DOMAIN f : f[x] = Largest(f)
<1> DEFINE S == Range(f) \cup {0}
<1>1. \A y : y \in S <=> y = 0 \/ \E x \in DOMAIN f : f[x] = y
  BY DEF Range
<1>2. IsFiniteSet(S)
  <2>1. IsFiniteSet(Range(f)) /\ IsFiniteSet({0})
    BY RangeFinite, FS_Singleton
  <2> QED BY <2>1, FS_Union
<1>3. Largest(f) = Max(S)
  BY DEF Largest
<1>4. S # {} /\ S \subseteq Int /\ S \subseteq Nat /\ 0 \in S
  BY <1>1
<1> HIDE DEF S
<1>5. Max(S) \in S /\ \A y \in S : y <= Max(S)
  BY <1>2, <1>4, Extremes
<1>6. \A x \in DOMAIN f : f[x] \in S
  BY <1>1
<1>7. Largest(f) \in Nat /\ \A x \in DOMAIN f : f[x] <= Largest(f)
  BY <1>3, <1>4, <1>5, <1>6
<1>8. Largest(f) > 0 => \E x \in DOMAIN f : f[x] = Largest(f)
  BY <1>1, <1>3, <1>5, <1>7
<1>9. ASSUME DOMAIN f # {} PROVE \E x \in DOMAIN f : f[x] = Largest(f)
  <2>1. PICK x \in DOMAIN f : TRUE
    BY <1>9
  <2>2. CASE Largest(f) > 0
    BY <1>8, <2>2
  <2>3. CASE Largest(f) = 0
    <3>1. f[x] <= Largest(f) /\ f[x] \in Nat
      BY <1>7
    <3>2. f[x] = Largest(f)
      BY <2>3, <3>1
    <3> QED BY <3>2
  <2> QED BY <1>7, <2>2, <2>3
<1> QED BY <1>7, <1>8, <1>9

\* The points of a curve are where its counts are.
CurveFor(points, tally, n, right, top, full) ==
  /\ DOMAIN points = 1..n
  /\ \A x \in 1..n : /\ points[x].x = PlotX(x - 1, n, 56, right)
                     /\ points[x].height = Height(tally[x], top, full)

LEMMA BadgeHolds ==
  ASSUME NEW n \in Nat \ {0}, NEW tally, Len(tally) = n, DOMAIN tally = 1..n, \A x \in 1..n : tally[x] \in Nat,
         NEW top \in Nat \ {0}, Largest(tally) <= top, NEW full \in Nat \ {0}, NEW d \in Peaks(tally),
         NEW right \in Nat, right >= 144, NEW gap, NEW plotBottom,
         NEW points, CurveFor(points, tally, n, right, top, full)
  PROVE  BadgeHonest(Badge(tally, d, gap, top, 56, right, plotBottom, full), points, right)
<1> DEFINE badge == Badge(tally, d, gap, top, 56, right, plotBottom, full)
           X == PlotX(d - 1, n, 56, right)
<1>0. /\ DOMAIN points = 1..n
      /\ \A x \in 1..n : /\ points[x].x = PlotX(x - 1, n, 56, right)
                         /\ points[x].height = Height(tally[x], top, full)
  BY DEF CurveFor
<1>1. d \in 1..n /\ tally[d] = Largest(tally)
  BY DEF Peaks
<1>2. badge.day = d /\ badge.x = Clamp(X - 44000, 56000, 1000 * (right - 88))
  BY DEF Badge, BadgeX
<1>3. \A x \in 1..n : tally[x] <= tally[d] /\ tally[x] \in 0..top
  <2>1. IsFiniteSet(DOMAIN tally) /\ \A x \in DOMAIN tally : tally[x] \in Nat
    BY UpTo
  <2>2. Largest(tally) \in Nat /\ \A x \in DOMAIN tally : tally[x] <= Largest(tally)
    BY <2>1, LargestIs
  <2>3. \A x \in 1..n : tally[x] <= Largest(tally) /\ tally[x] \in Nat
    BY <2>1, <2>2
  <2>4. tally[d] = Largest(tally) /\ Largest(tally) \in Nat /\ Largest(tally) <= top
    BY <1>1, <2>2
  <2> QED BY ONLY <2>3, <2>4, top \in Nat
<1>4. \A x \in DOMAIN points : points[x].height <= points[d].height
  <2>1. \A v, w \in 0..top : v <= w => Height(v, top, full) <= Height(w, top, full)
    BY HeightsInOrder
  <2> QED BY <1>0, <1>1, <1>3, <2>1
<1>5. X \in Int /\ 56000 <= X /\ X <= 1000 * right
  <2>1. 56 \in Nat /\ 56 <= right /\ d - 1 \in 0..(n - 1)
    BY <1>1
  <2>2. /\ PlotX(d - 1, n, 56, right) \in Int /\ 1000 * 56 <= PlotX(d - 1, n, 56, right)
        /\ PlotX(d - 1, n, 56, right) <= 1000 * right
    <3> DEFINE left == 56
               i == d - 1
    <3>1. left \in Nat /\ left <= right /\ i \in 0..(n - 1)
      BY <2>1
    <3> HIDE DEF left, i
    <3>2. PlotX(i, n, left, right) \in Int /\ 1000 * left <= PlotX(i, n, left, right) /\ PlotX(i, n, left, right) <= 1000 * right
      BY ONLY <3>1, n \in Nat \ {0}, right \in Nat, AlongAxis
    <3> QED BY <3>2 DEF left, i
  <2> QED BY <2>2
<1> HIDE DEF X, badge
<1>6. Clamp(X - 44000, 56000, 1000 * (right - 88)) =
        IF 56000 >= (IF 1000 * (right - 88) <= X - 44000 THEN 1000 * (right - 88) ELSE X - 44000)
        THEN 56000 ELSE IF 1000 * (right - 88) <= X - 44000 THEN 1000 * (right - 88) ELSE X - 44000
  <2> DEFINE a == 1000 * (right - 88)
             v == X - 44000
             m == Min({a, v})
             l == 56000
  <2>1. a \in Int /\ v \in Int /\ l \in Int
    BY <1>5
  <2>2. Clamp(v, l, a) = Max({l, m})
    BY DEF Clamp
  <2> HIDE DEF a, v, l, m
  <2>3. m = IF a <= v THEN a ELSE v
    BY <2>1, OfTwo DEF m
  <2>4. m \in Int
    BY <2>1, <2>3
  <2>5. Max({l, m}) = IF l >= m THEN l ELSE m
    BY <2>1, <2>4, OfTwo
  <2> QED BY <2>2, <2>3, <2>5 DEF a, v, l
<1>7. badge.x >= 56000 /\ badge.x + 88000 <= 1000 * right /\ badge.x <= X /\ X <= badge.x + 88000
  BY <1>2, <1>5, <1>6
<1>8. points[d].x = X
  BY <1>0, <1>1 DEF X
<1> QED BY <1>2, <1>4, <1>7, <1>8 DEF BadgeHonest, badge

-------------------------------------------------------------------------------
(* Channels, days and time buckets *)

\* A comprehension of different elements lists each of them once.
LEMMA KeepOnce ==
  ASSUME NEW s, NEW P, NEW K, NEW b, NEW kept, Listed(s, P, K, b, kept),
         \A i, j \in P : s[i] = s[j] => i = j
  PROVE  /\ K \in Nat /\ DOMAIN kept = 1..K /\ Len(kept) = K
         /\ kept \in Bijection(1..K, {s[i] : i \in P})
<1> DEFINE S == {s[i] : i \in P}
<1>1. /\ K \in Nat /\ DOMAIN kept = 1..K /\ Len(kept) = K
      /\ kept = [i \in 1..K |-> s[b[i]]]
      /\ \A i \in 1..K : b[i] \in P
      /\ \A k \in P : \E i \in 1..K : b[i] = k
      /\ \A i, j \in 1..K : i < j => b[i] < b[j]
  BY DEF Listed
<1>2. \A i \in 1..K : kept[i] = s[b[i]]
  BY DEF Listed
<1>3. b \in Bijection(1..K, P)
  BY DEF Listed
<1>4. \A i, j \in 1..K : b[i] = b[j] => i = j
  <2> DEFINE I == 1..K
  <2>1. b \in Bijection(I, P)
    BY <1>3
  <2> HIDE DEF I
  <2>2. \A i, j \in I : b[i] = b[j] => i = j
    BY ONLY <2>1, BijectionFacts
  <2> QED BY <2>2 DEF I
<1>5. kept \in [1..K -> S]
  BY <1>1
<1>6. \A i, j \in 1..K : kept[i] = kept[j] => i = j
  BY <1>1, <1>2, <1>4
<1>7. \A x \in S : \E i \in 1..K : kept[i] = x
  <2> SUFFICES ASSUME NEW k \in P PROVE \E i \in 1..K : kept[i] = s[k]
    OBVIOUS
  <2>1. PICK i \in 1..K : b[i] = k
    BY <1>1
  <2> QED BY <1>2, <2>1
<1>8. kept \in Bijection(1..K, S)
  <2> HIDE DEF S
  <2> QED BY <1>5, <1>6, <1>7 DEF Bijection, Injection, Surjection, IsInjective
<1> QED BY <1>1, <1>8

\* A channel's conversations are counted once.
CountsOf(ch) ==
  /\ volume[ch] \in Seq(Nat) /\ Len(volume[ch]) = Days /\ DOMAIN volume[ch] = 1..Days
  /\ \A d \in 1..Days : volume[ch][d] \in Nat /\ volume[ch][d] <= ChannelCount(ch)
  /\ hours[ch] \in [Hours -> Nat] /\ \A h \in Hours : hours[ch][h] <= ChannelCount(ch)
  /\ buckets[ch] \in [ChartBuckets -> Nat] /\ \A b \in ChartBuckets : buckets[ch][b] <= ChannelCount(ch)
  /\ ChannelCount(ch) \in Nat /\ ChannelCount(ch) = SumOver(volume[ch], 1..Days)
  /\ ChannelCount(ch) = SumOver(hours[ch], Hours) /\ ChannelCount(ch) = SumOver(buckets[ch], ChartBuckets)
  /\ ChannelCount(ch) = SumOf(buckets[ch])

LEMMA EachChannel == ASSUME ChartsConstants, ChartsInv PROVE \A ch \in ChartChannels : CountsOf(ch)
<1> SUFFICES ASSUME NEW ch \in ChartChannels PROVE CountsOf(ch)
  OBVIOUS
<1> DEFINE v == volume[ch]
           f == hours[ch]
           g == buckets[ch]
           c == ChannelCount(ch)
<1>1. /\ v \in Seq(Nat) /\ Len(v) = Days /\ f \in [Hours -> Nat] /\ g \in [ChartBuckets -> Nat]
      /\ SumOf(f) = SumOf(v) /\ SumOf(g) = SumOf(v)
  BY DEF ChartsInv
<1>2. c = SumOf(v)
  BY DEF ChannelCount
<1>3. Days \in Nat /\ IsFiniteSet(Hours) /\ IsFiniteSet(ChartBuckets) /\ IsFiniteSet(1..Days)
  BY DaysCounted, HoursFinite, Names, UpTo
<1> HIDE DEF v, f, g, c
<1>4. DOMAIN v = 1..Days /\ \A d \in 1..Days : v[d] \in Nat
  BY <1>1
<1>5. \A h \in Hours : f[h] \in Nat
  BY <1>1
<1>6. \A b \in ChartBuckets : g[b] \in Nat
  BY <1>1
<1>7. SumOf(v) = SumOver(v, 1..Days) /\ SumOf(f) = SumOver(f, Hours) /\ SumOf(g) = SumOver(g, ChartBuckets)
  BY <1>1, <1>4, SumOfIs
<1>8. SumOver(v, 1..Days) \in Nat /\ \A d \in 1..Days : v[d] <= SumOver(v, 1..Days)
  BY <1>3, <1>4, SumNat, PartBelowSum
<1>9. \A h \in Hours : f[h] <= SumOver(f, Hours)
  BY <1>3, <1>5, PartBelowSum
<1>10. \A b \in ChartBuckets : g[b] <= SumOver(g, ChartBuckets)
  BY <1>3, <1>6, PartBelowSum
<1>11. /\ c \in Nat /\ c = SumOver(v, 1..Days) /\ c = SumOver(f, Hours) /\ c = SumOver(g, ChartBuckets)
       /\ c = SumOf(g)
       /\ \A d \in 1..Days : v[d] <= c
       /\ \A h \in Hours : f[h] <= c
       /\ \A b \in ChartBuckets : g[b] <= c
  BY <1>1, <1>2, <1>7, <1>8, <1>9, <1>10
<1> QED BY <1>1, <1>4, <1>11 DEF CountsOf, v, f, g, c

\* The channels with a conversation, each once.
Active == {ch \in ChartChannels : ChannelCount(ch) > 0}

LEMMA ActiveOnce ==
  ASSUME ChartsConstants, ChartsInv
  PROVE  LET n == Len(ActiveChannels)
         IN  /\ n \in Nat /\ DOMAIN ActiveChannels = 1..n /\ ActiveChannels \in Bijection(1..n, Active)
             /\ \A k \in 1..n : ActiveChannels[k] \in Active
             /\ Range(ActiveChannels) = Active /\ IsFiniteSet(Active) /\ Cardinality(Active) = n
             /\ Days > 0 => n >= 1
<1> DEFINE P == {i \in DOMAIN ChannelOrder : ChannelCount(ChannelOrder[i]) > 0}
           K == Cardinality(P)
           a == ActiveChannels
<1>1. a = Keep(ChannelOrder, P)
  BY DEF ActiveChannels
<1>2. DOMAIN ChannelOrder = 1..3 /\ (\A i, j \in 1..3 : ChannelOrder[i] = ChannelOrder[j] => i = j)
  BY Names
<1>3. \A x : x \in ChartChannels <=> \E i \in 1..3 : ChannelOrder[i] = x
  BY <1>2 DEF ChartChannels, Range
<1>4. P \subseteq 1..3 /\ {ChannelOrder[i] : i \in P} = Active
  BY <1>2, <1>3 DEF Active
<1>5. IsFiniteSet(P) /\ P \subseteq Int
  <2>1. 3 \in Nat
    OBVIOUS
  <2>2. IsFiniteSet(1..3)
    BY <2>1, UpTo
  <2> HIDE DEF P
  <2>3. IsFiniteSet(P)
    BY <1>4, <2>2, FS_Subset
  <2> QED BY <1>4, <2>3
<1> HIDE DEF P, K, a
<1>6. Listed(ChannelOrder, P, K, InOrder(P), a)
  BY <1>1, <1>5, KeepListed DEF K
<1>7. \A i, j \in P : ChannelOrder[i] = ChannelOrder[j] => i = j
  BY <1>2, <1>4
<1>8. K \in Nat /\ DOMAIN a = 1..K /\ Len(a) = K /\ a \in Bijection(1..K, Active)
  <2>1. /\ K \in Nat /\ DOMAIN a = 1..K /\ Len(a) = K
        /\ a \in Bijection(1..K, {ChannelOrder[i] : i \in P})
    BY ONLY <1>6, <1>7, KeepOnce
  <2> QED BY <1>4, <2>1
<1>9. IsFiniteSet(Active)
  BY Names, FS_Subset DEF Active
<1>10. Cardinality(Active) = K
  <2>1. ExistsBijection(1..K, Active)
    BY <1>8 DEF ExistsBijection
  <2> QED BY <1>8, <1>9, <2>1, FS_CountingElements
<1>11. Range(a) = Active /\ \A k \in 1..K : a[k] \in Active
  <2> DEFINE I == 1..K
  <2>1. a \in Bijection(I, Active) /\ DOMAIN a = I
    BY <1>8
  <2> HIDE DEF I
  <2>2. a \in [I -> Active] /\ \A x \in Active : \E i \in I : a[i] = x
    BY ONLY <2>1, BijectionFacts
  <2>3. Range(a) = Active
    BY <2>1, <2>2 DEF Range
  <2> QED BY <2>2, <2>3 DEF I
<1>12. Days > 0 => K >= 1
  <2> SUFFICES ASSUME Days > 0 PROVE K >= 1
    OBVIOUS
  <2>1. PICK ch \in ChartChannels : ChannelCount(ch) > 0
    BY DEF ChartsInv, ChannelCount
  <2>2. ch \in Active
    BY <2>1 DEF Active
  <2>3. PICK i \in 1..K : a[i] = ch
    BY <1>8, <1>11, <2>2 DEF Range
  <2> QED BY <1>8, <2>3
<1> QED BY <1>8, <1>9, <1>10, <1>11, <1>12 DEF a

\* What is zero may be left out of a sum.
LEMMA SumWithoutZeros ==
  ASSUME NEW f, NEW S, IsFiniteSet(S), NEW Q, Q \subseteq S, \A x \in S : f[x] \in Int, \A x \in S \ Q : f[x] = 0
  PROVE  SumOver(f, Q) = SumOver(f, S)
<1> DEFINE Others == S \ Q
<1>1. IsFiniteSet(Others) /\ IsFiniteSet(Q) /\ Q \cup Others = S /\ Q \cap Others = {}
  <2>1. Others \subseteq S /\ Q \cup Others = S /\ Q \cap Others = {}
    OBVIOUS
  <2> HIDE DEF Others
  <2> QED BY <2>1, FS_Subset
<1>2. (\A x \in Q \cup Others : f[x] \in Int) /\ (\A x \in Others : f[x] = 0) /\ (\A x \in Q : f[x] \in Int)
  OBVIOUS
<1> HIDE DEF Others
<1>3. SumOver(f, Q \cup Others) = SumOver(f, Q) + SumOver(f, Others)
  BY <1>1, <1>2, SumSplit
<1>4. SumOver(f, Others) = 0
  BY <1>1, <1>2, SumOfZeros
<1>5. SumOver(f, Q) \in Int
  BY <1>1, <1>2, SumTakeOut
<1>6. SumOver(f, Q \cup Others) = SumOver(f, S)
  BY <1>1
<1> QED BY ONLY <1>3, <1>4, <1>5, <1>6

\* A sum over the channels may leave out those without a conversation.
LEMMA SumActive ==
  ASSUME ChartsConstants, ChartsInv, NEW f, \A ch \in ChartChannels : f[ch] \in Int,
         \A ch \in ChartChannels : ChannelCount(ch) = 0 => f[ch] = 0,
         NEW g, \A k \in 1..Len(ActiveChannels) : g[k] = f[ActiveChannels[k]]
  PROVE  SumOver(g, 1..Len(ActiveChannels)) = SumOver(f, ChartChannels) /\ SumOver(f, Active) = SumOver(f, ChartChannels)
<1> DEFINE n == Len(ActiveChannels)
           I == 1..n
           a == ActiveChannels
<1>1. n \in Nat /\ a \in Bijection(I, Active) /\ IsFiniteSet(Active)
  BY ActiveOnce
<1>2. IsFiniteSet(ChartChannels) /\ Active \subseteq ChartChannels
  BY Names DEF Active
<1>4. \A ch \in ChartChannels \ Active : f[ch] = 0
  <2> SUFFICES ASSUME NEW ch \in ChartChannels \ Active PROVE f[ch] = 0
    OBVIOUS
  <2>1. ChannelCount(ch) \in Nat /\ ~(ChannelCount(ch) > 0)
    BY EachChannel DEF Active, CountsOf
  <2> QED BY <2>1
<1>5. IsFiniteSet(I)
  BY <1>1, UpTo
<1>6. \A i \in I : g[i] = f[a[i]]
  OBVIOUS
<1> HIDE DEF I, a
<1>7. SumOver(g, I) = SumOver(f, Active)
  <2>1. \A x \in Active : f[x] \in Int
    BY <1>2
  <2> QED BY ONLY <1>1, <1>5, <1>6, <2>1, SumRenamed
<1>8. SumOver(f, Active) = SumOver(f, ChartChannels)
  BY <1>2, <1>4, SumWithoutZeros
<1> QED BY <1>7, <1>8 DEF I

\* Every conversation is counted in one channel, on one day and in one time bucket.
LEMMA Totals ==
  ASSUME ChartsConstants, ChartsInv
  PROVE  /\ TotalVolume \in Nat /\ TotalVolume = SumOver([ch \in ChartChannels |-> ChannelCount(ch)], ChartChannels)
         /\ Days > 0 => TotalVolume > 0
         /\ \A ch \in ChartChannels : ChannelCount(ch) <= TotalVolume
         /\ LocalCounts \in Seq(Nat) /\ Len(LocalCounts) = Days /\ DOMAIN LocalCounts = 1..Days
         /\ \A d \in 1..Days : LocalCounts[d] \in Nat
         /\ TotalBuckets \in [ChartBuckets -> Nat] /\ SumOf(TotalBuckets) = TotalVolume
<1> DEFINE c == [ch \in ChartChannels |-> ChannelCount(ch)]
           row == [ch \in ChartChannels |-> volume[ch]]
           column == [d \in 1..Days |-> [ch \in ChartChannels |-> volume[ch][d]]]
           t == LocalCounts
           parts == [ch \in ChartChannels |-> buckets[ch]]
           cell == [b \in ChartBuckets |-> [ch \in ChartChannels |-> buckets[ch][b]]]
           tb == TotalBuckets
           D == 1..Days
<1>1. Days \in Nat /\ IsFiniteSet(D) /\ IsFiniteSet(ChartChannels) /\ IsFiniteSet(ChartBuckets)
  BY DaysCounted, UpTo, Names
<1>2. \A ch \in ChartChannels : CountsOf(ch)
  BY EachChannel
<1>3. \A ch \in ChartChannels : c[ch] \in Nat /\ c[ch] = SumOver(row[ch], D) /\ c[ch] = SumOver(parts[ch], ChartBuckets)
  BY <1>2 DEF CountsOf
<1>4. ASSUME NEW d \in D PROVE t[d] = SumOver(column[d], ChartChannels) /\ t[d] \in Nat
  <2> DEFINE f == [ch \in ChartChannels |-> volume[ch][d]]
  <2>1. t[d] = SumOf(f) /\ DOMAIN f = ChartChannels /\ column[d] = f
    BY DEF LocalCounts
  <2>2. \A ch \in ChartChannels : f[ch] \in Nat
    BY <1>2 DEF CountsOf
  <2> HIDE DEF f, t, column
  <2>3. SumOf(f) = SumOver(f, ChartChannels) /\ SumOver(f, ChartChannels) \in Nat
    BY <1>1, <2>1, <2>2, SumOfIs, SumNat
  <2> QED BY <2>1, <2>3
<1>5. ASSUME NEW b \in ChartBuckets PROVE tb[b] = SumOver(cell[b], ChartChannels) /\ tb[b] \in Nat
  <2> DEFINE f == [ch \in ChartChannels |-> buckets[ch][b]]
  <2>1. tb[b] = SumOf(f) /\ DOMAIN f = ChartChannels /\ cell[b] = f
    BY DEF TotalBuckets
  <2>2. \A ch \in ChartChannels : f[ch] \in Nat
    BY <1>2 DEF CountsOf
  <2> HIDE DEF f, tb, cell
  <2>3. SumOf(f) = SumOver(f, ChartChannels) /\ SumOver(f, ChartChannels) \in Nat
    BY <1>1, <2>1, <2>2, SumOfIs, SumNat
  <2> QED BY <2>1, <2>3
<1>6. \A ch \in ChartChannels : \A d \in D : row[ch][d] \in Int /\ column[d][ch] = row[ch][d]
  BY <1>2 DEF CountsOf
<1>7. \A ch \in ChartChannels : \A b \in ChartBuckets : parts[ch][b] \in Int /\ cell[b][ch] = parts[ch][b]
  BY <1>2 DEF CountsOf
<1>8. t = [d \in D |-> t[d]] /\ tb = [b \in ChartBuckets |-> tb[b]] /\ DOMAIN t = D /\ DOMAIN tb = ChartBuckets
  BY DEF LocalCounts, TotalBuckets
<1>9. TotalVolume = SumOf(t)
  BY DEF TotalVolume
<1> HIDE DEF c, row, column, t, parts, cell, tb
<1>10. SumOver(c, ChartChannels) = SumOver(t, D)
  <2>1. /\ \A ch \in ChartChannels : c[ch] = SumOver(row[ch], D)
        /\ \A d \in D : t[d] = SumOver(column[d], ChartChannels)
    BY <1>3, <1>4
  <2> HIDE DEF D
  <2>2. Table(ChartChannels, D, row, column, c, t)
    BY ONLY <1>1, <1>6, <2>1 DEF Table
  <2> QED BY ONLY <2>2, RowsAndColumns
<1>11. SumOver(c, ChartChannels) = SumOver(tb, ChartBuckets)
  <2>1. /\ \A ch \in ChartChannels : c[ch] = SumOver(parts[ch], ChartBuckets)
        /\ \A b \in ChartBuckets : tb[b] = SumOver(cell[b], ChartChannels)
    BY <1>3, <1>5
  <2>2. Table(ChartChannels, ChartBuckets, parts, cell, c, tb)
    BY ONLY <1>1, <1>7, <2>1 DEF Table
  <2> QED BY ONLY <2>2, RowsAndColumns
<1>12. SumOf(t) = SumOver(t, D) /\ SumOf(tb) = SumOver(tb, ChartBuckets)
  BY <1>8, SumOfIs
<1>13. SumOver(c, ChartChannels) \in Nat /\ \A ch \in ChartChannels : c[ch] <= SumOver(c, ChartChannels)
  <2>1. \A ch \in ChartChannels : c[ch] \in Nat
    BY <1>3
  <2> QED BY ONLY <1>1, <2>1, SumNat, PartBelowSum
<1>14. TotalVolume = SumOver(c, ChartChannels) /\ SumOf(tb) = TotalVolume
  BY <1>9, <1>10, <1>11, <1>12
<1>15. \A ch \in ChartChannels : c[ch] = ChannelCount(ch)
  BY DEF c
<1>16. Days > 0 => TotalVolume > 0
  <2> SUFFICES ASSUME Days > 0 PROVE TotalVolume > 0
    OBVIOUS
  <2>1. PICK ch \in ChartChannels : ChannelCount(ch) > 0
    BY DEF ChartsInv, ChannelCount
  <2> QED BY <1>3, <1>13, <1>14, <1>15, <2>1
<1>17. t \in Seq(Nat) /\ Len(t) = Days
  <2>1. t \in [D -> Nat]
    BY <1>4, <1>8
  <2> QED BY <1>1, <2>1
<1>18. tb \in [ChartBuckets -> Nat]
  BY <1>5, <1>8
<1>19. \A ch \in ChartChannels : ChannelCount(ch) <= TotalVolume
  BY <1>13, <1>14, <1>15
<1>20. TotalVolume \in Nat /\ TotalVolume = SumOver([ch \in ChartChannels |-> ChannelCount(ch)], ChartChannels)
  BY <1>13, <1>14 DEF c
<1> QED BY <1>4, <1>8, <1>14, <1>16, <1>17, <1>18, <1>19, <1>20 DEF t, tb, D

\* Conversations of each hour.
LEMMA HourCounts ==
  ASSUME ChartsConstants, ChartsInv
  PROVE  /\ \A h : HourCount(h) \in Nat
         /\ \A h \in Hours : \A ch \in ChartChannels : hours[ch][h] \in Nat
         /\ \A h \in Hours : HourCount(h) = SumOver([ch \in ChartChannels |-> hours[ch][h]], ChartChannels)
<1>1. \A h \in Hours : \A ch \in ChartChannels : hours[ch][h] \in Nat
  BY EachChannel DEF CountsOf
<1>2. ASSUME NEW h \in Hours
      PROVE  HourCount(h) = SumOver([ch \in ChartChannels |-> hours[ch][h]], ChartChannels) /\ HourCount(h) \in Nat
  <2> DEFINE f == [ch \in ChartChannels |-> hours[ch][h]]
  <2>1. HourCount(h) = SumOf(f) /\ DOMAIN f = ChartChannels /\ \A ch \in ChartChannels : f[ch] \in Nat
    BY <1>1 DEF HourCount
  <2> HIDE DEF f
  <2>2. SumOf(f) = SumOver(f, ChartChannels) /\ SumOver(f, ChartChannels) \in Nat
    BY <2>1, Names, SumOfIs, SumNat
  <2> QED BY <2>1, <2>2 DEF f
<1>3. \A h : h \notin Hours => HourCount(h) \in Nat
  BY DEF HourCount
<1> QED BY <1>1, <1>2, <1>3

-------------------------------------------------------------------------------
(* The volume charts *)

\* The days shown, with the conversations of all and of each channel on them.
LEMMA DaysShown ==
  ASSUME ChartsConstants, ChartsInv, Days > 0
  PROVE  /\ AllDays \in Nat \ {0} /\ CountsByDay \in Seq(Nat)
         /\ Len(CountsByDay) = AllDays /\ DOMAIN CountsByDay = 1..AllDays
         /\ \A d \in 1..AllDays : CountsByDay[d] \in Nat
         /\ ~FromDashboard => CountsByDay = LocalCounts /\ AllDays = Days
         /\ LocalShown => \A d \in 1..Days : PlaceOf(d) \in 1..AllDays
         /\ \A ch \in ChartChannels :
              /\ Len(Aligned(ch)) = AllDays /\ DOMAIN Aligned(ch) = 1..AllDays
              /\ \A d \in 1..AllDays : Aligned(ch)[d] \in Nat /\ Aligned(ch)[d] <= ChannelCount(ch)
              /\ \A d \in 1..AllDays :
                   Aligned(ch)[d] = 0 \/ \E e \in 1..Days : volume[ch][e] = Aligned(ch)[d]
              /\ LocalShown => \A d \in 1..Days : Aligned(ch)[PlaceOf(d)] = volume[ch][d]
              /\ LocalShown => SumOf(Aligned(ch)) = ChannelCount(ch)
<1>1. /\ Days \in Nat \ {0} /\ LocalCounts \in Seq(Nat) /\ Len(LocalCounts) = Days /\ DOMAIN LocalCounts = 1..Days
      /\ \A d \in 1..Days : LocalCounts[d] \in Nat
  BY DaysCounted, Totals
<1>2. /\ dashboard.counts \in Seq(Nat) /\ dashboard.place \in 0..Len(dashboard.counts)
      /\ Len(dashboard.counts) \in Nat /\ DOMAIN dashboard.counts = 1..Len(dashboard.counts)
      /\ \A d \in 1..Len(dashboard.counts) : dashboard.counts[d] \in Nat
      /\ dashboard.counts # <<>> => Len(dashboard.counts) > 0
  <2>1. dashboard.counts \in Seq(Nat) /\ dashboard.place \in 0..Len(dashboard.counts)
    BY DEF ChartsInv, ChartsConstants
  <2> QED BY <2>1
<1>3. ASSUME NEW ch \in ChartChannels
      PROVE  /\ Len(volume[ch]) = Days /\ DOMAIN volume[ch] = 1..Days
             /\ \A d \in 1..Days : volume[ch][d] \in Nat /\ volume[ch][d] <= ChannelCount(ch)
             /\ ChannelCount(ch) = SumOver(volume[ch], 1..Days) /\ ChannelCount(ch) \in Nat
             /\ SumOf(volume[ch]) = ChannelCount(ch)
  BY EachChannel DEF CountsOf, ChannelCount
<1>4. CASE FromDashboard
  <2>1. Days = 1 /\ CountsByDay = dashboard.counts /\ AllDays = Len(dashboard.counts) /\ AllDays \in Nat \ {0}
    BY <1>2, <1>4 DEF FromDashboard, CountsByDay, AllDays
  <2>2. LocalShown => \A d \in 1..Days : PlaceOf(d) = dashboard.place /\ dashboard.place \in 1..AllDays
    BY <1>2, <1>4, <2>1 DEF LocalShown, PlaceOf
  <2>3. ASSUME NEW ch \in ChartChannels
        PROVE  /\ Len(Aligned(ch)) = AllDays /\ DOMAIN Aligned(ch) = 1..AllDays
               /\ \A d \in 1..AllDays : Aligned(ch)[d] \in Nat /\ Aligned(ch)[d] <= ChannelCount(ch)
               /\ \A d \in 1..AllDays :
                    Aligned(ch)[d] = 0 \/ \E e \in 1..Days : volume[ch][e] = Aligned(ch)[d]
               /\ LocalShown => \A d \in 1..Days : Aligned(ch)[PlaceOf(d)] = volume[ch][d]
               /\ LocalShown => SumOf(Aligned(ch)) = ChannelCount(ch)
    <3> DEFINE a == Aligned(ch)
               n == AllDays
               x == volume[ch][1]
               place == dashboard.place
    <3>1. DOMAIN a = 1..n /\ Len(a) = n /\ \A d \in 1..n : a[d] = IF d = place THEN x ELSE 0
      BY <1>4, <2>1 DEF Aligned
    <3>2. x \in Nat /\ x <= ChannelCount(ch) /\ 1 \in 1..Days /\ \A d \in 1..Days : d = 1
      BY <1>3, <2>1
    <3>3. ChannelCount(ch) = x
      <4> DEFINE v == volume[ch]
      <4>1. ChannelCount(ch) = SumOver(v, 1..1) /\ 1..1 = {1} /\ v[1] = x
        BY <1>3, <2>1
      <4>2. v[1] \in Int
        BY <3>2, <4>1
      <4> HIDE DEF v, x
      <4>3. IsFiniteSet({1}) /\ 1 \in {1} /\ {1} \ {1} = {} /\ \A y \in {1} : v[y] \in Int
        <5>1. IsFiniteSet({1})
          BY FS_Singleton
        <5> QED BY <4>2, <5>1
      <4>4. SumOver(v, {}) = 0 /\ \A y \in {1} : SumOver(v, {1}) = v[y] + SumOver(v, {1} \ {y})
        BY ONLY <4>3, SumTakeOut
      <4>5. SumOver(v, {1}) = v[1] + SumOver(v, {})
        BY <4>3, <4>4
      <4> QED BY <3>2, <4>1, <4>4, <4>5
    <3>4. ASSUME LocalShown PROVE SumOf(a) = x
      <4>1. place \in 1..n
        BY <2>1, <2>2, <3>2, <3>4
      <4>2. IsFiniteSet(1..n)
        BY <2>1, UpTo
      <4> HIDE DEF a, n, x, place
      <4>3. \A d \in 1..n : a[d] \in Int
        BY <3>1, <3>2
      <4>4. SumOver(a, 1..n) = a[place] + SumOver(a, (1..n) \ {place})
        <5> DEFINE I == 1..n
        <5>1. IsFiniteSet(I) /\ place \in I /\ \A d \in I : a[d] \in Int
          BY <4>1, <4>2, <4>3
        <5> HIDE DEF I
        <5>2. \A d \in I : SumOver(a, I) = a[d] + SumOver(a, I \ {d})
          BY ONLY <5>1, SumTakeOut
        <5> QED BY <5>1, <5>2 DEF I
      <4>5. SumOver(a, (1..n) \ {place}) = 0
        <5>1. IsFiniteSet((1..n) \ {place}) /\ \A d \in (1..n) \ {place} : a[d] = 0
          BY <3>1, <4>2, FS_Subset
        <5> QED BY <5>1, SumOfZeros
      <4>6. SumOf(a) = SumOver(a, 1..n)
        BY <3>1, SumOfIs
      <4> QED BY <3>1, <3>2, <4>1, <4>4, <4>5, <4>6
    <3>5. LocalShown => \A d \in 1..Days : a[PlaceOf(d)] = volume[ch][d]
      BY <2>1, <2>2, <3>1, <3>2
    <3> HIDE DEF a, n, x
    <3>6. \A d \in 1..n : a[d] \in Nat /\ a[d] <= ChannelCount(ch) /\ (a[d] = 0 \/ x = a[d])
      BY <3>1, <3>2, <3>3
    <3> QED BY <3>1, <3>2, <3>3, <3>4, <3>5, <3>6 DEF a, n, x
  <2> QED BY <1>2, <1>4, <2>1, <2>2, <2>3
<1>5. CASE ~FromDashboard
  <2>1. /\ CountsByDay = LocalCounts /\ AllDays = Days /\ \A d : PlaceOf(d) = d
        /\ \A ch : Aligned(ch) = volume[ch]
    BY <1>1, <1>5 DEF CountsByDay, AllDays, PlaceOf, Aligned
  <2> QED BY <1>1, <1>3, <1>5, <2>1
<1> QED BY <1>4, <1>5

\* The values of a day by day count, its largest one and the days that have it.
LEMMA CurveOf ==
  ASSUME NEW n \in Nat \ {0}, NEW tally, DOMAIN tally = 1..n, \A d \in 1..n : tally[d] \in Nat
  PROVE  /\ Largest(tally) \in Nat /\ \A d \in 1..n : tally[d] <= Largest(tally)
         /\ Peaks(tally) \subseteq 1..n /\ \A d \in Peaks(tally) : tally[d] = Largest(tally)
         /\ Peaks(tally) # {} /\ Min(Peaks(tally)) \in Peaks(tally)
         /\ SumOver(tally, 1..n) > 0 => Largest(tally) > 0
<1>1. IsFiniteSet(1..n) /\ 1 \in 1..n
  BY UpTo
<1>2. /\ Largest(tally) \in Nat /\ \A d \in 1..n : tally[d] <= Largest(tally)
      /\ \E d \in 1..n : tally[d] = Largest(tally)
  <2>1. DOMAIN tally # {} /\ IsFiniteSet(DOMAIN tally)
    BY <1>1
  <2> QED BY <2>1, LargestIs
<1>3. Peaks(tally) \subseteq 1..n /\ (\A d \in Peaks(tally) : tally[d] = Largest(tally)) /\ Peaks(tally) # {}
  BY <1>2 DEF Peaks
<1>4. Min(Peaks(tally)) \in Peaks(tally)
  <2>1. Peaks(tally) \subseteq Nat
    BY <1>3
  <2> QED BY <1>3, <2>1, LeastElement
<1>5. ASSUME SumOver(tally, 1..n) > 0 PROVE Largest(tally) > 0
  <2> SUFFICES ASSUME Largest(tally) = 0 PROVE FALSE
    BY <1>2
  <2>1. \A d \in 1..n : tally[d] = 0
    BY <1>2
  <2>2. SumOver(tally, 1..n) = 0
    BY <1>1, <2>1, SumOfZeros
  <2> QED BY <1>5, <2>2
<1> QED BY <1>2, <1>3, <1>4, <1>5

\* The scale of a chart.
LEMMA ScaleIs ==
  ASSUME NEW S, IsFiniteSet(S), S \subseteq Nat
  PROVE  /\ Max({1} \cup S) \in Nat \ {0} /\ \A x \in S : x <= Max({1} \cup S)
         /\ (\E x \in S : x > 0) => Max({1} \cup S) \in S
         /\ Max({1} \cup S) = 1 \/ Max({1} \cup S) \in S
<1> DEFINE T == {1} \cup S
<1>1. IsFiniteSet(T) /\ T \subseteq Int /\ T # {} /\ 1 \in T /\ S \subseteq T
  <2>1. IsFiniteSet({1})
    BY FS_Singleton
  <2>2. IsFiniteSet(T)
    BY <2>1, FS_Union
  <2> QED BY <2>2
<1>2. \A x \in T : x = 1 \/ x \in S
  OBVIOUS
<1> HIDE DEF T
<1>3. Max(T) \in T /\ \A y \in T : y <= Max(T)
  BY <1>1, Extremes
<1>4. Max(T) >= 1 /\ Max(T) \in Nat \ {0} /\ \A x \in S : x <= Max(T)
  <2>1. 1 <= Max(T) /\ \A x \in S : x <= Max(T)
    BY <1>1, <1>3
  <2>2. Max(T) \in Nat
    <3>1. \A x \in T : x \in Nat
      <4> TAKE x \in T
      <4>1. x = 1 \/ x \in S
        BY <1>2
      <4>2. \A y \in S : y \in Nat
        OBVIOUS
      <4>3. 1 \in Nat
        OBVIOUS
      <4> QED BY ONLY <4>1, <4>2, <4>3, Zenon
    <3> QED BY ONLY <1>3, <3>1
  <2> QED BY <2>1, <2>2
<1>5. ASSUME NEW x \in S, x > 0 PROVE Max(T) \in S
  <2>1. x <= Max(T) /\ x \in Nat
    BY <1>4
  <2>2. CASE Max(T) = 1
    <3>1. x = Max(T)
      BY <1>5, <2>1, <2>2
    <3> QED BY <3>1
  <2> QED BY <1>2, <1>3, <2>2
<1>6. Max(T) = 1 \/ Max(T) \in S
  BY <1>2, <1>3
<1> QED BY <1>4, <1>5, <1>6 DEF T

\* The scale of the channels, and a chart in which the channels come in this order.
Share == Max({1} \cup {Largest(Aligned(ch)) : ch \in ChartChannels})

LineFor(line, ch, k) ==
  /\ line.channel = ch /\ line.marked = (Largest(Aligned(ch)) > 0)
  /\ line.badge = Badge(Aligned(ch), Min(Peaks(Aligned(ch))), 10 + 22 * (k - 1), Share, 56, 1264, 390, 356)
  /\ CurveFor(line.points, Aligned(ch), AllDays, 1264, Share, 356)

Drawn(order) ==
  LET n == Len(ActiveChannels)
  IN  /\ \A k \in 1..n : order[k] \in Active
      /\ \A ch \in Active : \E k \in 1..n : order[k] = ch
      /\ \A k \in 1..n : Largest(Aligned(order[k])) <= Largest(Aligned(order[n]))
      /\ ChannelChart.ticks = Ticks(Share, 356) /\ ChannelChart.labels = SelectLabels(AllDays, 56, 1264)
      /\ DOMAIN ChannelChart.series = 1..n /\ Len(ChannelChart.series) = n
      /\ \A k \in 1..n : LineFor(ChannelChart.series[k], order[k], k)

\* The largest count of a channel.
LEMMA LocalPeaks ==
  ASSUME ChartsConstants, ChartsInv, Days > 0, NEW ch \in ChartChannels
  PROVE  /\ Largest(volume[ch]) \in Nat /\ \A d \in 1..Days : volume[ch][d] <= Largest(volume[ch])
         /\ Peaks(volume[ch]) \subseteq 1..Days /\ \A d \in Peaks(volume[ch]) : volume[ch][d] = Largest(volume[ch])
         /\ Peaks(volume[ch]) # {} /\ Min(Peaks(volume[ch])) \in Peaks(volume[ch])
         /\ ChannelCount(ch) > 0 => Largest(volume[ch]) > 0
<1> DEFINE v == volume[ch]
           n == Days
<1>1. /\ DOMAIN v = 1..n /\ \A d \in 1..n : v[d] \in Nat
      /\ ChannelCount(ch) = SumOver(v, 1..n)
  BY EachChannel DEF CountsOf
<1>2. n \in Nat \ {0}
  BY DaysCounted
<1> HIDE DEF v, n
<1>3. /\ Largest(v) \in Nat /\ \A d \in 1..n : v[d] <= Largest(v)
      /\ Peaks(v) \subseteq 1..n /\ \A d \in Peaks(v) : v[d] = Largest(v)
      /\ Peaks(v) # {} /\ Min(Peaks(v)) \in Peaks(v)
      /\ SumOver(v, 1..n) > 0 => Largest(v) > 0
  BY <1>1, <1>2, CurveOf
<1> QED BY <1>1, <1>3 DEF v, n

\* It is the largest of its curve, if the chart shows the days of the conversations.
LEMMA LargestShown ==
  ASSUME ChartsConstants, ChartsInv, Days > 0, LocalShown, NEW ch \in ChartChannels
  PROVE  Largest(Aligned(ch)) = Largest(volume[ch])
<1> DEFINE v == volume[ch]
           a == Aligned(ch)
           n == AllDays
<1>1. /\ n \in Nat \ {0} /\ DOMAIN a = 1..n /\ \A d \in 1..n : a[d] \in Nat
      /\ \A d \in 1..n : a[d] = 0 \/ \E e \in 1..Days : v[e] = a[d]
      /\ \A d \in 1..Days : PlaceOf(d) \in 1..n /\ a[PlaceOf(d)] = v[d]
  BY DaysShown
<1>2. /\ Largest(v) \in Nat /\ \A d \in 1..Days : v[d] <= Largest(v)
      /\ \E d \in 1..Days : v[d] = Largest(v)
  <2>1. /\ Largest(v) \in Nat /\ \A d \in 1..Days : v[d] <= Largest(v)
        /\ Peaks(v) \subseteq 1..Days /\ Peaks(v) # {} /\ \A d \in Peaks(v) : v[d] = Largest(v)
    BY LocalPeaks
  <2> HIDE DEF v
  <2> QED BY <2>1
<1> HIDE DEF v, a, n
<1>3. /\ Largest(a) \in Nat /\ \A d \in 1..n : a[d] <= Largest(a)
      /\ \E d \in 1..n : a[d] = Largest(a)
  <2>1. n \in Nat /\ 1 \in 1..n /\ DOMAIN a = 1..n
    BY <1>1
  <2>2. IsFiniteSet(1..n)
    BY ONLY <2>1, UpTo
  <2>3. DOMAIN a # {} /\ IsFiniteSet(DOMAIN a)
    BY ONLY <2>1, <2>2
  <2> QED BY <1>1, <2>3, LargestIs
<1>4. Largest(v) <= Largest(a)
  BY <1>1, <1>2, <1>3
<1>5. Largest(a) <= Largest(v)
  <2>1. PICK d \in 1..n : a[d] = Largest(a)
    BY <1>3
  <2>2. a[d] = 0 \/ \E e \in 1..Days : v[e] = a[d]
    BY <1>1
  <2> QED BY <1>2, <2>1, <2>2
<1>6. Largest(a) = Largest(v)
  BY <1>2, <1>3, <1>4, <1>5
<1> QED BY <1>6 DEF a, v

\* The largest point of a channel's curve.
LEMMA ChannelPeaks ==
  ASSUME ChartsConstants, ChartsInv, Days > 0
  PROVE  /\ AllDays \in Nat \ {0}
         /\ \A ch \in ChartChannels :
              /\ Largest(Aligned(ch)) \in Nat /\ \A d \in 1..AllDays : Aligned(ch)[d] <= Largest(Aligned(ch))
              /\ Peaks(Aligned(ch)) \subseteq 1..AllDays
              /\ \A d \in Peaks(Aligned(ch)) : Aligned(ch)[d] = Largest(Aligned(ch))
              /\ Peaks(Aligned(ch)) # {} /\ Min(Peaks(Aligned(ch))) \in Peaks(Aligned(ch))
              /\ ChannelCount(ch) = 0 => Largest(Aligned(ch)) = 0
         /\ Share \in Nat \ {0} /\ \A ch \in ChartChannels : Largest(Aligned(ch)) <= Share
         /\ LocalShown => \E ch \in Active : Largest(Aligned(ch)) = Share
         /\ Max({1} \cup {Largest(Aligned(ch)) : ch \in Active}) = Share
<1>1. AllDays \in Nat \ {0}
  BY DaysShown
<1>2. ASSUME NEW ch \in ChartChannels
      PROVE  /\ Largest(Aligned(ch)) \in Nat /\ \A d \in 1..AllDays : Aligned(ch)[d] <= Largest(Aligned(ch))
             /\ Peaks(Aligned(ch)) \subseteq 1..AllDays
             /\ \A d \in Peaks(Aligned(ch)) : Aligned(ch)[d] = Largest(Aligned(ch))
             /\ Peaks(Aligned(ch)) # {} /\ Min(Peaks(Aligned(ch))) \in Peaks(Aligned(ch))
             /\ ChannelCount(ch) = 0 => Largest(Aligned(ch)) = 0
  <2> DEFINE v == Aligned(ch)
             n == AllDays
  <2>1. DOMAIN v = 1..n /\ \A d \in 1..n : v[d] \in Nat /\ v[d] <= ChannelCount(ch)
    BY DaysShown
  <2> HIDE DEF v, n
  <2>2. n \in Nat \ {0}
    BY <1>1 DEF n
  <2>3. /\ Largest(v) \in Nat /\ \A d \in 1..n : v[d] <= Largest(v)
        /\ Peaks(v) \subseteq 1..n /\ \A d \in Peaks(v) : v[d] = Largest(v)
        /\ Peaks(v) # {} /\ Min(Peaks(v)) \in Peaks(v)
    BY <2>1, <2>2, CurveOf
  <2>4. ChannelCount(ch) = 0 => Largest(v) = 0
    <3>1. PICK d \in Peaks(v) : TRUE
      BY <2>3
    <3>2. v[d] = Largest(v) /\ v[d] \in Nat /\ v[d] <= ChannelCount(ch)
      BY <2>1, <2>3
    <3> QED BY <3>2
  <2> QED BY <2>1, <2>3, <2>4 DEF v, n
<1> DEFINE S == {Largest(Aligned(ch)) : ch \in ChartChannels}
           A == {Largest(Aligned(ch)) : ch \in Active}
<1>3. IsFiniteSet(S) /\ S \subseteq Nat /\ IsFiniteSet(A) /\ A \subseteq S /\ A \subseteq Nat
  <2> DEFINE g == [ch \in ChartChannels |-> Largest(Aligned(ch))]
  <2>1. Range(g) = S /\ DOMAIN g = ChartChannels
    BY DEF Range
  <2> HIDE DEF g
  <2>2. IsFiniteSet(S)
    BY <2>1, Names, RangeFinite
  <2>3. S \subseteq Nat
    BY <1>2
  <2>4. A \subseteq S
    BY DEF Active
  <2>5. IsFiniteSet(A)
    <3> HIDE DEF A, S
    <3> QED BY <2>2, <2>4, FS_Subset
  <2> HIDE DEF A, S
  <2> QED BY <2>2, <2>3, <2>4, <2>5
<1>4. \A x \in S : x \in A \/ x = 0
  <2> SUFFICES ASSUME NEW ch \in ChartChannels, Largest(Aligned(ch)) # 0 PROVE ch \in Active
    OBVIOUS
  <2>1. ChannelCount(ch) \in Nat /\ ChannelCount(ch) # 0
    BY <1>2, EachChannel DEF CountsOf
  <2> QED BY <2>1 DEF Active
<1>5. \A ch \in ChartChannels : Largest(Aligned(ch)) \in S
  OBVIOUS
<1>6. Share = Max({1} \cup S) /\ \A x \in A : \E ch \in Active : Largest(Aligned(ch)) = x
  BY DEF Share
<1>7. ASSUME LocalShown PROVE \E x \in A : x > 0
  <2>1. PICK some \in Active : TRUE
    BY ActiveOnce
  <2>2. some \in ChartChannels /\ ChannelCount(some) > 0
    BY DEF Active
  <2>3. Largest(Aligned(some)) > 0
    BY <1>7, <2>2, LocalPeaks, LargestShown
  <2> QED BY <2>1, <2>3
<1> HIDE DEF S, A
<1>8. /\ Max({1} \cup S) \in Nat \ {0} /\ \A x \in S : x <= Max({1} \cup S)
      /\ Max({1} \cup S) = 1 \/ Max({1} \cup S) \in S
  BY <1>3, ScaleIs
<1>9. /\ Max({1} \cup A) \in Nat \ {0} /\ \A x \in A : x <= Max({1} \cup A)
      /\ (\E x \in A : x > 0) => Max({1} \cup A) \in A
      /\ Max({1} \cup A) = 1 \/ Max({1} \cup A) \in A
  BY <1>3, ScaleIs
<1>10. Max({1} \cup A) = Max({1} \cup S)
  <2> DEFINE p == Max({1} \cup A)
             q == Max({1} \cup S)
  <2> HIDE DEF p, q
  <2>1. /\ p \in Nat \ {0} /\ q \in Nat \ {0} /\ (p = 1 \/ p \in A) /\ (q = 1 \/ q \in S)
        /\ (\A x \in A : x <= p) /\ (\A x \in S : x <= q)
    BY <1>8, <1>9 DEF p, q
  <2>2. (q = 1 \/ q \in A) /\ (p = 1 \/ p \in S)
    BY <1>3, <1>4, <2>1
  <2>3. p <= q /\ q <= p
    BY <2>1, <2>2
  <2>4. p = q
    BY <2>1, <2>3
  <2> QED BY <2>4 DEF p, q
<1>11. /\ Share \in Nat \ {0} /\ \A ch \in ChartChannels : Largest(Aligned(ch)) <= Share
       /\ Max({1} \cup A) = Share /\ (LocalShown => \E ch \in Active : Largest(Aligned(ch)) = Share)
  <2>1. LocalShown => Share \in A
    BY <1>6, <1>7, <1>9, <1>10
  <2>2. \A ch \in ChartChannels : Largest(Aligned(ch)) <= Share
    BY <1>5, <1>6, <1>8
  <2> QED BY <1>6, <1>8, <1>10, <2>1, <2>2
<1> QED BY <1>1, <1>2, <1>11 DEF A

LEMMA ChartDrawn == ASSUME ChartsConstants, ChartsInv, Days > 0 PROVE \E order : Drawn(order)
<1> DEFINE a == ActiveChannels
           n == Len(a)
           I == 1..n
           top == Max({1} \cup {Largest(Aligned(ch)) : ch \in Range(a)})
           peak == [k \in DOMAIN a |-> Largest(Aligned(a[k]))]
           R == {x \in (DOMAIN a) \X (DOMAIN a) :
                  peak[x[1]] < peak[x[2]] \/ (peak[x[1]] = peak[x[2]] /\ x[1] < x[2])}
           places == Ordered(DOMAIN a, R)
           order == [k \in DOMAIN places |-> a[places[k]]]
<1>1. /\ n \in Nat /\ DOMAIN a = I /\ Range(a) = Active /\ n >= 1
      /\ \A k \in I : a[k] \in Active
  BY ActiveOnce
<1>2. top = Share
  BY <1>1, ChannelPeaks
<1>3. \A k \in I : peak[k] = Largest(Aligned(a[k])) /\ peak[k] \in Nat
  BY <1>1, ChannelPeaks DEF Active
<1> DEFINE Drawing(scale) == [series |-> [k \in DOMAIN order |->
         [channel |-> order[k],
          points |-> [d \in 1..AllDays |-> [x |-> PlotX(d - 1, AllDays, 56, 1264),
                                         height |-> Height(Aligned(order[k])[d], scale, 356)]],
          marked |-> Largest(Aligned(order[k])) > 0,
          badge |-> Badge(Aligned(order[k]), Min(Peaks(Aligned(order[k]))), 10 + 22 * (k - 1), scale,
                          56, 1264, 390, 356)]],
       ticks |-> Ticks(scale, 356),
       labels |-> SelectLabels(AllDays, 56, 1264)]
<1>4. ChannelChart = Drawing(Share)
  <2>1. ChannelChart = Drawing(top)
    BY DEF ChannelChart
  <2> HIDE DEF Drawing, top
  <2> QED BY <1>2, <2>1
<1>5. R = {x \in I \X I : peak[x[1]] < peak[x[2]] \/ (peak[x[1]] = peak[x[2]] /\ x[1] < x[2])}
  BY <1>1
<1>6. places = Ordered(I, R)
  BY <1>1
<1>7. order = [k \in DOMAIN places |-> a[places[k]]]
  OBVIOUS
<1> HIDE DEF a, peak, R, places, order, n
<1>8. \A i, j \in I : <<i, j>> \in R <=> peak[i] < peak[j] \/ (peak[i] = peak[j] /\ i < j)
  BY <1>5
<1>9. StrictOrder(I, R)
  <2>1. \A i \in I : peak[i] \in Int /\ i \in Int
    BY <1>1, <1>3
  <2>2. \A i \in I : <<i, i>> \notin R
    BY <1>8, <2>1
  <2>3. \A i, j, k \in I : <<i, j>> \in R /\ <<j, k>> \in R => <<i, k>> \in R
    BY <1>8, <2>1
  <2>4. \A i, j \in I : i # j => <<i, j>> \in R \/ <<j, i>> \in R
    BY <1>8, <2>1
  <2> QED BY <2>2, <2>3, <2>4 DEF StrictOrder
<1>10. IsFiniteSet(I) /\ Cardinality(I) = n
  BY <1>1, UpTo
<1> HIDE DEF I
<1>11. /\ DOMAIN places = 1..Cardinality(I)
       /\ places \in Bijection(1..Cardinality(I), I)
       /\ \A i, j \in 1..Cardinality(I) : i < j => <<places[i], places[j]>> \in R
  BY ONLY <1>6, <1>9, <1>10, OrderedLists
<1>12. DOMAIN places = I /\ places \in Bijection(I, I) /\ \A i, j \in I : i < j => <<places[i], places[j]>> \in R
  BY <1>10, <1>11 DEF I
<1>13. /\ \A i \in I : places[i] \in I
       /\ \A j \in I : \E i \in I : places[i] = j
  BY ONLY <1>12, BijectionFacts
<1>14. DOMAIN order = I /\ \A k \in I : order[k] = a[places[k]]
  BY <1>7, <1>12
<1>15. \A k \in I : order[k] \in Active
  BY <1>1, <1>13, <1>14
<1>16. ASSUME NEW ch \in Active PROVE \E k \in I : order[k] = ch
  <2>1. PICK j \in I : a[j] = ch
    BY <1>1, <1>16 DEF Range
  <2>2. PICK k \in I : places[k] = j
    BY <1>13
  <2> QED BY <1>14, <2>1, <2>2
<1>17. n \in I /\ \A k \in I : k \in Int /\ (k < n \/ k = n)
  BY <1>1 DEF I
<1>18. \A k \in I : Largest(Aligned(order[k])) = peak[places[k]] /\ peak[places[k]] \in Nat
  BY <1>3, <1>13, <1>14
<1>19. ASSUME NEW k \in I PROVE Largest(Aligned(order[k])) <= Largest(Aligned(order[n]))
  <2>1. peak[places[k]] <= peak[places[n]]
    <3>1. CASE k = n
      BY <1>18, <3>1
    <3>2. CASE k < n
      <4>1. <<places[k], places[n]>> \in R
        BY <1>12, <1>17, <3>2
      <4>2. peak[places[k]] < peak[places[n]] \/ peak[places[k]] = peak[places[n]]
        BY <1>8, <1>13, <1>17, <4>1
      <4>3. peak[places[k]] \in Nat /\ peak[places[n]] \in Nat
        BY <1>17, <1>18
      <4> QED BY <4>2, <4>3
    <3> QED BY <1>17, <3>1, <3>2
  <2> QED BY <1>17, <1>18, <2>1
<1> DEFINE Curve(ch) == [d \in 1..AllDays |-> [x |-> PlotX(d - 1, AllDays, 56, 1264),
                                            height |-> Height(Aligned(ch)[d], Share, 356)]]
           Mark(ch, k) == Badge(Aligned(ch), Min(Peaks(Aligned(ch))), 10 + 22 * (k - 1), Share, 56, 1264, 390, 356)
<1>20. \A ch : CurveFor(Curve(ch), Aligned(ch), AllDays, 1264, Share, 356)
  BY DEF CurveFor
<1>21. ChannelChart = [series |-> [k \in I |-> [channel |-> order[k], points |-> Curve(order[k]),
                                                marked |-> Largest(Aligned(order[k])) > 0,
                                                badge |-> Mark(order[k], k)]],
                       ticks |-> Ticks(Share, 356), labels |-> SelectLabels(AllDays, 56, 1264)]
  BY <1>4, <1>14
<1>22. \A ch, k : Mark(ch, k) = Badge(Aligned(ch), Min(Peaks(Aligned(ch))), 10 + 22 * (k - 1), Share, 56, 1264, 390, 356)
  OBVIOUS
<1> HIDE DEF Curve, Mark
<1> DEFINE series == [k \in I |-> [channel |-> order[k], points |-> Curve(order[k]),
                                   marked |-> Largest(Aligned(order[k])) > 0, badge |-> Mark(order[k], k)]]
<1>23. /\ ChannelChart.ticks = Ticks(Share, 356) /\ ChannelChart.labels = SelectLabels(AllDays, 56, 1264)
       /\ ChannelChart.series = series
  BY <1>21
<1>24. /\ DOMAIN series = I
       /\ \A k \in I : /\ series[k].channel = order[k] /\ series[k].points = Curve(order[k])
                       /\ series[k].marked = (Largest(Aligned(order[k])) > 0)
                       /\ series[k].badge = Mark(order[k], k)
  OBVIOUS
<1> HIDE DEF series
<1>25. Len(series) = n
  BY <1>1, <1>24 DEF I
<1>26. \A k \in I : LineFor(series[k], order[k], k)
  BY <1>20, <1>22, <1>24 DEF LineFor
<1>27. I = 1..Len(ActiveChannels) /\ n = Len(ActiveChannels)
  BY DEF I, n, a
<1>28. Drawn(order)
  BY <1>15, <1>16, <1>19, <1>23, <1>24, <1>25, <1>26, <1>27 DEF Drawn
<1> QED BY <1>28

LEMMA VolumeHolds == ASSUME ChartsConstants, ChartsInv, Days > 0 PROVE VolumeHonest
<1> DEFINE n == AllDays
           tally == CountsByDay
           top == Max({1, Largest(tally)})
           all == VolumeChart(tally, 1)
           series == ChannelChart.series
           m == Len(ActiveChannels)
<1>1. /\ n \in Nat \ {0} /\ tally \in Seq(Nat) /\ Len(tally) = n /\ DOMAIN tally = 1..n
      /\ \A d \in 1..n : tally[d] \in Nat
  BY DaysShown
<1>2. /\ Largest(tally) \in Nat /\ Peaks(tally) \subseteq 1..n
      /\ Peaks(tally) # {}
  <2> HIDE DEF tally, n
  <2> QED BY <1>1, CurveOf
<1>3. top \in Nat \ {0} /\ Largest(tally) <= top
  <2> DEFINE l == Largest(tally)
  <2>1. l \in Int /\ 1 \in Int
    BY <1>2
  <2> HIDE DEF l
  <2>2. Max({1, l}) = IF 1 >= l THEN 1 ELSE l
    BY ONLY <2>1, OfTwo
  <2>3. top = Max({1, l}) /\ l = Largest(tally) /\ l \in Nat
    BY <1>2 DEF l
  <2> HIDE DEF top, tally
  <2> QED BY <2>2, <2>3
<1>4. /\ CurveFor(all.points, tally, n, 1260, top, 248)
      /\ all.ticks = Ticks(top, 248) /\ all.labels = SelectLabels(n, 56, 1260)
  <2> DEFINE points == [d \in DOMAIN tally |-> [x |-> PlotX(d - 1, Len(tally), 56, 1260),
                                                 height |-> Height(tally[d], top, 248)]]
             badge == Badge(tally, 1, 10, top, 56, 1260, 300, 248)
  <2>1. all = [points |-> points, ticks |-> Ticks(top, 248),
               labels |-> SelectLabels(Len(tally), 56, 1260), badge |-> badge]
    BY DEF VolumeChart
  <2>2. CurveFor(points, tally, n, 1260, top, 248)
    <3> HIDE DEF tally, n, top
    <3> QED BY <1>1 DEF CurveFor
  <2> HIDE DEF points, badge, tally, top, all, n
  <2> QED BY <1>1, <2>1, <2>2
<1>5. /\ LabelsReadable(all.labels, 56, 1260) /\ LabelsReadable(ChannelChart.labels, 56, 1264)
  <2>1. 56 \in Nat /\ 1260 \in Nat /\ 1264 \in Nat /\ 56 + 56 <= 1260 /\ 56 + 56 <= 1264
    OBVIOUS
  <2>2. /\ LabelsReadable(SelectLabels(AllDays, 56, 1260), 56, 1260)
        /\ LabelsReadable(SelectLabels(AllDays, 56, 1264), 56, 1264)
    BY ONLY <1>1, <2>1, LabelsHold
  <2>3. ChannelChart.labels = SelectLabels(AllDays, 56, 1264)
    BY ChartDrawn DEF Drawn
  <2> HIDE DEF all
  <2> QED BY <1>4, <2>2, <2>3
<1>6. Share \in Nat \ {0} /\ \A ch \in ChartChannels : Largest(Aligned(ch)) <= Share
  BY ChannelPeaks
<1>7. TicksReadable(all.ticks, top, 248) /\ TicksReadable(ChannelChart.ticks, Share, 356)
  <2>1. 248 \in Nat \ {0} /\ 356 \in Nat \ {0}
    OBVIOUS
  <2> HIDE DEF all, top
  <2>2. TicksReadable(Ticks(top, 248), top, 248) /\ TicksReadable(Ticks(Share, 356), Share, 356)
    BY ONLY <1>3, <1>6, <2>1, TicksHold
  <2>3. ChannelChart.ticks = Ticks(Share, 356)
    BY ChartDrawn DEF Drawn
  <2> QED BY <1>4, <2>2, <2>3
<1>8. ASSUME NEW peak \in Peaks(tally)
      PROVE  BadgeHonest(Badge(tally, peak, 10, top, 56, 1260, 300, 248), all.points, 1260)
  <2> DEFINE points == all.points
  <2>1. 248 \in Nat \ {0} /\ 1260 \in Nat /\ 1260 >= 144
    OBVIOUS
  <2>2. CurveFor(points, tally, n, 1260, top, 248)
    BY <1>4
  <2> HIDE DEF points, all, top, tally, n
  <2>3. BadgeHonest(Badge(tally, peak, 10, top, 56, 1260, 300, 248), points, 1260)
    BY ONLY <1>1, <1>3, <1>8, <2>1, <2>2, BadgeHolds, SMTT(20)
  <2> QED BY <2>3 DEF points
<1>9. PICK order : Drawn(order)
  BY ChartDrawn
<1>10. /\ m \in Nat /\ m >= 1 /\ DOMAIN series = 1..m /\ Len(series) = m
  BY <1>9, ActiveOnce DEF Drawn
<1>11. ASSUME NEW k \in 1..m PROVE BadgeHonest(series[k].badge, series[k].points, 1264)
  <2> DEFINE v == Aligned(order[k])
             points == series[k].points
             gap == 10 + 22 * (k - 1)
             d == Min(Peaks(v))
  <2>1. order[k] \in ChartChannels
    BY <1>9 DEF Drawn, Active
  <2>2. Len(v) = n /\ DOMAIN v = 1..n /\ \A x \in 1..n : v[x] \in Nat
    BY <2>1, DaysShown
  <2>3. Largest(v) <= Share /\ d \in Peaks(v)
    BY <2>1, ChannelPeaks
  <2>4. /\ series[k].badge = Badge(v, d, gap, Share, 56, 1264, 390, 356)
        /\ CurveFor(points, v, n, 1264, Share, 356)
    BY <1>9 DEF Drawn, LineFor
  <2>5. 356 \in Nat \ {0} /\ 1264 \in Nat /\ 1264 >= 144
    OBVIOUS
  <2> HIDE DEF v, points, gap, d, n, series
  <2>6. BadgeHonest(Badge(v, d, gap, Share, 56, 1264, 390, 356), points, 1264)
    BY ONLY <1>1, <1>6, <2>2, <2>3, <2>4, <2>5, BadgeHolds, SMTT(20)
  <2> QED BY <2>4, <2>6 DEF points
<1>12. ASSUME LocalShown
       PROVE  LET drawnLast == Last(series)
              IN  drawnLast.marked /\ drawnLast.points[drawnLast.badge.day].height = 356
  <2> DEFINE ch == order[m]
             v == Aligned(ch)
             d == Min(Peaks(v))
             line == series[m]
  <2>1. m \in 1..m
    BY <1>10
  <2>2. ch \in Active /\ ch \in ChartChannels
    BY <1>9, <2>1 DEF Drawn, Active
  <2>3. d \in Peaks(v) /\ d \in 1..n /\ v[d] = Largest(v)
    BY <2>2, ChannelPeaks
  <2>4. Largest(v) = Share
    <3>1. PICK best \in Active : Largest(Aligned(best)) = Share
      BY <1>12, ChannelPeaks
    <3>2. PICK k \in 1..m : order[k] = best
      BY <1>9 DEF Drawn
    <3>3. Share <= Largest(v)
      BY <1>9, <3>1, <3>2 DEF Drawn
    <3>4. Largest(v) <= Share /\ Largest(v) \in Nat /\ Share \in Nat
      BY <2>2, ChannelPeaks
    <3> QED BY <3>3, <3>4
  <2>5. line.badge = Badge(v, d, 10 + 22 * (m - 1), Share, 56, 1264, 390, 356)
        /\ line.marked = (Largest(v) > 0) /\ line.points[d].height = Height(v[d], Share, 356)
    <3>1. LineFor(line, ch, m)
      BY <1>9, <2>1 DEF Drawn
    <3> HIDE DEF line, ch
    <3> QED BY <2>3, <3>1 DEF LineFor, CurveFor
  <2>6. line.badge.day = d
    <3> HIDE DEF line
    <3> QED BY <2>5 DEF Badge
  <2>7. Height(Share, Share, 356) = 356
    <3>1. 356 \in Nat \ {0}
      OBVIOUS
    <3> QED BY <1>6, <3>1, HeightsInOrder
  <2>8. Last(series) = line
    BY <1>10 DEF Last
  <2> HIDE DEF line, d, v
  <2>9. line.marked
    <3>1. Largest(v) > 0
      BY <1>6, <2>4
    <3> QED BY <2>5, <3>1
  <2> QED BY <2>3, <2>4, <2>5, <2>6, <2>7, <2>8, <2>9
<1>13. LET legend == SumOf([k \in DOMAIN ChannelLegend |-> ChannelLegend[k].total])
       IN  /\ ~FromDashboard => legend = SumOf(CountsByDay)
           /\ LocalShown => legend = SumOf([ch \in ChartChannels |-> SumOf(Aligned(ch))])
  <2> DEFINE g == [k \in DOMAIN ChannelLegend |-> ChannelLegend[k].total]
             f == [ch \in ChartChannels |-> ChannelCount(ch)]
             I == 1..m
  <2>1. DOMAIN ActiveChannels = 1..m /\ \A k \in 1..m : ActiveChannels[k] \in ChartChannels
    BY ActiveOnce DEF Active
  <2>2. DOMAIN g = 1..m /\ \A k \in 1..m : g[k] = ChannelCount(ActiveChannels[k])
    BY <2>1 DEF ChannelLegend
  <2>3. \A k \in 1..m : g[k] = f[ActiveChannels[k]]
    BY <2>1, <2>2
  <2>4. \A ch \in ChartChannels : f[ch] \in Int /\ f[ch] = ChannelCount(ch)
    BY EachChannel DEF CountsOf
  <2> HIDE DEF g, f
  <2>5. SumOver(g, 1..m) = SumOver(f, ChartChannels)
    BY <2>3, <2>4, SumActive
  <2>6. SumOf(g) = SumOver(g, 1..m)
    BY <2>2, SumOfIs
  <2>7. SumOver(f, ChartChannels) = TotalVolume
    BY Totals DEF f
  <2>8. SumOf(g) = SumOf(LocalCounts)
    BY <2>5, <2>6, <2>7 DEF TotalVolume
  <2>9. ~FromDashboard => SumOf(g) = SumOf(CountsByDay)
    BY <2>8, DaysShown
  <2>10. ASSUME LocalShown PROVE SumOf(g) = SumOf([ch \in ChartChannels |-> SumOf(Aligned(ch))])
    <3> DEFINE h == [ch \in ChartChannels |-> SumOf(Aligned(ch))]
    <3>1. DOMAIN h = ChartChannels /\ \A ch \in ChartChannels : h[ch] = f[ch]
      BY <2>4, <2>10, DaysShown
    <3> HIDE DEF h
    <3>2. SumOver(h, ChartChannels) = SumOver(f, ChartChannels)
      <4>1. \A ch \in ChartChannels : h[ch] \in Int /\ h[ch] = f[ch]
        BY <2>4, <3>1
      <4> QED BY <4>1, Names, SumEqual
    <3>3. SumOf(h) = SumOver(h, ChartChannels)
      BY <3>1, SumOfIs
    <3> QED BY <2>5, <2>6, <3>2, <3>3 DEF h
  <2> QED BY <2>9, <2>10 DEF g
<1>14. \A k \in DOMAIN series :
          series[k].marked => BadgeHonest(series[k].badge, series[k].points, 1264)
  BY <1>10, <1>11
<1>15. \A peak \in Peaks(tally) :
          BadgeHonest(Badge(tally, peak, 10, top, 56, 1260, 300, 248), all.points, 1260)
  BY <1>8
<1>16. LocalShown => LET drawnLast == Last(series)
                     IN  drawnLast.marked /\ drawnLast.points[drawnLast.badge.day].height = 356
  BY <1>12
<1> HIDE DEF n, m
<1> QED BY ONLY <1>5, <1>7, <1>13, <1>14, <1>15, <1>16, ZenonT(30) DEF VolumeHonest, Share

-------------------------------------------------------------------------------
(* The hours *)

LEMMA HoursHold == ASSUME ChartsConstants, ChartsInv, Days > 0 PROVE HoursHonest
<1> SUFFICES ASSUME NEW peak \in PeakHours, NEW g \in 0..23, NEW h \in 0..23,
                    0 < HourBars(peak)[g].count, HourBars(peak)[g].count <= HourBars(peak)[h].count
             PROVE  /\ HourBars(peak)[g].height <= HourBars(peak)[h].height
                    /\ HourBars(peak)[g].count < HourBars(peak)[h].count =>
                         \/ HourBars(peak)[g].shade >= HourBars(peak)[h].shade
                         \/ g = peak /\ 10 * (HourBars(peak)[h].count - HourBars(peak)[g].count) <= Days
  BY DEF HoursHonest
<1> DEFINE top == Max({1} \cup {HourCount(x) : x \in Hours})
           Bar(x) == HourBars(peak)[x]
           Shade(x) == IF x = peak /\ HourCount(x) > 0 THEN 0
                       ELSE IF 10 * HourCount(x) >= 6 * top THEN 1
                       ELSE IF 10 * HourCount(x) >= 3 * top THEN 2
                       ELSE 3
           c == HourCount(g)
           d == HourCount(h)
<1>1. \A x : HourCount(x) \in Nat
  BY HourCounts
<1>2. top \in Nat \ {0}
  <2> DEFINE S == {HourCount(x) : x \in Hours}
             f == [x \in Hours |-> HourCount(x)]
  <2>1. S = Range(f) /\ DOMAIN f = Hours /\ S \subseteq Nat
    BY <1>1 DEF Range
  <2> HIDE DEF S, f
  <2>2. IsFiniteSet(S)
    BY <2>1, HoursFinite, RangeFinite
  <2>3. Max({1} \cup S) \in Nat \ {0}
    BY <2>1, <2>2, ScaleIs
  <2> QED BY <2>3 DEF S
<1>3. \A x \in 0..23 : /\ Bar(x).count = HourCount(x)
                       /\ Bar(x).height = IF HourCount(x) > 0 THEN 224 * HourCount(x) ELSE 3 * top
                       /\ Bar(x).shade = Shade(x)
  BY DEF HourBars
<1>4. Bar(g).count = c /\ Bar(h).count = d
  BY <1>3
<1> HIDE DEF top
<1>5. c \in Nat /\ d \in Nat /\ 0 < c /\ c <= d
  BY <1>1, <1>4
<1>6. Bar(g).height = 224 * c /\ Bar(h).height = 224 * d
  <2>1. HourCount(g) > 0 /\ HourCount(h) > 0
    BY <1>5
  <2> HIDE DEF Bar
  <2> QED BY <1>3, <2>1
<1>7. Bar(g).shade = Shade(g) /\ Bar(h).shade = Shade(h)
  BY <1>3
<1> HIDE DEF Bar
<1>8. 224 * c <= 224 * d
  <2> HIDE DEF c, d
  <2> QED BY <1>5
<1>9. CASE g # peak
  <2>1. Shade(g) = IF 10 * c >= 6 * top THEN 1 ELSE IF 10 * c >= 3 * top THEN 2 ELSE 3
    BY <1>9
  <2>2. Shade(h) = 0 \/ Shade(h) = IF 10 * d >= 6 * top THEN 1 ELSE IF 10 * d >= 3 * top THEN 2 ELSE 3
    OBVIOUS
  <2> HIDE DEF c, d, Shade
  <2>3. Shade(g) >= Shade(h)
    BY <1>2, <1>5, <2>1, <2>2
  <2> QED BY <1>6, <1>7, <1>8, <2>3 DEF Bar
<1>10. CASE g = peak
  <2>1. h \in Hours /\ HourCount(h) > 0
    BY <1>5 DEF HourCount
  <2>2. AverageOfHour(h) <= AverageOfHour(g)
    BY <1>10, <2>1 DEF PeakHours
  <2>3. RoundDiv(10 * d, Days) <= RoundDiv(10 * c, Days)
    BY <2>2 DEF AverageOfHour
  <2>4. Days \in Nat \ {0}
    BY DaysCounted
  <2> HIDE DEF c, d
  <2>5. 10 * (d - c) <= Days
    BY <1>5, <2>3, <2>4, AveragesNear
  <2> QED BY <1>4, <1>6, <1>8, <1>10, <2>5 DEF Bar
<1> QED BY <1>9, <1>10

-------------------------------------------------------------------------------
(* The office hours *)

\* A list of all keys, each once.
Keys(order, S) ==
  /\ Len(order) \in Nat /\ DOMAIN order = 1..Len(order)
  /\ \A k \in 1..Len(order) : order[k] \in S
  /\ \A b \in S : \E k \in 1..Len(order) : order[k] = b
  /\ \A i, j \in 1..Len(order) : order[i] = order[j] => i = j

\* The parts and the keys that occur.
PartsAre(parts, present, K, tally, labelled) ==
  /\ K \in Nat /\ DOMAIN parts = 1..K /\ Len(parts) = K
  /\ present \in Bijection(1..K, {b \in DOMAIN tally : tally[b] > 0})
  /\ \A k \in 1..K :
       /\ parts[k].key = present[k]
       /\ parts[k].from = SumOf([j \in 1..(k - 1) |-> tally[present[j]]])
       /\ parts[k].to = parts[k].from + tally[present[k]]
       /\ parts[k].percent = Percent(tally[present[k]], SumOf(tally))
       /\ parts[k].labelled <=> present[k] \in labelled

LEMMA PartsListed ==
  ASSUME NEW S, NEW tally \in [S -> Nat], NEW order, Keys(order, S), NEW labelled
  PROVE  \E present, K : PartsAre(PartsOf(tally, order, labelled), present, K, tally, labelled)
<1> DEFINE P == {k \in DOMAIN order : tally[order[k]] > 0}
           present == Keep(order, P)
           Before1(k) == SumOf([j \in 1..(k - 1) |-> tally[present[j]]])
           parts == [k \in DOMAIN present |->
                      [key |-> present[k], from |-> Before1(k), to |-> Before1(k) + tally[present[k]],
                       percent |-> Percent(tally[present[k]], SumOf(tally)),
                       labelled |-> present[k] \in labelled]]
           K == Cardinality(P)
           m == Len(order)
           Q == {b \in DOMAIN tally : tally[b] > 0}
<1>1. PartsOf(tally, order, labelled) = parts
  BY DEF PartsOf
<1>2. /\ m \in Nat /\ DOMAIN order = 1..m
      /\ \A k \in 1..m : order[k] \in S
      /\ \A b \in S : \E k \in 1..m : order[k] = b
      /\ \A i, j \in 1..m : order[i] = order[j] => i = j
  BY DEF Keys
<1>3. P \subseteq 1..m /\ \A i \in P : order[i] \in Q
  BY <1>2
<1>4. Q = {order[i] : i \in P}
  BY <1>2
<1>5. IsFiniteSet(P) /\ P \subseteq Int
  <2> HIDE DEF P, m
  <2>1. IsFiniteSet(1..m)
    BY <1>2, UpTo
  <2>2. IsFiniteSet(P)
    BY <1>3, <2>1, FS_Subset
  <2>3. P \subseteq Int
    BY <1>3
  <2> QED BY <2>2, <2>3
<1>6. \A i, j \in P : order[i] = order[j] => i = j
  BY <1>2, <1>3
<1>7. present = Keep(order, P)
  OBVIOUS
<1>8. parts = [k \in DOMAIN present |->
                [key |-> present[k], from |-> Before1(k), to |-> Before1(k) + tally[present[k]],
                 percent |-> Percent(tally[present[k]], SumOf(tally)), labelled |-> present[k] \in labelled]]
  OBVIOUS
<1> HIDE DEF P, K, present, Q, parts, m
<1>9. Listed(order, P, K, InOrder(P), present)
  BY <1>5, <1>7, KeepListed DEF K
<1>10. K \in Nat /\ DOMAIN present = 1..K /\ Len(present) = K /\ present \in Bijection(1..K, Q)
  BY <1>4, <1>6, <1>9, KeepOnce
<1>11. DOMAIN parts = 1..K /\ Len(parts) = K
  BY <1>8, <1>10
<1>12. ASSUME NEW k \in 1..K
       PROVE  /\ parts[k].key = present[k] /\ parts[k].from = Before1(k)
              /\ parts[k].to = parts[k].from + tally[present[k]]
              /\ parts[k].percent = Percent(tally[present[k]], SumOf(tally))
              /\ parts[k].labelled <=> present[k] \in labelled
  <2> DEFINE part == [key |-> present[k], from |-> Before1(k), to |-> Before1(k) + tally[present[k]],
                      percent |-> Percent(tally[present[k]], SumOf(tally)), labelled |-> present[k] \in labelled]
  <2>1. parts[k] = part
    BY <1>8, <1>10
  <2> HIDE DEF Before1
  <2>2. /\ part.key = present[k] /\ part.from = Before1(k) /\ part.to = Before1(k) + tally[present[k]]
        /\ part.percent = Percent(tally[present[k]], SumOf(tally))
        /\ part.labelled = (present[k] \in labelled)
    OBVIOUS
  <2> HIDE DEF part
  <2> QED BY <2>1, <2>2
<1>13. PartsAre(parts, present, K, tally, labelled)
  BY <1>10, <1>11, <1>12 DEF PartsAre, Q
<1> QED BY <1>1, <1>13

\* The parts fill the whole, in one piece after the other.
LEMMA PartsHold ==
  ASSUME NEW S, IsFiniteSet(S), NEW tally \in [S -> Nat], NEW order, Keys(order, S), NEW labelled,
         \A b, c \in S : b \in labelled /\ c \notin labelled => tally[c] <= tally[b]
  PROVE  PartsHonest(PartsOf(tally, order, labelled), SumOf(tally))
<1> DEFINE parts == PartsOf(tally, order, labelled)
           w == SumOf(tally)
           Q == {b \in S : tally[b] > 0}
<1>1. PICK present, K : PartsAre(parts, present, K, tally, labelled)
  BY PartsListed
<1> DEFINE g == [j \in 1..K |-> tally[present[j]]]
           B(k) == SumOf([j \in 1..(k - 1) |-> tally[present[j]]])
           I == 1..K
<1>2. /\ K \in Nat /\ DOMAIN parts = 1..K /\ Len(parts) = K
      /\ present \in Bijection(I, Q)
      /\ \A k \in 1..K :
           /\ parts[k].from = B(k)
           /\ parts[k].to = parts[k].from + tally[present[k]]
           /\ parts[k].percent = Percent(tally[present[k]], w)
           /\ parts[k].labelled <=> present[k] \in labelled
  BY <1>1 DEF PartsAre
<1> HIDE DEF parts
<1>3. w = SumOver(tally, S) /\ w \in Nat /\ \A b \in S : tally[b] \in Nat
  <2>1. DOMAIN tally = S /\ \A b \in S : tally[b] \in Nat
    OBVIOUS
  <2> HIDE DEF w
  <2>2. w = SumOver(tally, S)
    BY <2>1, SumOfIs DEF w
  <2> QED BY <2>1, <2>2, SumNat
<1>4. \A k \in 1..K : present[k] \in Q /\ present[k] \in S
  <2> HIDE DEF I, Q
  <2>1. present \in [I -> Q]
    BY ONLY <1>2, BijectionFacts
  <2> QED BY <2>1 DEF I, Q
<1>5. \A k \in 1..K : g[k] = tally[present[k]] /\ g[k] \in Nat
  BY <1>3, <1>4
<1>6. ASSUME NEW k \in 1..(K + 1) PROVE B(k) = SumOver(g, 1..(k - 1)) /\ SumOver(g, 1..(k - 1)) \in Nat
  <2> DEFINE e == [j \in 1..(k - 1) |-> tally[present[j]]]
             J == 1..(k - 1)
  <2>1. \A j \in J : j \in 1..K
    BY <1>2
  <2>2. DOMAIN e = J /\ \A j \in J : e[j] = g[j] /\ e[j] \in Nat /\ g[j] \in Nat
    BY <1>5, <2>1
  <2>3. IsFiniteSet(J)
    <3>1. k - 1 \in Nat
      BY <1>2
    <3> QED BY <3>1, UpTo
  <2>4. B(k) = SumOf(e)
    OBVIOUS
  <2> HIDE DEF e, J, g, B
  <2>5. SumOf(e) = SumOver(e, J)
    BY <2>2, SumOfIs
  <2>6. SumOver(e, J) = SumOver(g, J)
    <3>1. \A j \in J : e[j] \in Int /\ e[j] = g[j]
      BY <2>2
    <3> QED BY <2>3, <3>1, SumEqual
  <2>7. SumOver(g, J) \in Nat
    BY <2>2, <2>3, SumNat
  <2> QED BY <2>4, <2>5, <2>6, <2>7 DEF J
<1>7. SumOver(g, I) = w
  <2>1. IsFiniteSet(I) /\ \A k \in I : g[k] = tally[present[k]]
    BY <1>2, <1>5, UpTo
  <2>2. Q \subseteq S /\ (\A b \in S : tally[b] \in Int) /\ (\A b \in Q : tally[b] \in Int)
        /\ \A b \in S \ Q : tally[b] = 0
    BY <1>3
  <2> HIDE DEF I, g, Q, w
  <2>3. SumOver(g, I) = SumOver(tally, Q)
    BY ONLY <1>2, <2>1, <2>2, SumRenamed
  <2>4. SumOver(tally, Q) = SumOver(tally, S)
    BY <2>2, SumWithoutZeros
  <2> QED BY <1>3, <2>3, <2>4
<1> HIDE DEF g, B, w, Q
<1>8. ASSUME NEW k \in 1..K PROVE B(k) + g[k] = SumOver(g, 1..k)
  <2> DEFINE J == 1..k
  <2>1. J \ {k} = 1..(k - 1) /\ k \in J /\ (\A j \in J : j \in 1..K) /\ k \in Nat /\ k \in 1..(K + 1)
    BY <1>2
  <2>2. \A j \in J : g[j] \in Int
    BY <1>5, <2>1
  <2>3. IsFiniteSet(J)
    BY <2>1, UpTo
  <2> HIDE DEF J
  <2>4. SumOver(g, J) = g[k] + SumOver(g, J \ {k})
    BY <2>1, <2>2, <2>3, SumTakeOut
  <2>5. B(k) = SumOver(g, J \ {k}) /\ B(k) \in Nat /\ g[k] \in Nat
    BY <1>5, <1>6, <2>1
  <2> QED BY <2>4, <2>5 DEF J
<1>9. ASSUME w > 0 PROVE K >= 1
  <2> SUFFICES ASSUME K = 0 PROVE FALSE
    BY <1>2
  <2>1. I = {}
    BY <1>2
  <2>2. SumOver(g, {}) = 0
    BY SumTakeOut, FS_EmptySet
  <2> QED BY <1>7, <1>9, <2>1, <2>2
<1>10. w > 0 => parts[1].from = 0 /\ Last(parts).to = w
  <2> SUFFICES ASSUME w > 0 PROVE parts[1].from = 0 /\ Last(parts).to = w
    OBVIOUS
  <2>1. K \in 1..K /\ 1 \in 1..K /\ 1 \in 1..(K + 1) /\ 1..(1 - 1) = {}
    BY <1>2, <1>9
  <2>2. parts[1].from = 0
    <3>1. parts[1].from = B(1) /\ B(1) = SumOver(g, 1..(1 - 1))
      BY <1>2, <1>6, <2>1
    <3>2. SumOver(g, {}) = 0
      BY SumTakeOut, FS_EmptySet
    <3> QED BY <2>1, <3>1, <3>2
  <2>3. parts[K].to = w
    <3>1. parts[K].to = B(K) + g[K]
      BY <1>2, <1>5, <2>1
    <3> QED BY <1>7, <1>8, <2>1, <3>1
  <2> QED BY <1>2, <2>2, <2>3 DEF Last
<1>11. ASSUME NEW k \in 1..(Len(parts) - 1) PROVE parts[k].to = parts[k + 1].from
  <2>1. k \in 1..K /\ k + 1 \in 1..K /\ k + 1 \in 1..(K + 1) /\ (k + 1) - 1 = k
    BY <1>2
  <2>2. parts[k].to = B(k) + g[k]
    BY <1>2, <1>5, <2>1
  <2>3. parts[k + 1].from = B(k + 1)
    BY <1>2, <2>1
  <2>4. B(k + 1) = SumOver(g, 1..((k + 1) - 1))
    BY <1>6, <2>1
  <2> QED BY <1>8, <2>1, <2>2, <2>3, <2>4
<1>12. ASSUME w > 0
       PROVE LET sum == SumOf([k \in DOMAIN parts |-> parts[k].percent])
             IN  2 * (sum - 1000) <= Len(parts) /\ 2 * (1000 - sum) <= Len(parts)
  <2> DEFINE p == [k \in DOMAIN parts |-> parts[k].percent]
  <2>1. DOMAIN p = I /\ \A k \in I : g[k] \in Int /\ p[k] = RoundDiv(1000 * g[k], w)
    BY <1>2, <1>5 DEF Percent
  <2>2. IsFiniteSet(I) /\ Cardinality(I) = K
    BY <1>2, UpTo
  <2>3. w \in Nat \ {0} /\ 1000 \in Int
    BY <1>3, <1>12
  <2> HIDE DEF p, I
  <2>4. /\ SumOver(p, I) \in Int
        /\ 2 * (w * SumOver(p, I)) <= 2 * (1000 * SumOver(g, I)) + w * Cardinality(I)
        /\ 2 * (1000 * SumOver(g, I)) - w * Cardinality(I) <= 2 * (w * SumOver(p, I))
    <3> DEFINE t == 1000
    <3>1. t \in Int /\ \A k \in I : g[k] \in Int /\ p[k] = RoundDiv(t * g[k], w)
      BY <2>1, <2>3
    <3>2. Shares(I, w, t, g, p)
      BY <2>2, <2>3, <3>1 DEF Shares
    <3> HIDE DEF t
    <3>3. /\ SumOver(p, I) \in Int
          /\ 2 * (w * SumOver(p, I)) <= 2 * (t * SumOver(g, I)) + w * Cardinality(I)
          /\ 2 * (t * SumOver(g, I)) - w * Cardinality(I) <= 2 * (w * SumOver(p, I))
      BY ONLY <3>2, SharesNear
    <3> QED BY <3>3 DEF t
  <2> DEFINE s == SumOver(p, I)
  <2>5. s \in Int /\ K \in Int /\ w \in Nat \ {0} /\ 2 * (w * s) <= 2 * (1000 * w) + w * K /\ 2 * (1000 * w) - w * K <= 2 * (w * s)
    BY <1>2, <1>7, <2>2, <2>3, <2>4
  <2>6. SumOf(p) = s
    BY <2>1, SumOfIs
  <2> HIDE DEF s
  <2>7. w * (2 * s) <= w * (2000 + K) /\ w * (2000 - K) <= w * (2 * s)
    <3>1. w * (2 * s) = 2 * (w * s) /\ w * (2000 + K) = 2 * (1000 * w) + w * K /\ w * (2000 - K) = 2 * (1000 * w) - w * K
      BY <2>5
    <3> QED BY <2>5, <3>1
  <2>8. 2 * s <= 2000 + K /\ 2000 - K <= 2 * s
    <3>1. 2 * s \in Int /\ 2000 + K \in Int /\ 2000 - K \in Int
      BY <2>5
    <3> DEFINE x == 2 * s
               y == 2000 + K
               z == 2000 - K
    <3> HIDE DEF x, y, z
    <3>2. x <= y /\ z <= x
      BY <2>5, <2>7, <3>1, LeaveFactorOut DEF x, y, z
    <3> QED BY <3>2 DEF x, y, z
  <2>9. 2 * (s - 1000) <= K /\ 2 * (1000 - s) <= K
    BY <2>5, <2>8
  <2> QED BY <1>2, <2>6, <2>9 DEF p
<1>13. ASSUME NEW i \in DOMAIN parts, NEW j \in DOMAIN parts, parts[i].labelled, ~parts[j].labelled
       PROVE  parts[j].percent <= parts[i].percent
  <2> DEFINE x == tally[present[i]]
             y == tally[present[j]]
  <2>1. i \in 1..K /\ j \in 1..K
    BY <1>2
  <2>2. present[i] \in S /\ present[j] \in S /\ present[i] \in labelled /\ present[j] \notin labelled
    BY <1>2, <1>4, <1>13, <2>1
  <2>3. x \in Nat /\ y \in Nat /\ y <= x /\ x > 0
    BY <1>3, <1>4, <2>1, <2>2 DEF Q
  <2>4. w \in Nat \ {0}
    <3>1. x <= SumOver(tally, S)
      BY <1>3, <2>2, PartBelowSum
    <3> HIDE DEF x
    <3> QED BY <1>3, <2>3, <3>1
  <2>5. parts[j].percent = RoundDiv(1000 * y, w) /\ parts[i].percent = RoundDiv(1000 * x, w)
    BY <1>2, <2>1 DEF Percent
  <2> HIDE DEF x, y
  <2>6. 1000 * y \in Int /\ 1000 * x \in Int /\ 1000 * y <= 1000 * x
    BY <2>3
  <2>7. RoundDiv(1000 * y, w) <= RoundDiv(1000 * x, w)
    <3> DEFINE a == 1000 * y
               b == 1000 * x
    <3> HIDE DEF a, b
    <3>1. RoundDiv(a, w) <= RoundDiv(b, w)
      BY <2>4, <2>6, RoundMonotone DEF a, b
    <3> QED BY <3>1 DEF a, b
  <2> QED BY <2>5, <2>7
<1>14. PartsHonest(parts, w)
  BY ONLY <1>10, <1>11, <1>12, <1>13 DEF PartsHonest
<1> QED BY <1>14 DEF parts, w

LEMMA KeyOrders ==
  /\ Keys(TimeBucketOrder, ChartBuckets)
  /\ Keys(Tail(TimeBucketOrder), ChartBuckets \ {"kantooruren"})
  /\ Keys(<<"buiten_kantooruren", "kantooruren">>, {"buiten_kantooruren", "kantooruren"})
<1> DEFINE tail == Tail(TimeBucketOrder)
           two == <<"buiten_kantooruren", "kantooruren">>
<1>1. ChartBuckets = {"kantooruren", "na_kantooruren", "nacht", "weekend"}
  BY Names
<1>2. Keys(TimeBucketOrder, ChartBuckets)
  <2>1. /\ Len(TimeBucketOrder) = 4 /\ DOMAIN TimeBucketOrder = 1..4
        /\ TimeBucketOrder[1] = "kantooruren" /\ TimeBucketOrder[2] = "na_kantooruren"
        /\ TimeBucketOrder[3] = "nacht" /\ TimeBucketOrder[4] = "weekend"
    BY DEF TimeBucketOrder
  <2>2. \A i, j \in 1..4 : TimeBucketOrder[i] = TimeBucketOrder[j] => i = j
    BY Names
  <2>3. \A k \in 1..4 : k = 1 \/ k = 2 \/ k = 3 \/ k = 4
    OBVIOUS
  <2>4. \A k \in 1..4 : TimeBucketOrder[k] \in ChartBuckets
    BY <1>1, <2>1, <2>3
  <2>5. \A b \in ChartBuckets : \E k \in 1..4 : TimeBucketOrder[k] = b
    BY <1>1, <2>1
  <2>6. Len(TimeBucketOrder) \in Nat
    BY <2>1
  <2> QED BY <2>1, <2>2, <2>4, <2>5, <2>6 DEF Keys
<1>3. Keys(tail, ChartBuckets \ {"kantooruren"})
  <2>1. /\ Len(tail) = 3 /\ DOMAIN tail = 1..3
        /\ tail[1] = "na_kantooruren" /\ tail[2] = "nacht" /\ tail[3] = "weekend"
    BY DEF TimeBucketOrder
  <2> HIDE DEF tail
  <2>2. \A k \in 1..3 : k = 1 \/ k = 2 \/ k = 3
    OBVIOUS
  <2>3. ChartBuckets \ {"kantooruren"} = {"na_kantooruren", "nacht", "weekend"}
    BY <1>1
  <2>4. \A k \in 1..3 : tail[k] \in {"na_kantooruren", "nacht", "weekend"}
    BY <2>1, <2>2
  <2>5. \A b \in {"na_kantooruren", "nacht", "weekend"} : \E k \in 1..3 : tail[k] = b
    BY <2>1
  <2>6. \A i, j \in 1..3 : tail[i] = tail[j] => i = j
    BY <2>1, <2>2
  <2>7. Len(tail) \in Nat
    BY <2>1
  <2> QED BY <2>1, <2>3, <2>4, <2>5, <2>6, <2>7 DEF Keys
<1>4. Keys(two, {"buiten_kantooruren", "kantooruren"})
  <2>1. /\ Len(two) = 2 /\ DOMAIN two = 1..2
        /\ two[1] = "buiten_kantooruren" /\ two[2] = "kantooruren"
    OBVIOUS
  <2> HIDE DEF two
  <2>2. \A k \in 1..2 : k = 1 \/ k = 2
    OBVIOUS
  <2>3. \A k \in 1..2 : two[k] \in {"buiten_kantooruren", "kantooruren"}
    BY <2>1, <2>2
  <2>4. \A b \in {"buiten_kantooruren", "kantooruren"} : \E k \in 1..2 : two[k] = b
    BY <2>1
  <2>5. \A i, j \in 1..2 : two[i] = two[j] => i = j
    BY <2>1, <2>2
  <2>6. Len(two) \in Nat
    BY <2>1
  <2> QED BY <2>1, <2>3, <2>4, <2>5, <2>6 DEF Keys
<1> QED BY <1>2, <1>3, <1>4

LEMMA TwoParts == IsFiniteSet({"buiten_kantooruren", "kantooruren"})
<1> DEFINE a == {"buiten_kantooruren"}
           b == {"kantooruren"}
<1>1. IsFiniteSet(a) /\ IsFiniteSet(b)
  BY FS_Singleton
<1>2. a \cup b = {"buiten_kantooruren", "kantooruren"}
  OBVIOUS
<1> HIDE DEF a, b
<1>3. IsFiniteSet(a \cup b)
  BY <1>1, FS_Union
<1> QED BY <1>2, <1>3

\* What is outside office hours, as one number and by time bucket.
OfficeSums(tally) ==
  /\ SumOf(tally) \in Nat /\ \A b \in ChartBuckets : tally[b] \in Nat /\ tally[b] <= SumOf(tally)
  /\ OutsideOf(tally) = SumOf(tally) - tally["kantooruren"]
  /\ OutsideOf(tally) \in Nat /\ OutsideOf(tally) <= SumOf(tally)
  /\ OfficeSummary(tally) \in [{"buiten_kantooruren", "kantooruren"} -> Nat]
  /\ OfficeSummary(tally)["buiten_kantooruren"] = OutsideOf(tally)
  /\ SumOf(OfficeSummary(tally)) = SumOf(tally)
  /\ OutsideOrZero(Outside(tally)) \in [ChartBuckets \ {"kantooruren"} -> Nat]
  /\ \A b \in ChartBuckets \ {"kantooruren"} : OutsideOrZero(Outside(tally))[b] = tally[b]
  /\ SumOf(OutsideOrZero(Outside(tally))) = OutsideOf(tally)

LEMMA OfficeSumsHold == ASSUME NEW tally \in [ChartBuckets -> Nat] PROVE OfficeSums(tally)
<1> DEFINE office == "kantooruren"
           w == SumOf(tally)
           summary == OfficeSummary(tally)
           rest == OutsideOrZero(Outside(tally))
           Others == ChartBuckets \ {office}
           out == OutsideOf(tally)
           two == {"buiten_kantooruren", "kantooruren"}
<1>1. IsFiniteSet(ChartBuckets) /\ office \in ChartBuckets
  BY Names
<1>2. DOMAIN tally = ChartBuckets /\ \A b \in ChartBuckets : tally[b] \in Nat
  OBVIOUS
<1>3. summary = [kantooruren |-> tally["kantooruren"], buiten_kantooruren |-> w - tally["kantooruren"]]
  BY DEF OfficeSummary
<1>4. rest = [b \in Others |-> tally[b]]
  <2> DEFINE outside == Outside(tally)
  <2>1. DOMAIN outside = {b \in Others : tally[b] > 0} /\ \A b \in DOMAIN outside : outside[b] = tally[b]
    BY DEF Outside
  <2>2. rest = [b \in Others |-> IF b \in DOMAIN outside THEN outside[b] ELSE 0]
    BY DEF OutsideOrZero
  <2> HIDE DEF outside, rest
  <2>3. ASSUME NEW b \in Others PROVE (IF b \in DOMAIN outside THEN outside[b] ELSE 0) = tally[b]
    <3>1. tally[b] \in Nat
      BY <1>2
    <3> QED BY <2>1, <3>1
  <2> QED BY <2>2, <2>3
<1>5. out = summary.buiten_kantooruren
  BY DEF OutsideOf
<1> HIDE DEF summary, rest, out, w
<1>6. w = SumOver(tally, ChartBuckets) /\ w \in Nat /\ \A b \in ChartBuckets : tally[b] <= w
  <2>1. w = SumOver(tally, ChartBuckets)
    BY <1>2, SumOfIs DEF w
  <2> QED BY <1>1, <1>2, <2>1, SumNat, PartBelowSum
<1>7. out = w - tally[office] /\ out \in Nat /\ out <= w
  <2>1. summary.buiten_kantooruren = w - tally[office]
    BY <1>3
  <2> QED BY <1>1, <1>2, <1>5, <1>6, <2>1
<1>8. /\ DOMAIN summary = two /\ summary["buiten_kantooruren"] = out /\ summary["kantooruren"] = tally[office]
      /\ summary \in [two -> Nat]
  <2>1. DOMAIN summary = two
    BY <1>3
  <2>2. summary["buiten_kantooruren"] = w - tally[office] /\ summary["kantooruren"] = tally[office]
    BY <1>3
  <2>3. tally[office] \in Nat
    BY <1>1, <1>2
  <2>4. summary \in [two -> Nat]
    <3>1. summary = [x \in two |-> summary[x]]
      BY <1>3
    <3>2. \A x \in two : summary[x] \in Nat
      BY <1>7, <2>2, <2>3
    <3> HIDE DEF two
    <3> QED BY <3>1, <3>2
  <2> QED BY <1>7, <2>1, <2>2, <2>4
<1>9. SumOf(summary) = w
  <2> DEFINE outside == "buiten_kantooruren"
  <2>1. SumOf(summary) = SumOver(summary, two)
    BY <1>8, SumOfIs
  <2>2. IsFiniteSet(two) /\ outside \in two /\ two \ {outside} = {office} /\ IsFiniteSet({office})
    <3>1. IsFiniteSet({office})
      BY FS_Singleton
    <3>2. IsFiniteSet(two)
      BY TwoParts
    <3> QED BY <3>1, <3>2
  <2>3. (\A x \in two : summary[x] \in Int) /\ {office} \ {office} = {} /\ summary[office] \in Int /\ summary[outside] \in Int
    BY <1>8
  <2> HIDE DEF two, outside, office
  <2>4. SumOver(summary, two) = summary[outside] + SumOver(summary, two \ {outside})
    BY <2>2, <2>3, SumTakeOut
  <2>5. SumOver(summary, {office}) = summary[office] + SumOver(summary, {office} \ {office})
    <3>1. \A x \in {office} : summary[x] \in Int
      BY <2>3
    <3>2. office \in {office}
      OBVIOUS
    <3> QED BY <2>2, <3>1, <3>2, SumTakeOut
  <2>6. SumOver(summary, {}) = 0
    BY FS_EmptySet, SumTakeOut
  <2>7. SumOver(summary, two) = summary[outside] + summary[office]
    <3>1. SumOver(summary, two \ {outside}) = SumOver(summary, {office})
      BY <2>2
    <3>2. SumOver(summary, {office} \ {office}) = SumOver(summary, {})
      BY <2>3
    <3> QED BY <2>3, <2>4, <2>5, <2>6, <3>1, <3>2
  <2>8. summary[outside] = out /\ summary[office] = tally[office] /\ tally[office] \in Int
    BY <1>1, <1>2, <1>8 DEF office, outside
  <2> QED BY <1>6, <1>7, <2>1, <2>7, <2>8
<1>10. rest \in [Others -> Nat] /\ DOMAIN rest = Others /\ \A b \in Others : rest[b] = tally[b] /\ rest[b] \in Int
  BY <1>2, <1>4
<1>11. SumOf(rest) = out
  <2>1. SumOf(rest) = SumOver(rest, Others)
    BY <1>10, SumOfIs
  <2>2. IsFiniteSet(Others)
    BY <1>1, FS_RemoveElement
  <2> HIDE DEF office
  <2>3. SumOver(rest, Others) = SumOver(tally, Others)
    <3> HIDE DEF Others
    <3> QED BY <1>10, <2>2, SumEqual
  <2>4. SumOver(tally, ChartBuckets) = tally[office] + SumOver(tally, Others)
    <3>1. \A b \in ChartBuckets : tally[b] \in Int
      BY <1>2
    <3> QED BY <1>1, <3>1, SumTakeOut
  <2>5. SumOver(tally, Others) \in Int
    <3>1. \A b \in Others : tally[b] \in Int
      BY <1>2
    <3> HIDE DEF Others
    <3> QED BY <2>2, <3>1, SumTakeOut
  <2>6. tally[office] \in Nat
    BY <1>1, <1>2
  <2> HIDE DEF Others
  <2> QED BY <1>6, <1>7, <2>1, <2>3, <2>4, <2>5, <2>6
<1> HIDE DEF two
<1> QED BY <1>2, <1>6, <1>7, <1>8, <1>9, <1>10, <1>11 DEF OfficeSums, w, summary, rest, out, two

LEMMA OfficeHolds == ASSUME ChartsConstants, ChartsInv, Days > 0 PROVE OfficeHonest
<1> DEFINE tb == TotalBuckets
           two == {"buiten_kantooruren", "kantooruren"}
           both == <<"buiten_kantooruren", "kantooruren">>
           n == Len(ActiveChannels)
<1>1. tb \in [ChartBuckets -> Nat] /\ SumOf(tb) = TotalVolume
  BY Totals
<1>2. IsFiniteSet(ChartBuckets) /\ IsFiniteSet(ChartBuckets \ {"kantooruren"}) /\ IsFiniteSet(two)
  <2>1. IsFiniteSet(ChartBuckets) /\ "kantooruren" \in ChartBuckets
    BY Names
  <2>2. IsFiniteSet(ChartBuckets \ {"kantooruren"})
    BY <2>1, FS_RemoveElement
  <2> QED BY <2>1, <2>2, TwoParts
<1>3. OfficeSums(tb)
  BY <1>1, OfficeSumsHold
<1>4. ASSUME NEW S, IsFiniteSet(S), NEW tally \in [S -> Nat], NEW order, Keys(order, S)
      PROVE  PartsHonest(PieColumn(tally, order), SumOf(tally))
  <2> DEFINE w == SumOf(tally)
             labelled == {b \in DOMAIN tally : 360 * tally[b] >= 22 * w}
  <2>1. DOMAIN tally = S /\ \A b \in S : tally[b] \in Nat
    BY <1>4
  <2>2. w \in Nat
    BY <1>4, <2>1, SumOfIs, SumNat
  <2>3. PieColumn(tally, order) = PartsOf(tally, order, labelled)
    BY DEF PieColumn
  <2> HIDE DEF w
  <2>4. \A b, c \in S : b \in labelled /\ c \notin labelled => tally[c] <= tally[b]
    <3> SUFFICES ASSUME NEW b \in S, NEW c \in S, b \in labelled, c \notin labelled PROVE tally[c] <= tally[b]
      OBVIOUS
    <3>1. tally[b] \in Nat /\ tally[c] \in Nat /\ 360 * tally[b] >= 22 * w /\ ~(360 * tally[c] >= 22 * w)
      BY <2>1
    <3> QED BY <2>2, <3>1
  <2> HIDE DEF labelled
  <2>5. PartsHonest(PartsOf(tally, order, labelled), SumOf(tally))
    BY <1>4, <2>4, PartsHold
  <2> QED BY <2>3, <2>5
<1>5. PartsHonest(DualPie(tb).main, SumOf(tb))
  <2> DEFINE summary == OfficeSummary(tb)
  <2>1. summary \in [two -> Nat] /\ SumOf(summary) = SumOf(tb) /\ Keys(both, two)
    BY <1>3, KeyOrders DEF OfficeSums
  <2>2. DualPie(tb).main = PieColumn(summary, both)
    BY DEF DualPie
  <2> HIDE DEF summary, two, both, tb
  <2>3. PartsHonest(PieColumn(summary, both), SumOf(summary))
    BY <1>2, <1>4, <2>1
  <2> QED BY <2>1, <2>2, <2>3
<1>6. PartsHonest(DualPie(tb).detail, SumOf(tb) - tb["kantooruren"])
  <2> DEFINE rest == OutsideOrZero(Outside(tb))
             Others == ChartBuckets \ {"kantooruren"}
             order == Tail(TimeBucketOrder)
  <2>1. rest \in [Others -> Nat] /\ SumOf(rest) = SumOf(tb) - tb["kantooruren"] /\ Keys(order, Others)
    BY <1>3, KeyOrders DEF OfficeSums
  <2>2. DualPie(tb).detail = PieColumn(rest, order)
    BY DEF DualPie
  <2>3. IsFiniteSet(Others)
    BY <1>2
  <2> HIDE DEF rest, Others, order, tb
  <2>4. PartsHonest(PieColumn(rest, order), SumOf(rest))
    BY <1>4, <2>1, <2>3
  <2> QED BY <2>1, <2>2, <2>4
<1>7. PartsHonest(PieChart(tb), SumOf(tb))
  <2>1. \A b, c \in ChartBuckets : b \in ChartBuckets /\ c \notin ChartBuckets => tb[c] <= tb[b]
    OBVIOUS
  <2> HIDE DEF tb
  <2>2. PartsHonest(PartsOf(tb, TimeBucketOrder, ChartBuckets), SumOf(tb))
    BY ONLY <1>1, <1>2, <2>1, KeyOrders, PartsHold
  <2> QED BY <2>2 DEF PieChart
<1>8. ASSUME NEW tally \in [ChartBuckets -> Nat] PROVE PartsHonest(ChannelBar(tally), SumOf(tally))
  <2> DEFINE w == SumOf(tally)
             labelled == {b \in ChartBuckets : w > 0 /\ Percent(tally[b], w) >= 70 /\ 1232 * tally[b] >= 42 * w}
  <2>1. ChannelBar(tally) = PartsOf(tally, TimeBucketOrder, labelled)
    BY DEF ChannelBar
  <2>2. w \in Nat
    BY <1>8, OfficeSumsHold DEF OfficeSums
  <2> HIDE DEF w
  <2>3. \A b, c \in ChartBuckets : b \in labelled /\ c \notin labelled => tally[c] <= tally[b]
    <3> SUFFICES ASSUME NEW b \in ChartBuckets, NEW c \in ChartBuckets, b \in labelled, c \notin labelled,
                        tally[b] < tally[c]
                 PROVE  FALSE
      <4>1. \A b \in ChartBuckets : tally[b] \in Nat
        BY <1>8
      <4> QED BY <4>1
    <3> DEFINE x == tally[b]
               y == tally[c]
    <3>1. /\ x \in Nat /\ y \in Nat /\ x < y /\ w > 0 /\ Percent(x, w) >= 70 /\ 1232 * x >= 42 * w
          /\ ~(w > 0 /\ Percent(y, w) >= 70 /\ 1232 * y >= 42 * w)
      BY <1>8
    <3> HIDE DEF x, y
    <3>2. 1232 * y >= 42 * w /\ w \in Nat \ {0}
      BY <2>2, <3>1
    <3>3. Percent(x, w) \in Int /\ Percent(y, w) \in Int /\ Percent(x, w) <= Percent(y, w)
      <4> DEFINE a == 1000 * x
                 e == 1000 * y
      <4>1. a \in Int /\ e \in Int /\ a <= e
        BY <3>1
      <4> HIDE DEF a, e
      <4>2. RoundDiv(a, w) \in Int /\ RoundDiv(e, w) \in Int /\ RoundDiv(a, w) <= RoundDiv(e, w)
        BY ONLY <3>2, <4>1, RoundMonotone, ZenonT(20)
      <4> QED BY <4>2 DEF Percent, a, e
    <3>4. Percent(y, w) >= 70
      BY <3>1, <3>3
    <3> QED BY <3>1, <3>2, <3>4
  <2> HIDE DEF labelled
  <2>4. PartsHonest(PartsOf(tally, TimeBucketOrder, labelled), SumOf(tally))
    BY ONLY <1>2, <1>8, <2>3, KeyOrders, PartsHold
  <2> QED BY <2>1, <2>4
<1>9. n \in Nat /\ DOMAIN ActiveChannels = 1..n /\ \A k \in 1..n : ActiveChannels[k] \in ChartChannels
  BY ActiveOnce DEF Active
<1>10. /\ DOMAIN ChannelPanels = 1..n
       /\ \A k \in 1..n : /\ ChannelPanels[k].count = ChannelCount(ActiveChannels[k])
                          /\ ChannelPanels[k].bar = ChannelBar(buckets[ActiveChannels[k]])
  BY <1>9 DEF ChannelPanels
<1>11. \A panel \in Range(ChannelPanels) : PartsHonest(panel.bar, panel.count)
  <2> SUFFICES ASSUME NEW k \in 1..n PROVE PartsHonest(ChannelPanels[k].bar, ChannelPanels[k].count)
    BY <1>10 DEF Range
  <2> DEFINE ch == ActiveChannels[k]
             tally == buckets[ch]
  <2>1. tally \in [ChartBuckets -> Nat] /\ ChannelCount(ch) = SumOf(tally)
    BY <1>9, EachChannel DEF CountsOf
  <2>2. ChannelPanels[k].count = ChannelCount(ch) /\ ChannelPanels[k].bar = ChannelBar(tally)
    BY <1>10
  <2> HIDE DEF ch, tally
  <2>3. PartsHonest(ChannelBar(tally), SumOf(tally))
    BY <1>8, <2>1
  <2> QED BY <2>1, <2>2, <2>3
<1>12. SumOf([k \in DOMAIN ChannelPanels |-> ChannelPanels[k].count]) = SumOf(tb)
  <2> DEFINE g == [k \in DOMAIN ChannelPanels |-> ChannelPanels[k].count]
             f == [ch \in ChartChannels |-> ChannelCount(ch)]
  <2>1. DOMAIN g = 1..n /\ \A k \in 1..n : g[k] = f[ActiveChannels[k]]
    BY <1>9, <1>10
  <2>2. \A ch \in ChartChannels : f[ch] \in Int /\ f[ch] = ChannelCount(ch)
    BY EachChannel DEF CountsOf
  <2> HIDE DEF g, f
  <2>3. SumOver(g, 1..n) = SumOver(f, ChartChannels)
    BY <2>1, <2>2, SumActive
  <2>4. SumOf(g) = SumOver(g, 1..n)
    BY <2>1, SumOfIs
  <2>5. SumOver(f, ChartChannels) = TotalVolume
    BY Totals DEF f
  <2>6. SumOf(g) = SumOf(tb)
    BY <1>1, <2>3, <2>4, <2>5
  <2> QED BY <2>6 DEF g
<1> QED BY ONLY <1>5, <1>6, <1>7, <1>11, <1>12 DEF OfficeHonest

-------------------------------------------------------------------------------
(* The texts beside the charts *)

\* The channel that a text names has the largest number.
LEMMA FirstBestIs ==
  ASSUME ChartsConstants, ChartsInv, Days > 0, NEW f, \A ch \in ChartChannels : f[ch] \in Nat
  PROVE  /\ FirstBest(f) \in Active /\ FirstBest(f) \in ChartChannels
         /\ \A ch \in Active : f[ch] <= f[FirstBest(f)]
<1> DEFINE a == ActiveChannels
           n == Len(a)
           best == {k \in DOMAIN a : \A j \in DOMAIN a : f[a[j]] <= f[a[k]]}
           g == [k \in 1..n |-> f[a[k]]]
           T == Range(g)
<1>1. FirstBest(f) = a[Min(best)]
  BY DEF FirstBest
<1>2. /\ n \in Nat /\ n >= 1 /\ DOMAIN a = 1..n /\ Range(a) = Active
      /\ \A k \in 1..n : a[k] \in Active
  BY ActiveOnce
<1>3. \A k \in 1..n : f[a[k]] \in Nat
  BY <1>2 DEF Active
<1> HIDE DEF a, n
<1>4. \A x : x \in T <=> \E k \in 1..n : x = f[a[k]]
  BY DEF Range
<1>5. IsFiniteSet(T) /\ T # {} /\ T \subseteq Int
  <2>1. IsFiniteSet(1..n) /\ DOMAIN g = 1..n /\ 1 \in 1..n
    BY <1>2, UpTo
  <2>2. T # {} /\ T \subseteq Int
    <3> HIDE DEF T
    <3>1. f[a[1]] \in T
      BY <1>4, <2>1
    <3>2. ASSUME NEW x \in T PROVE x \in Int
      <4>1. PICK k \in 1..n : x = f[a[k]]
        BY <1>4
      <4>2. f[a[k]] \in Nat
        BY <1>3
      <4> QED BY <4>1, <4>2
    <3> QED BY <3>1, <3>2
  <2> HIDE DEF g
  <2> QED BY <2>1, <2>2, RangeFinite
<1> HIDE DEF T
<1>6. Max(T) \in T /\ \A y \in T : y <= Max(T)
  BY <1>5, Extremes
<1>7. PICK k \in 1..n : Max(T) = f[a[k]]
  BY <1>4, <1>6
<1>8. best \subseteq Nat /\ k \in best
  BY <1>2, <1>4, <1>6, <1>7
<1>9. Min(best) \in best
  <2> HIDE DEF best
  <2> QED BY <1>8, LeastElement
<1> HIDE DEF T
<1>10. Min(best) \in 1..n /\ \A j \in 1..n : f[a[j]] <= f[a[Min(best)]]
  BY <1>2, <1>9
<1>11. ASSUME NEW ch \in Active PROVE f[ch] <= f[FirstBest(f)]
  <2>1. PICK j \in 1..n : a[j] = ch
    BY <1>2 DEF Range
  <2> QED BY <1>1, <1>10, <2>1
<1>12. FirstBest(f) \in Active
  BY <1>1, <1>2, <1>10
<1> QED BY <1>11, <1>12 DEF Active

LEMMA VolumeTextHolds == ASSUME ChartsConstants, ChartsInv, Days > 0 PROVE VolumeTextAgrees
<1> DEFINE active == Range(ActiveChannels)
           shared == {d \in 1..Days : \A ch \in active : d \in Peaks(volume[ch])}
           series == Range(ChannelChart.series)
           opening == [ch \in active |-> Min(Peaks(volume[ch]))]
           top == FirstBest([ch \in ChartChannels |-> Largest(volume[ch])])
           H(v) == Height(v, Share, 356)
<1>1. active = Active /\ \A ch \in Active : ch \in ChartChannels
  BY ActiveOnce DEF Active
<1> SUFFICES ASSUME LocalShown,
                    NEW peakDay \in {opening} \cup {[ch \in active |-> d] : d \in shared}
             PROVE  LET text == VolumeInsight(peakDay)
                    IN  /\ \E line \in series :
                             /\ line.channel = text.top
                             /\ line.points[PlaceOf(peakDay[text.top])].height = 356
                        /\ text.shared => \A line \in series : \A d \in text.days :
                             line.points[PlaceOf(d)].height = line.points[line.badge.day].height
  BY DEF VolumeTextAgrees
<1>2. DOMAIN peakDay = Active /\ \A ch \in Active : peakDay[ch] \in Peaks(volume[ch])
  <2>1. CASE peakDay = opening
    BY <1>1, <2>1, LocalPeaks
  <2>2. CASE \E d \in shared : peakDay = [ch \in active |-> d]
    BY <1>1, <2>2
  <2> QED BY <2>1, <2>2
<1>3. \A ch \in Active : \A d \in Peaks(volume[ch]) : d \in 1..Days /\ volume[ch][d] = Largest(volume[ch])
  BY <1>1, LocalPeaks
<1>4. PICK order : Drawn(order)
  BY ChartDrawn
<1> DEFINE n == Len(ActiveChannels)
           s == ChannelChart.series
<1>5. /\ \A k \in 1..n : order[k] \in Active
      /\ \A ch \in Active : \E k \in 1..n : order[k] = ch
      /\ DOMAIN s = 1..n
      /\ \A k \in 1..n : LineFor(s[k], order[k], k)
  BY <1>4 DEF Drawn
<1>6. top \in Active /\ Largest(volume[top]) = Share
  <2> DEFINE f == [ch \in ChartChannels |-> Largest(volume[ch])]
  <2>1. \A ch \in ChartChannels : f[ch] \in Nat /\ f[ch] = Largest(volume[ch])
    BY LocalPeaks
  <2> HIDE DEF f
  <2>2. FirstBest(f) \in Active /\ \A ch \in Active : f[ch] <= f[FirstBest(f)]
    BY <2>1, FirstBestIs
  <2>3. top = FirstBest(f)
    BY DEF f
  <2> HIDE DEF top
  <2>4. PICK ch \in Active : Largest(volume[ch]) = Share
    BY <1>1, ChannelPeaks, LargestShown
  <2>5. Share <= Largest(volume[top])
    BY <1>1, <2>1, <2>2, <2>3, <2>4
  <2>6. Largest(volume[top]) <= Share /\ Largest(volume[top]) \in Nat /\ Share \in Nat
    BY <1>1, <2>2, <2>3, ChannelPeaks, LargestShown
  <2> QED BY <2>2, <2>3, <2>5, <2>6
<1>7. ASSUME NEW k \in 1..n, NEW d \in 1..AllDays PROVE s[k].points[d].height = H(Aligned(order[k])[d])
  <2> DEFINE v == Aligned(order[k])
             points == s[k].points
  <2>1. LineFor(s[k], order[k], k)
    BY <1>5
  <2>2. CurveFor(points, v, AllDays, 1264, Share, 356)
    BY ONLY <2>1 DEF LineFor
  <2> HIDE DEF v, points
  <2>3. points[d].height = Height(v[d], Share, 356)
    BY <2>2 DEF CurveFor
  <2> QED BY <2>3 DEF v, points
<1>8. ASSUME NEW k \in 1..n
      PROVE  /\ s[k].channel = order[k] /\ s[k].badge.day \in 1..AllDays
             /\ Aligned(order[k])[s[k].badge.day] = Largest(volume[order[k]])
             /\ \A d \in 1..Days : /\ PlaceOf(d) \in 1..AllDays
                                   /\ Aligned(order[k])[PlaceOf(d)] = volume[order[k]][d]
  <2> DEFINE v == Aligned(order[k])
             m == Min(Peaks(v))
  <2>1. s[k].channel = order[k] /\ s[k].badge = Badge(v, m, 10 + 22 * (k - 1), Share, 56, 1264, 390, 356)
    BY <1>5 DEF LineFor
  <2>2. order[k] \in ChartChannels
    BY <1>1, <1>5
  <2>3. m \in 1..AllDays /\ v[m] = Largest(v)
    BY <2>2, ChannelPeaks
  <2>4. Largest(v) = Largest(volume[order[k]])
    BY <2>2, LargestShown
  <2>5. \A d \in 1..Days : PlaceOf(d) \in 1..AllDays /\ v[PlaceOf(d)] = volume[order[k]][d]
    BY <2>2, DaysShown
  <2> HIDE DEF v, s, m
  <2>6. s[k].badge.day = m
    BY <2>1 DEF Badge
  <2> QED BY <2>1, <2>3, <2>4, <2>5, <2>6 DEF v
<1>9. H(Share) = 356
  <2>1. 356 \in Nat \ {0} /\ Share \in Nat \ {0}
    BY ChannelPeaks
  <2> QED BY <2>1, HeightsInOrder
<1>10. VolumeInsight(peakDay).top = top /\ VolumeInsight(peakDay).days = Range(peakDay)
       /\ (VolumeInsight(peakDay).shared => Cardinality(Range(peakDay)) = 1)
  BY DEF VolumeInsight
<1> HIDE DEF H, s, n, top
<1>11. \E line \in series : line.channel = top /\ line.points[PlaceOf(peakDay[top])].height = 356
  <2>1. PICK k \in 1..n : order[k] = top
    BY <1>5, <1>6
  <2>2. peakDay[top] \in 1..Days /\ volume[top][peakDay[top]] = Share
    BY <1>2, <1>3, <1>6
  <2>3. s[k].points[PlaceOf(peakDay[top])].height = 356
    BY <1>7, <1>8, <1>9, <2>1, <2>2
  <2>4. s[k] \in series
    BY <1>5 DEF Range, s
  <2> QED BY <1>8, <2>1, <2>3, <2>4
<1>12. ASSUME Cardinality(Range(peakDay)) = 1, NEW line \in series, NEW d \in Range(peakDay)
       PROVE  line.points[PlaceOf(d)].height = line.points[line.badge.day].height
  <2>1. PICK k \in 1..n : line = s[k]
    BY <1>5 DEF Range, s
  <2> DEFINE ch == order[k]
             m == line.badge.day
  <2>2. ch \in Active
    BY <1>5, <2>1
  <2>3. peakDay[ch] = d
    <3> DEFINE R == Range(peakDay)
    <3>1. peakDay[ch] \in R
      BY <1>2, <2>2 DEF Range
    <3>2. IsFiniteSet(Active)
      BY ActiveOnce
    <3>3. IsFiniteSet(R)
      BY <1>2, <3>2, RangeFinite
    <3> HIDE DEF R
    <3>4. \E x : R = {x}
      BY <1>12, <3>3, FS_Singleton DEF R
    <3> QED BY <1>12, <3>1, <3>4 DEF R
  <2>4. d \in Peaks(volume[ch])
    BY <1>2, <2>2, <2>3
  <2>5. d \in 1..Days /\ volume[ch][d] = Largest(volume[ch])
    BY <1>3, <2>2, <2>4
  <2>6. /\ m \in 1..AllDays /\ Aligned(ch)[m] = Largest(volume[ch])
        /\ PlaceOf(d) \in 1..AllDays /\ Aligned(ch)[PlaceOf(d)] = volume[ch][d]
    BY <1>8, <2>1, <2>5
  <2> HIDE DEF m
  <2>7. line.points[PlaceOf(d)].height = H(Aligned(ch)[PlaceOf(d)]) /\ line.points[m].height = H(Aligned(ch)[m])
    BY <1>7, <2>1, <2>6
  <2> QED BY <2>5, <2>6, <2>7 DEF m
<1> HIDE DEF series
<1> QED BY <1>10, <1>11, <1>12

LEMMA TimingTextsHold == ASSUME ChartsConstants, ChartsInv, Days > 0 PROVE TimingTextsAgree
<1> DEFINE n == Len(ActiveChannels)
           stats == ChannelStats
           dominants == {ch \in ChartChannels : \A other \in ChartChannels : ChannelCount(other) <= ChannelCount(ch)}
           gap == SumOf(stats.averages) - stats.average
<1>1. /\ n \in Nat \ {0} /\ IsFiniteSet(Active) /\ Cardinality(Active) = n /\ Range(ActiveChannels) = Active
      /\ \A ch \in Active : ch \in ChartChannels
  BY ActiveOnce DEF Active
<1>2. AllDays \in Nat \ {0} /\ TotalVolume \in Nat
  BY DaysShown, Totals
<1>3. ASSUME NEW peak \in PeakHours, NEW dominant \in dominants
      PROVE  LET text == TimingInsight(peak, dominant)
             IN  /\ text.top = HourStats(peak).top /\ text.topPercent = HourStats(peak).percent
                 /\ 2 * n * text.topPercent + n >= 200
                 /\ text.top = dominant => text.dominantPercent = stats.percent
  <2> DEFINE f == AtPeak(peak)
             top == FirstBest(f)
             w == SumOf(f)
             x == f[top]
             p == RoundDiv(100 * x, w)
  <2>1. /\ TimingInsight(peak, dominant).top = top /\ HourStats(peak).top = top
        /\ TimingInsight(peak, dominant).topPercent = RoundedPercent(x, w)
        /\ HourStats(peak).percent = RoundedPercent(x, w)
        /\ TimingInsight(peak, dominant).dominantPercent = RoundedPercent(ChannelCount(top), TotalVolume)
    BY DEF TimingInsight, HourStats
  <2>2. RoundedPercent(x, w) = p
    BY DEF RoundedPercent
  <2>3. peak \in Hours /\ HourCount(peak) > 0
    BY DEF PeakHours
  <2>4. /\ DOMAIN f = ChartChannels /\ \A ch \in ChartChannels : f[ch] = hours[ch][peak] /\ f[ch] \in Nat /\ f[ch] <= ChannelCount(ch)
    BY <2>3, EachChannel DEF AtPeak, CountsOf
  <2>5. HourCount(peak) = SumOf(f)
    BY <2>3 DEF HourCount, AtPeak
  <2> HIDE DEF f
  <2>6. top \in Active /\ (\A ch \in Active : f[ch] <= f[top]) /\ x \in Nat
    BY <1>1, <2>4, FirstBestIs
  <2>7. w = SumOver(f, ChartChannels) /\ w > 0 /\ w \in Nat
    <3>1. SumOf(f) = SumOver(f, ChartChannels)
      BY <2>4, SumOfIs
    <3> QED BY <2>3, <2>5, <3>1, HourCounts
  <2>8. SumOver(f, Active) = SumOver(f, ChartChannels)
    <3>1. Active \subseteq ChartChannels /\ \A ch \in ChartChannels : f[ch] \in Int
      BY <1>1, <2>4
    <3>2. ASSUME NEW ch \in ChartChannels \ Active PROVE f[ch] = 0
      <4>1. ~(ChannelCount(ch) > 0) /\ ChannelCount(ch) \in Nat
        BY EachChannel DEF Active, CountsOf
      <4> QED BY <2>4, <4>1
    <3>3. IsFiniteSet(ChartChannels)
      BY Names
    <3> QED BY <3>1, <3>2, <3>3, SumWithoutZeros
  <2> HIDE DEF w, x, top, p, n
  <2>9. SumOver(f, Active) <= n * x
    <3>1. \A ch \in Active : f[ch] \in Int /\ 0 <= f[ch] /\ f[ch] <= x
      BY <1>1, <2>4, <2>6 DEF x
    <3>2. x \in Int /\ 0 \in Int
      BY <2>6
    <3> QED BY <1>1, <3>1, <3>2, SumBounds
  <2>10. 2 * n * p + n >= 200
    <3> DEFINE a == 100 * x
    <3>1. a \in Int /\ w \in Nat \ {0} /\ w <= n * x
      BY <2>6, <2>7, <2>8, <2>9
    <3> HIDE DEF a
    <3>2. RoundDiv(a, w) \in Int /\ 2 * a - w <= 2 * (w * RoundDiv(a, w))
      BY <3>1, Rounded
    <3>3. p \in Int /\ 2 * (100 * x) - w <= 2 * (w * p)
      BY <3>2 DEF a, p
    <3> DEFINE wp == w * p
               nwp == n * wp
               nx == n * x
               nw == n * w
    <3>4. wp \in Int /\ nwp \in Int /\ nx \in Int /\ nw \in Int /\ w <= nx
      BY <1>1, <2>6, <3>1, <3>3
    <3>5. n * (2 * (100 * x) - w) <= n * (2 * wp)
      <4> DEFINE l == 2 * (100 * x) - w
                 r == 2 * wp
      <4>1. l \in Int /\ r \in Int /\ l <= r
        BY <2>6, <3>1, <3>3, <3>4
      <4> HIDE DEF l, r
      <4>2. n * l <= n * r
        BY <1>1, <4>1
      <4> QED BY <4>2 DEF l, r
    <3>6. n * (2 * (100 * x) - w) = 200 * nx - nw /\ n * (2 * wp) = 2 * nwp
      BY <1>1, <2>6, <3>1, <3>4
    <3>7. 200 * w <= 2 * nwp + nw
      <4> HIDE DEF nx, nw, nwp, wp
      <4> QED BY <3>1, <3>4, <3>5, <3>6
    <3>8. w * 200 <= w * (2 * n * p + n)
      <4>1. w * (2 * n * p + n) = 2 * nwp + nw /\ w * 200 = 200 * w
        BY <1>1, <3>1, <3>3
      <4> QED BY <3>7, <4>1
    <3>9. 200 \in Int /\ 2 * n * p + n \in Int
      BY <1>1, <3>3
    <3> DEFINE y == 2 * n * p + n
               z == 200
    <3> HIDE DEF y, z
    <3>10. z <= y
      BY <3>1, <3>8, <3>9, LeaveFactorOut DEF y, z
    <3>11. z \in Int /\ y \in Int
      BY <3>9 DEF y, z
    <3>12. y >= z
      BY <3>10, <3>11
    <3> QED BY <3>12 DEF y, z
  <2>11. ASSUME top = dominant PROVE RoundedPercent(ChannelCount(top), TotalVolume) = stats.percent
    <3> DEFINE g == [ch \in ChartChannels |-> ChannelCount(ch)]
               best == FirstBest(g)
    <3>1. stats.percent = RoundedPercent(ChannelCount(best), TotalVolume)
      BY DEF ChannelStats
    <3>2. \A ch \in ChartChannels : g[ch] \in Nat /\ g[ch] = ChannelCount(ch)
      BY EachChannel DEF CountsOf
    <3> HIDE DEF g
    <3>3. best \in Active /\ \A ch \in Active : g[ch] <= g[best]
      BY <3>2, FirstBestIs
    <3> HIDE DEF best
    <3>4. ChannelCount(top) <= ChannelCount(best) /\ ChannelCount(best) <= ChannelCount(top)
          /\ ChannelCount(top) \in Nat /\ ChannelCount(best) \in Nat
      BY <1>1, <2>6, <2>11, <3>2, <3>3
    <3>5. ChannelCount(top) = ChannelCount(best)
      BY <3>4
    <3> HIDE DEF stats
    <3> QED BY <3>1, <3>5
  <2> HIDE DEF stats
  <2> QED BY <2>1, <2>2, <2>10, <2>11
<1>4. 2 * gap <= n + 1 /\ 2 * gap >= -(n + 1)
  <2> DEFINE c == [ch \in ChartChannels |-> ChannelCount(ch)]
             p == [ch \in Range(ActiveChannels) |-> RoundDiv(10 * ChannelCount(ch), AllDays)]
             s == SumOver(p, Active)
             q == RoundDiv(10 * TotalVolume, AllDays)
             D == AllDays
  <2>1. stats.averages = p /\ stats.average = q
    BY DEF ChannelStats
  <2>2. DOMAIN p = Active /\ \A ch \in Active : p[ch] = RoundDiv(10 * c[ch], AllDays)
    BY <1>1
  <2>3. \A ch \in ChartChannels : c[ch] \in Int /\ c[ch] = ChannelCount(ch)
    BY EachChannel DEF CountsOf
  <2> HIDE DEF c, p, stats
  <2>4. SumOver(c, Active) = TotalVolume
    <3>1. SumOver(c, ChartChannels) = TotalVolume
      BY Totals DEF c
    <3>2. \A ch \in ChartChannels \ Active : c[ch] = 0
      <4> SUFFICES ASSUME NEW ch \in ChartChannels \ Active PROVE c[ch] = 0
        OBVIOUS
      <4>1. ~(ChannelCount(ch) > 0) /\ ChannelCount(ch) \in Nat
        BY EachChannel DEF Active, CountsOf
      <4> QED BY <2>3, <4>1
    <3>3. IsFiniteSet(ChartChannels) /\ Active \subseteq ChartChannels
      BY <1>1, Names
    <3>4. SumOver(c, Active) = SumOver(c, ChartChannels)
      BY <2>3, <3>2, <3>3, SumWithoutZeros
    <3> QED BY <3>1, <3>4
  <2>5. Shares(Active, AllDays, 10, c, p)
    <3>1. 10 \in Int
      OBVIOUS
    <3> QED BY <1>1, <1>2, <2>2, <2>3, <3>1 DEF Shares
  <2>6. /\ SumOver(p, Active) \in Int
        /\ 2 * (AllDays * SumOver(p, Active)) <= 2 * (10 * SumOver(c, Active)) + AllDays * Cardinality(Active)
        /\ 2 * (10 * SumOver(c, Active)) - AllDays * Cardinality(Active) <= 2 * (AllDays * SumOver(p, Active))
    <3> DEFINE k == 10
    <3>1. Shares(Active, AllDays, k, c, p)
      BY <2>5
    <3> HIDE DEF k
    <3>2. /\ SumOver(p, Active) \in Int
          /\ 2 * (AllDays * SumOver(p, Active)) <= 2 * (k * SumOver(c, Active)) + AllDays * Cardinality(Active)
          /\ 2 * (k * SumOver(c, Active)) - AllDays * Cardinality(Active) <= 2 * (AllDays * SumOver(p, Active))
      BY ONLY <3>1, SharesNear
    <3> QED BY <3>2 DEF k
  <2>7. q \in Int /\ 2 * (AllDays * q) <= 2 * (10 * TotalVolume) + AllDays /\ 2 * (10 * TotalVolume) - AllDays <= 2 * (AllDays * q)
    <3> DEFINE a == 10 * TotalVolume
    <3>1. a \in Int
      BY <1>2
    <3> HIDE DEF a
    <3>2. /\ RoundDiv(a, AllDays) \in Int
          /\ 2 * (AllDays * RoundDiv(a, AllDays)) <= 2 * a + AllDays
          /\ 2 * a - AllDays <= 2 * (AllDays * RoundDiv(a, AllDays))
      BY <1>2, <3>1, Rounded
    <3> QED BY <3>2 DEF a
  <2>8. SumOf(stats.averages) = s
    BY <2>1, <2>2, SumOfIs
  <2> HIDE DEF q, D, n, s
  <2>9. /\ s \in Int /\ D \in Nat \ {0} /\ n \in Nat
        /\ 2 * (D * s) <= 20 * TotalVolume + D * n /\ 20 * TotalVolume - D * n <= 2 * (D * s)
        /\ 2 * (D * q) <= 20 * TotalVolume + D /\ 20 * TotalVolume - D <= 2 * (D * q)
    BY <1>1, <1>2, <2>4, <2>6, <2>7 DEF D, s
  <2>10. D * (2 * (s - q)) <= D * (n + 1) /\ D * (-(n + 1)) <= D * (2 * (s - q))
    <3> DEFINE ds == D * s
               dq == D * q
               dn == D * n
    <3>1. ds \in Int /\ dq \in Int /\ dn \in Int
      BY <2>7, <2>9
    <3>2. D * (2 * (s - q)) = 2 * ds - 2 * dq /\ D * (n + 1) = dn + D /\ D * (-(n + 1)) = -dn - D
      BY <2>7, <2>9
    <3>3. /\ 2 * ds <= 20 * TotalVolume + dn /\ 20 * TotalVolume - dn <= 2 * ds
          /\ 2 * dq <= 20 * TotalVolume + D /\ 20 * TotalVolume - D <= 2 * dq
      BY <2>9
    <3> HIDE DEF ds, dq, dn
    <3>4. 2 * ds - 2 * dq <= dn + D /\ -dn - D <= 2 * ds - 2 * dq
      BY <1>2, <2>9, <3>1, <3>3
    <3> QED BY <3>2, <3>4
  <2>11. 2 * (s - q) <= n + 1 /\ -(n + 1) <= 2 * (s - q)
    <3> DEFINE x == 2 * (s - q)
               y == n + 1
               z == -(n + 1)
    <3>1. x \in Int /\ y \in Int /\ z \in Int
      BY <2>7, <2>9
    <3>2. D * x <= D * y /\ D * z <= D * x
      BY <2>10
    <3> HIDE DEF x, y, z
    <3>3. x <= y /\ z <= x
      BY <2>9, <3>1, <3>2, LeaveFactorOut
    <3> QED BY <3>3 DEF x, y, z
  <2>12. gap = s - q
    BY <2>1, <2>8
  <2> HIDE DEF gap
  <2>13. 2 * gap >= -(n + 1)
    BY <2>7, <2>9, <2>11, <2>12
  <2> QED BY <2>11, <2>12, <2>13
<1> HIDE DEF n, stats
<1> QED BY ONLY <1>3, <1>4 DEF TimingTextsAgree, n, stats

\* Conversations of each time bucket and outside office hours, over the channels.
LEMMA BucketTotals ==
  ASSUME ChartsConstants, ChartsInv
  PROVE  /\ \A b \in ChartBuckets : TotalBuckets[b] = SumOver([ch \in ChartChannels |-> buckets[ch][b]], ChartChannels)
         /\ \A ch \in ChartChannels : OfficeSums(buckets[ch]) /\ ChannelCount(ch) = SumOf(buckets[ch])
         /\ SumOver([ch \in ChartChannels |-> OutsideOf(buckets[ch])], ChartChannels) = OutsideOf(TotalBuckets)
<1> DEFINE out == [ch \in ChartChannels |-> OutsideOf(buckets[ch])]
           office == [ch \in ChartChannels |-> buckets[ch]["kantooruren"]]
           all == [ch \in ChartChannels |-> ChannelCount(ch)]
           tb == TotalBuckets
<1>1. ASSUME NEW b \in ChartBuckets PROVE tb[b] = SumOver([ch \in ChartChannels |-> buckets[ch][b]], ChartChannels)
  <2> DEFINE f == [ch \in ChartChannels |-> buckets[ch][b]]
  <2>1. tb[b] = SumOf(f) /\ DOMAIN f = ChartChannels
    BY DEF TotalBuckets
  <2> HIDE DEF f, tb
  <2>2. tb[b] = SumOver(f, ChartChannels)
    BY <2>1, SumOfIs
  <2> QED BY <2>2 DEF f
<1>2. ASSUME NEW ch \in ChartChannels PROVE OfficeSums(buckets[ch]) /\ ChannelCount(ch) = SumOf(buckets[ch])
  <2> DEFINE tally == buckets[ch]
  <2>1. tally \in [ChartBuckets -> Nat] /\ ChannelCount(ch) = SumOf(tally)
    BY EachChannel DEF CountsOf
  <2> HIDE DEF tally
  <2>2. OfficeSums(tally)
    BY <2>1, OfficeSumsHold
  <2> QED BY <2>1, <2>2 DEF tally
<1>3. "kantooruren" \in ChartBuckets /\ IsFiniteSet(ChartChannels)
  BY Names
<1>4. ASSUME NEW ch \in ChartChannels PROVE out[ch] \in Int /\ office[ch] \in Int /\ all[ch] = out[ch] + office[ch]
  <2> DEFINE tally == buckets[ch]
  <2>1. out[ch] = OutsideOf(tally) /\ office[ch] = tally["kantooruren"] /\ all[ch] = SumOf(tally)
    BY <1>2
  <2>2. OfficeSums(tally)
    BY <1>2
  <2> HIDE DEF tally, out, office, all
  <2>3. SumOf(tally) \in Nat /\ tally["kantooruren"] \in Nat /\ OutsideOf(tally) = SumOf(tally) - tally["kantooruren"]
    BY <1>3, <2>2 DEF OfficeSums
  <2> QED BY <2>1, <2>3
<1>5. tb \in [ChartBuckets -> Nat] /\ SumOf(tb) = TotalVolume /\ TotalVolume = SumOver(all, ChartChannels)
  BY Totals
<1>6. tb["kantooruren"] = SumOver(office, ChartChannels)
  BY <1>1, <1>3
<1> HIDE DEF out, office, all, tb
<1>7. SumOver(all, ChartChannels) = SumOver(out, ChartChannels) + SumOver(office, ChartChannels)
  BY ONLY <1>3, <1>4, SumPlus
<1>8. SumOver(out, ChartChannels) \in Int /\ SumOver(office, ChartChannels) \in Int
  BY ONLY <1>3, <1>4, SumTakeOut
<1>9. OutsideOf(tb) = SumOf(tb) - tb["kantooruren"]
  BY <1>5, OfficeSumsHold DEF OfficeSums
<1>10. SumOver(out, ChartChannels) = OutsideOf(tb)
  BY ONLY <1>5, <1>6, <1>7, <1>8, <1>9
<1> QED BY <1>1, <1>2, <1>10 DEF out, tb

\* The percentage that a chart shows for a key that occurs.
LEMMA ShownIs ==
  ASSUME NEW S, NEW tally \in [S -> Nat], NEW order, Keys(order, S), NEW b \in S, tally[b] > 0
  PROVE  LET parts == PieColumn(tally, order)
         IN  parts[CHOOSE k \in DOMAIN parts : parts[k].key = b].percent = Percent(tally[b], SumOf(tally))
<1> DEFINE labelled == {x \in DOMAIN tally : 360 * tally[x] >= 22 * SumOf(tally)}
           parts == PieColumn(tally, order)
           Q == {x \in DOMAIN tally : tally[x] > 0}
<1>1. parts = PartsOf(tally, order, labelled) /\ b \in Q
  BY DEF PieColumn
<1> HIDE DEF parts, labelled
<1>2. PICK present, K : PartsAre(parts, present, K, tally, labelled)
  BY <1>1, PartsListed
<1> DEFINE I == 1..K
<1>3. /\ DOMAIN parts = I /\ present \in Bijection(I, Q)
      /\ \A k \in I : /\ parts[k].key = present[k]
                      /\ parts[k].percent = Percent(tally[present[k]], SumOf(tally))
  BY <1>2 DEF PartsAre
<1> HIDE DEF I, Q
<1>4. PICK i \in I : present[i] = b
  BY <1>1, <1>3, BijectionFacts
<1> DEFINE k == CHOOSE k \in DOMAIN parts : parts[k].key = b
<1>5. k \in DOMAIN parts /\ parts[k].key = b
  BY <1>3, <1>4
<1> HIDE DEF k
<1>6. parts[k].percent = Percent(tally[b], SumOf(tally))
  BY <1>3, <1>5
<1> QED BY <1>6 DEF k, parts

\* A percentage and the same in tenths, both rounded.
LEMMA RoundedTwice ==
  ASSUME NEW x \in Int, NEW w \in Nat \ {0}
  PROVE  LET off == 10 * RoundDiv(100 * x, w) - RoundDiv(1000 * x, w) IN off <= 5 /\ off >= -5
<1> DEFINE a == 100 * x
           c == 1000 * x
           p == RoundDiv(a, w)
           q == RoundDiv(c, w)
           wp == w * p
           wq == w * q
           d == 2 * (10 * p - q)
<1>1. a \in Int /\ c \in Int /\ c = 10 * a
  OBVIOUS
<1> HIDE DEF a, c
<1>2. /\ p \in Int /\ 2 * wp <= 2 * a + w /\ 2 * a - w <= 2 * wp
  BY <1>1, Rounded
<1>3. /\ q \in Int /\ 2 * wq <= 2 * c + w /\ 2 * c - w <= 2 * wq
  BY <1>1, Rounded
<1> HIDE DEF p, q
<1>4. wp \in Int /\ wq \in Int /\ w * d = 20 * wp - 2 * wq /\ d \in Int
  BY <1>2, <1>3
<1> HIDE DEF wp, wq, d
<1>5. 20 * wp - 2 * wq <= 11 * w /\ -11 * w <= 20 * wp - 2 * wq
  BY <1>1, <1>2, <1>3, <1>4
<1> DEFINE hi == 11
           lo == -11
<1>6. w * d <= w * hi /\ w * lo <= w * d /\ hi \in Int /\ lo \in Int
  BY <1>4, <1>5
<1> HIDE DEF hi, lo
<1>7. d <= hi /\ lo <= d
  BY <1>4, <1>6, LeaveFactorOut
<1>8. d <= 11 /\ -11 <= d /\ p \in Int /\ q \in Int /\ d = 2 * (10 * p - q)
  BY <1>2, <1>3, <1>7 DEF hi, lo, d
<1>9. 10 * p - q <= 5 /\ 10 * p - q >= -5
  BY <1>8
<1> QED BY <1>9 DEF p, q, a, c

LEMMA OfficeTextHolds == ASSUME ChartsConstants, ChartsInv, Days > 0 PROVE OfficeTextAgrees
<1> DEFINE tb == TotalBuckets
           w == OutsideOf(tb)
           pies == DualPie(tb)
           active == Range(ActiveChannels)
           tops == {ch \in active : \A other \in active :
                      OutsideOf(buckets[other]) <= OutsideOf(buckets[ch])}
           Shown(parts, key) == parts[CHOOSE k \in DOMAIN parts : parts[k].key = key].percent
           n == Len(ActiveChannels)
<1> SUFFICES ASSUME w > 0, NEW top \in tops
             PROVE  LET text == OfficeInsight(top)
                    IN  /\ text.outside = Shown(pies.main, "buiten_kantooruren")
                        /\ \A b \in DOMAIN text.detail :
                             LET off == 10 * text.detail[b] - Shown(pies.detail, b) IN off <= 5 /\ off >= -5
                        /\ text.percent <= 100 /\ text.count * n >= w
  BY DEF OfficeTextAgrees
<1>1. tb \in [ChartBuckets -> Nat] /\ OfficeSums(tb)
  BY Totals, OfficeSumsHold
<1>2. /\ active = Active /\ IsFiniteSet(Active) /\ Cardinality(Active) = n /\ n \in Nat
      /\ \A ch \in Active : ch \in ChartChannels /\ ChannelCount(ch) > 0
  BY ActiveOnce DEF Active
<1>3. w \in Nat \ {0}
  BY <1>1 DEF OfficeSums
<1>4. OfficeInsight(top).outside = Shown(pies.main, "buiten_kantooruren")
  <2> DEFINE summary == OfficeSummary(tb)
             two == {"buiten_kantooruren", "kantooruren"}
             both == <<"buiten_kantooruren", "kantooruren">>
             b == "buiten_kantooruren"
             parts == PieColumn(summary, both)
  <2>1. /\ summary \in [two -> Nat] /\ SumOf(summary) = SumOf(tb) /\ Keys(both, two)
        /\ b \in two /\ summary[b] = w
    BY <1>1, KeyOrders DEF OfficeSums
  <2>2. pies.main = parts
    BY DEF DualPie
  <2> HIDE DEF summary, two, both, b, tb, pies
  <2>3. Shown(parts, b) = Percent(summary[b], SumOf(summary))
    BY <2>1, ShownIs
  <2>4. Shown(pies.main, b) = Percent(w, SumOf(tb))
    BY <2>1, <2>2, <2>3
  <2>5. OfficeInsight(top).outside = Percent(w, SumOf(tb))
    BY DEF OfficeInsight, PctOutside, tb
  <2> QED BY <2>4, <2>5 DEF b
<1>5. ASSUME NEW b \in DOMAIN OfficeInsight(top).detail
      PROVE  LET off == 10 * OfficeInsight(top).detail[b] - Shown(pies.detail, b) IN off <= 5 /\ off >= -5
  <2> DEFINE rest == OutsideOrZero(Outside(tb))
             Others == ChartBuckets \ {"kantooruren"}
             order == Tail(TimeBucketOrder)
             parts == PieColumn(rest, order)
             x == tb[b]
  <2>1. rest \in [Others -> Nat] /\ SumOf(rest) = w /\ Keys(order, Others) /\ \A e \in Others : rest[e] = tb[e]
    BY <1>1, KeyOrders DEF OfficeSums
  <2>2. b \in Others /\ x > 0 /\ OfficeInsight(top).detail[b] = RoundedPercent(x, w)
    <3>1. OfficeInsight(top).detail = [e \in DOMAIN Outside(tb) |-> RoundedPercent(tb[e], w)]
      BY DEF OfficeInsight
    <3>2. DOMAIN Outside(tb) = {e \in Others : tb[e] > 0}
      BY DEF Outside
    <3> HIDE DEF rest, tb, Others
    <3> QED BY <1>5, <3>1, <3>2
  <2>3. pies.detail = parts
    BY DEF DualPie
  <2> HIDE DEF rest, Others, order, tb, pies, w
  <2>4. rest[b] = x /\ rest[b] > 0 /\ x \in Nat
    BY <2>1, <2>2
  <2>5. Shown(parts, b) = Percent(rest[b], SumOf(rest))
    BY <2>1, <2>2, <2>4, ShownIs
  <2>6. Shown(pies.detail, b) = RoundDiv(1000 * x, w)
    BY <2>1, <2>3, <2>4, <2>5 DEF Percent
  <2>7. OfficeInsight(top).detail[b] = RoundDiv(100 * x, w)
    BY <2>2 DEF RoundedPercent
  <2> HIDE DEF x
  <2>8. LET off == 10 * RoundDiv(100 * x, w) - RoundDiv(1000 * x, w) IN off <= 5 /\ off >= -5
    BY <1>3, <2>4, RoundedTwice
  <2> QED BY <2>6, <2>7, <2>8
<1>6. ASSUME NEW ch \in Active
      PROVE  /\ OutsideOf(buckets[ch]) \in Nat /\ OutsideOf(buckets[ch]) <= ChannelCount(ch)
             /\ ChannelCount(ch) \in Nat \ {0} /\ OutsideOf(buckets[ch]) <= OutsideOf(buckets[top])
  <2>1. ch \in ChartChannels /\ ChannelCount(ch) > 0
    BY <1>2
  <2> DEFINE tally == buckets[ch]
  <2>2. OfficeSums(tally) /\ ChannelCount(ch) = SumOf(tally)
    BY <2>1, BucketTotals
  <2>3. OutsideOf(tally) <= OutsideOf(buckets[top])
    BY <1>2
  <2> HIDE DEF tally
  <2>4. OutsideOf(tally) \in Nat /\ OutsideOf(tally) <= ChannelCount(ch) /\ ChannelCount(ch) \in Nat \ {0}
    BY <2>1, <2>2 DEF OfficeSums
  <2> QED BY <2>3, <2>4 DEF tally
<1>7. top \in Active
  BY <1>2
<1>8. OfficeInsight(top).percent <= 100
  <2> DEFINE m == OutsideOf(buckets[top])
             c == ChannelCount(top)
             a == 100 * m
             whole == 100
  <2>1. OfficeInsight(top).percent = RoundDiv(a, c)
    BY DEF OfficeInsight, RoundedPercent
  <2>2. a \in Int /\ whole \in Int /\ c \in Nat \ {0} /\ a <= c * whole
    <3>1. m \in Nat /\ c \in Nat \ {0} /\ m <= c
      BY <1>6, <1>7
    <3> HIDE DEF m, c
    <3> QED BY <3>1
  <2> HIDE DEF a, c, whole
  <2>3. RoundDiv(a, c) <= whole
    BY <2>2, AverageBelow
  <2> QED BY <2>1, <2>3 DEF whole
<1>9. OfficeInsight(top).count * n >= w
  <2> DEFINE f == [ch \in ChartChannels |-> OutsideOf(buckets[ch])]
             m == OutsideOf(buckets[top])
  <2>1. OfficeInsight(top).count = m
    BY DEF OfficeInsight
  <2>2. \A ch \in ChartChannels : f[ch] = OutsideOf(buckets[ch])
    OBVIOUS
  <2>3. SumOver(f, ChartChannels) = w
    BY BucketTotals
  <2>4. m \in Nat
    BY <1>6, <1>7
  <2> HIDE DEF f, m, w
  <2>5. \A ch \in Active : f[ch] \in Int /\ 0 <= f[ch] /\ f[ch] <= m
    BY <1>2, <1>6, <2>2 DEF m
  <2>6. SumOver(f, Active) <= n * m
    <3>1. 0 \in Int /\ m \in Int
      BY <2>4
    <3> HIDE DEF n
    <3> QED BY ONLY <1>2, <2>5, <3>1, SumBounds
  <2>7. SumOver(f, Active) = SumOver(f, ChartChannels)
    <3>1. \A ch \in ChartChannels : f[ch] \in Nat /\ f[ch] <= ChannelCount(ch)
      <4> TAKE ch \in ChartChannels
      <4> DEFINE tally == buckets[ch]
      <4>1. OfficeSums(tally) /\ ChannelCount(ch) = SumOf(tally) /\ f[ch] = OutsideOf(tally)
        BY <2>2, BucketTotals
      <4> HIDE DEF tally
      <4> QED BY <4>1 DEF OfficeSums
    <3>2. ASSUME NEW ch \in ChartChannels \ Active PROVE f[ch] = 0
      <4>1. ~(ChannelCount(ch) > 0) /\ ChannelCount(ch) \in Nat
        BY EachChannel DEF Active, CountsOf
      <4> QED BY <3>1, <4>1
    <3>3. IsFiniteSet(ChartChannels) /\ Active \subseteq ChartChannels
      BY Names DEF Active
    <3>4. \A ch \in ChartChannels : f[ch] \in Int
      BY <3>1
    <3> QED BY <3>2, <3>3, <3>4, SumWithoutZeros
  <2>8. w <= n * m
    BY <2>3, <2>6, <2>7
  <2>9. m * n >= w
    <3> HIDE DEF n
    <3> QED BY <1>2, <1>3, <2>4, <2>8
  <2> QED BY <2>1, <2>9
<1> HIDE DEF n, w, pies, Shown
<1> QED BY <1>4, <1>5, <1>8, <1>9

-------------------------------------------------------------------------------
(* The charts of every report *)

LEMMA ChartsHold == ASSUME ChartsConstants, ChartsInv PROVE ChartsHonest
<1> SUFFICES ASSUME Days > 0
             PROVE  /\ VolumeHonest /\ HoursHonest /\ OfficeHonest
                    /\ VolumeTextAgrees /\ TimingTextsAgree /\ OfficeTextAgrees
  BY DEF ChartsHonest
<1> QED BY VolumeHolds, HoursHold, OfficeHolds, VolumeTextHolds, TimingTextsHold, OfficeTextHolds

\* However the conversations are spread over days, hours and channels: the charts of
\* the report show each of them once and where it belongs, peaks are marked where they
\* are, parts fill the whole, and the texts beside the charts give the figures that the
\* charts show.
THEOREM ChartsAreHonest == ASSUME ChartsConstants PROVE ChartsSpec => []ChartsHonest
<1>1. ChartsInit => ChartsInv
  BY ChartsBegin
<1>2. ChartsInv /\ [AddDay]_chartVars => ChartsInv'
  <2>1. CASE AddDay
    BY <2>1, DayKeeps
  <2>2. CASE UNCHANGED chartVars
    BY <2>2 DEF ChartsInv, chartVars, Days
  <2> QED BY <2>1, <2>2
<1>3. ChartsInv => ChartsHonest
  BY ChartsHold
<1> QED BY <1>1, <1>2, <1>3, PTL DEF ChartsSpec

===============================================================================
