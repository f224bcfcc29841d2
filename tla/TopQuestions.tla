----------------------------- MODULE TopQuestions -----------------------------
(***************************************************************************)
(* The clustering passes over all questions of one agent:                  *)
(* QuestionAnalysisService.analyze, inside InsightsService.run_job without *)
(* a scope and inside finalize_questions.  A pass deletes every cluster of *)
(* the agent, embeds and clusters the first question of each conversation, *)
(* and inserts the new clusters, all in one transaction of a READ          *)
(* COMMITTED database: a DELETE sees the rows that are committed when it   *)
(* begins and waits for the transactions that are deleting one of them.    *)
(* The handlers of both callers commit without a rollback.  A purge of the *)
(* insights deletes the clusters in the same way, and inserts none; here   *)
(* it takes a number as a pass does.                                       *)
(***************************************************************************)
EXTENDS QuestionRanking

CONSTANTS
  ConvIds,    \* conversations of the agent
  Texts,      \* first questions
  NoQuestion, \* the first message of the member is no question
  Callers,    \* processes that run passes
  MaxPasses   \* bound: passes, their insights_jobs ids are 1..MaxPasses

VARIABLES
  first,     \* first[c] : the first question of a stored conversation
  clusters,  \* committed question_clusters: [job, rank, key, count]
  at,        \* at[p] : where process p is in its pass
  job,       \* job[p] : the id of its insights job, 0 without one
  targets,   \* targets[p] : the clusters its DELETE has seen, then those it deletes
  texts,     \* texts[p] : the questions it has read
  ranking,   \* ranking[p] : what it will insert
  jobs,      \* passes begun
  \* history
  last,      \* the pass whose transaction ended last with a commit
  lastResult, \* what it was: "clusters", "nothing" (too few questions), "failed", "purged"
  size,      \* size[j] : questions that pass j has read
  met        \* pairs of passes that were in their transactions at once

topVars == <<first, clusters, at, job, targets, texts, ranking, jobs, last, lastResult, size, met>>

\* What the theorems assume.
TopConstants == RankingConstants /\ MaxPasses \in Nat

Passes == 1..MaxPasses
Points == {"off", "created", "deleting", "reading", "clustering", "writing", "failing"}
InTransaction == {"deleting", "reading", "clustering", "writing", "failing"}
Holding == {"reading", "clustering", "writing", "failing"}

TopInit ==
  /\ first = <<>> /\ clusters = {}
  /\ at = [p \in Callers |-> "off"]
  /\ job = [p \in Callers |-> 0]
  /\ targets = [p \in Callers |-> {}]
  /\ texts = [p \in Callers |-> <<>>]
  /\ ranking = [p \in Callers |-> <<>>]
  /\ jobs = 0 /\ last = 0 /\ lastResult = "nothing"
  /\ size = [j \in Passes |-> 0]
  /\ met = {}
-------------------------------------------------------------------------------
\* The ingest stores a conversation.
StoreConversation(c, t) ==
  /\ c \notin DOMAIN first
  /\ first' = [d \in DOMAIN first \cup {c} |-> IF d = c THEN t ELSE first[d]]
  /\ UNCHANGED <<clusters, at, job, targets, texts, ranking, jobs, last, lastResult, size, met>>

\* create_job commits the row of the pass.
CreatePass(p) ==
  /\ at[p] = "off" /\ jobs < MaxPasses
  /\ jobs' = jobs + 1
  /\ job' = [job EXCEPT ![p] = jobs']
  /\ at' = [at EXCEPT ![p] = "created"]
  /\ UNCHANGED <<first, clusters, targets, texts, ranking, last, lastResult, size, met>>

Meets(p) == {{job[p], job[q]} : q \in {q \in Callers \ {p} : at[q] \in InTransaction}}

\* Mutant: a pass clears the clusters of its own job only.
BeginDeleteOwn(p) ==
  /\ at[p] = "created"
  /\ targets' = [targets EXCEPT ![p] = {row \in clusters : row.job = job[p]}]
  /\ met' = met \cup Meets(p)
  /\ at' = [at EXCEPT ![p] = "deleting"]
  /\ UNCHANGED <<first, clusters, job, texts, ranking, jobs, last, lastResult, size>>

\* DELETE FROM question_clusters WHERE agent_id = ...
BeginDelete(p) ==
  /\ at[p] = "created"
  /\ targets' = [targets EXCEPT ![p] = clusters]
  /\ met' = met \cup Meets(p)
  /\ at' = [at EXCEPT ![p] = "deleting"]
  /\ UNCHANGED <<first, clusters, job, texts, ranking, jobs, last, lastResult, size>>

\* It goes on when no other transaction is deleting one of the rows; those that
\* are gone by then are passed over.
EndDelete(p) ==
  /\ at[p] = "deleting"
  /\ \A q \in Callers \ {p} : at[q] \in Holding => targets[q] \cap targets[p] = {}
  /\ targets' = [targets EXCEPT ![p] = @ \cap clusters]
  /\ at' = [at EXCEPT ![p] = "reading"]
  /\ UNCHANGED <<first, clusters, job, texts, ranking, jobs, last, lastResult, size, met>>

\* The conversations with a first question, in the order of their ids.
ReadQuestions(p) ==
  /\ at[p] = "reading"
  /\ LET asking == {c \in DOMAIN first : first[c] # NoQuestion}
         order == Ordered(asking, {x \in asking \X asking : x[1] < x[2]})
     IN  /\ texts' = [texts EXCEPT ![p] = [n \in DOMAIN order |-> first[order[n]]]]
         /\ size' = [size EXCEPT ![job[p]] = Len(order)]
  /\ at' = [at EXCEPT ![p] = "clustering"]
  /\ UNCHANGED <<first, clusters, job, targets, ranking, jobs, last, lastResult, met>>

\* One question is none.
ClusterQuestions(p) ==
  /\ at[p] = "clustering"
  /\ IF Len(texts[p]) < 2
     THEN ranking' = [ranking EXCEPT ![p] = <<>>]
     ELSE \E c \in Clusterings(Len(texts[p])) : ranking' = [ranking EXCEPT ![p] = Ranking(texts[p], c)]
  /\ at' = [at EXCEPT ![p] = "writing"]
  /\ UNCHANGED <<first, clusters, job, targets, texts, jobs, last, lastResult, size, met>>

\* The process is done with its transaction.
EndPass(p) ==
  /\ at' = [at EXCEPT ![p] = "off"]
  /\ job' = [job EXCEPT ![p] = 0]
  /\ targets' = [targets EXCEPT ![p] = {}]
  /\ texts' = [texts EXCEPT ![p] = <<>>]
  /\ ranking' = [ranking EXCEPT ![p] = <<>>]
  /\ UNCHANGED <<first, jobs, size, met>>

CommitPass(p) ==
  /\ at[p] = "writing"
  /\ clusters' = (clusters \ targets[p]) \cup
       {[job |-> job[p], rank |-> n, key |-> ranking[p][n].key, count |-> ranking[p][n].count] :
          n \in DOMAIN ranking[p]}
  /\ last' = job[p]
  /\ lastResult' = IF ranking[p] = <<>> THEN "nothing" ELSE "clusters"
  /\ EndPass(p)

\* It was purge_insights, which commits its DELETE.
PurgeInsights(p) ==
  /\ at[p] = "reading"
  /\ clusters' = clusters \ targets[p]
  /\ last' = job[p] /\ lastResult' = "purged"
  /\ EndPass(p)

\* embed_texts or the clustering raises.
ModelFails(p) ==
  /\ at[p] = "clustering" /\ Len(texts[p]) >= 2
  /\ at' = [at EXCEPT ![p] = "failing"]
  /\ UNCHANGED <<first, clusters, job, targets, texts, ranking, jobs, last, lastResult, size, met>>

\* The handler writes "failed" and commits, the DELETE with it.
HandlerCommits(p) ==
  /\ at[p] = "failing"
  /\ clusters' = clusters \ targets[p]
  /\ last' = job[p] /\ lastResult' = "failed"
  /\ EndPass(p)

\* The process is killed, or the database raises, in which case the handler's
\* commit raises too: the transaction is rolled back.
RollBack(p) ==
  /\ at[p] # "off"
  /\ EndPass(p)
  /\ UNCHANGED <<clusters, last, lastResult>>

PassStep(p) ==
  \/ CreatePass(p) \/ BeginDelete(p) \/ EndDelete(p) \/ ReadQuestions(p)
  \/ ClusterQuestions(p) \/ CommitPass(p) \/ PurgeInsights(p)
  \/ ModelFails(p) \/ HandlerCommits(p) \/ RollBack(p)

TopNext ==
  \/ \E c \in ConvIds, t \in Texts \cup {NoQuestion} : StoreConversation(c, t)
  \/ \E p \in Callers : PassStep(p)

TopSpec == TopInit /\ [][TopNext]_topVars
-------------------------------------------------------------------------------
(* Properties *)

TopTypeOK ==
  /\ DOMAIN first \subseteq ConvIds /\ Range(first) \subseteq Texts \cup {NoQuestion}
  /\ \A row \in clusters : row.job \in Passes /\ row.rank \in 1..MaxClusters
  /\ at \in [Callers -> Points]
  /\ job \in [Callers -> 0..MaxPasses]
  /\ \A p \in Callers : (at[p] = "off") <=> (job[p] = 0)
  /\ \A p \in Callers : at[p] \in Holding => targets[p] \subseteq clusters
  /\ jobs \in 0..MaxPasses /\ last \in 0..jobs

RowsOf(j) == {row \in clusters : row.job = j}

\* The rows are a ranking of n questions.
Whole(rows, n) ==
  LET k == Cardinality(rows)
      shown == [r \in 1..k |-> CHOOSE row \in rows : row.rank = r]
  IN  {row.rank : row \in rows} = 1..k /\ RankingOK(shown, n)

\* What a reader sees of one pass is the whole ranking of that pass.
PassesWhole == \A j \in Passes : Whole(RowsOf(j), size[j])

\* The clusters are those of the last pass that committed, and beside them only
\* those of a pass that was in its transaction at the same time; once a pass has
\* found clusters, none are left only after a pass that found none or failed
\* after its DELETE, or after a purge.
QuestionsCoherent ==
  /\ PassesWhole
  /\ \A row \in clusters : row.job = last \/ {row.job, last} \in met
  /\ last # 0 /\ clusters = {} => lastResult \in {"nothing", "failed", "purged"}

\* What the comment in analyze says (question_analysis_service.py:38-39): one set
\* replaces the old one.  Violated: two passes in their transactions at once do
\* not see each other's rows, and both sets stay.
OneCoherentSet == \A row, other \in clusters : row.job = other.job
===============================================================================
