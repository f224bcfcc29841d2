------------------------------ MODULE AgentWeek ------------------------------
(***************************************************************************)
(* The work of a weekly run on one agent (WeeklyOrchestrator.run_agent):   *)
(* WeeklyIngestService fetches the conversations of the week,              *)
(* WeeklyAnalysisService judges their questions, WeeklyReportService       *)
(* renders them.  WeeklyRun models the runs around it; this module models  *)
(* what the attempts leave in the weekly database when entries, models,    *)
(* the renderer or the process fail.  The handler of run_agent commits     *)
(* what the session holds, without a rollback.                             *)
(***************************************************************************)
EXTENDS QuestionRanking

CONSTANTS
  Talk,         \* Talk[c] : the messages of conversation c, [agent, ask]
  Absent,       \* None: of a question, counts or a PDF
  MaxAttempts   \* bound: attempts on the same week

VARIABLES
  inbox,     \* inbox[c] : how many of its messages have been written
  db,        \* committed: conversations and how many of their messages, findings,
             \* clusters; findings and clusters with the attempt they are of
  session,   \* the same as the session of the attempt sees it
  step,      \* what the attempt does next
  todo,      \* entries it has still to fetch
  status,    \* of the agent's row
  breakdown, \* counts_json: findings by status, or Absent
  pdf,       \* what the file shows, or Absent
  tries      \* attempts begun

weekVars == <<inbox, db, session, step, todo, status, breakdown, pdf, tries>>

Conversations == DOMAIN Talk

\* What the theorems assume.
WeekConstants ==
  /\ RankingConstants
  /\ IsFiniteSet(Conversations) /\ \A c \in Conversations : Len(Talk[c]) \in Nat
  /\ MaxAttempts \in Nat

Flags == {"no_reply", "weak_answer", "not_answered"}
Steps == {"off", "clear", "collect", "entries", "loaded", "cluster", "render"}

NoClusters == [of |-> 0, ranking |-> <<>>]
Empty == [talks |-> <<>>, findings |-> {}, clusters |-> NoClusters]

WeekInit ==
  /\ inbox = [c \in Conversations |-> 0]
  /\ db = Empty /\ session = Empty
  /\ step = "off" /\ todo = <<>>
  /\ status = "none" /\ breakdown = Absent /\ pdf = Absent
  /\ tries = 0
-------------------------------------------------------------------------------
(* Helpers *)

\* Questions among the first n messages of c, or of all stored conversations.
QuestionsOf(c, n) == {<<c, i>> : i \in {i \in 1..n : ~Talk[c][i].agent /\ Talk[c][i].ask # Absent}}
Questions(talks) == UNION {QuestionsOf(c, talks[c]) : c \in DOMAIN talks}

Replied(talks, q) == \E i \in (q[2] + 1)..talks[q[1]] : Talk[q[1]][i].agent
NoReply(talks) == {q \in Questions(talks) : ~Replied(talks, q)}
Candidates(talks) == {q \in Questions(talks) : Replied(talks, q)}

\* What the session holds with n messages of c.
With(c, n) == [d \in DOMAIN session.talks \cup {c} |-> IF d = c THEN n ELSE session.talks[d]]

Finding(q, flag) == [question |-> q, status |-> flag, of |-> tries]
Breakdown(findings) == [flag \in Flags |-> Cardinality({f \in findings : f.status = flag})]

\* The questions in the order of their conversations and messages.
TextsOf(talks) ==
  LET asked == Questions(talks)
      order == Ordered(asked, {x \in asked \X asked :
                 x[1][1] < x[2][1] \/ (x[1][1] = x[2][1] /\ x[1][2] < x[2][2])})
  IN  [n \in DOMAIN order |-> Talk[order[n][1]][order[n][2]].ask]
-------------------------------------------------------------------------------
(* Fetching *)

\* Members and the agent go on writing, also while an attempt is at work.
Write(c) ==
  /\ inbox[c] < Len(Talk[c])
  /\ inbox' = [inbox EXCEPT ![c] = @ + 1]
  /\ UNCHANGED <<db, session, step, todo, status, breakdown, pdf, tries>>

BeginAttempt ==
  /\ step = "off" /\ tries < MaxAttempts
  /\ tries' = tries + 1
  /\ status' = "running"
  /\ session' = db
  /\ step' = "clear"
  /\ UNCHANGED <<inbox, db, todo, breakdown, pdf>>

\* Mutant: the findings do not go with their conversations.
ClearWindowKeepingFindings ==
  /\ step = "clear"
  /\ db' = [db EXCEPT !.talks = <<>>]
  /\ session' = db'
  /\ step' = "collect"
  /\ UNCHANGED <<inbox, todo, status, breakdown, pdf, tries>>

\* The conversations of the earlier attempt are deleted; their findings go with
\* them (ON DELETE CASCADE), the clusters stay.
ClearWindow ==
  /\ step = "clear"
  /\ db' = [db EXCEPT !.talks = <<>>, !.findings = {}]
  /\ session' = db'
  /\ step' = "collect"
  /\ UNCHANGED <<inbox, todo, status, breakdown, pdf, tries>>

\* collect_inbox_entries
CollectEntries ==
  /\ step = "collect"
  /\ todo' = SetToSeq({c \in Conversations : inbox[c] > 0})
  /\ step' = "entries"
  /\ UNCHANGED <<inbox, db, session, status, breakdown, pdf, tries>>

\* _process_entry, with the messages there are by now.
StoreEntry ==
  /\ step = "entries" /\ todo # <<>>
  /\ session' = [session EXCEPT !.talks = With(Head(todo), inbox[Head(todo)])]
  /\ todo' = Tail(todo)
  /\ UNCHANGED <<inbox, db, step, status, breakdown, pdf, tries>>

\* fetch_conversation raises: the entry is passed over.
SkipEntry ==
  /\ step = "entries" /\ todo # <<>>
  /\ todo' = Tail(todo)
  /\ UNCHANGED <<inbox, db, session, step, status, breakdown, pdf, tries>>

\* A message that cannot be read ends the entry; what was added of it stays in
\* the session, and the conversation is not counted as imported.
CutEntry(n) ==
  /\ step = "entries" /\ todo # <<>> /\ n < inbox[Head(todo)]
  /\ session' = [session EXCEPT !.talks = With(Head(todo), n)]
  /\ todo' = Tail(todo)
  /\ UNCHANGED <<inbox, db, step, status, breakdown, pdf, tries>>

CommitEntries ==
  /\ step = "entries" /\ todo = <<>>
  /\ db' = session
  /\ step' = "loaded"
  /\ UNCHANGED <<inbox, session, todo, status, breakdown, pdf, tries>>
-------------------------------------------------------------------------------
(* Judging and rendering *)

\* No conversations: the analysis and the outputs are cleared.
SkipAgent ==
  /\ step = "loaded" /\ session.talks = <<>>
  /\ db' = Empty /\ session' = Empty
  /\ breakdown' = Absent /\ pdf' = Absent
  /\ status' = "skipped" /\ step' = "off"
  /\ UNCHANGED <<inbox, todo, tries>>

\* analyze: the rows of the earlier attempt are deleted, questions without any
\* later message of the agent are flagged, the models judge the others.
JudgeQuestions ==
  /\ step = "loaded" /\ session.talks # <<>>
  /\ \E verdict \in [Candidates(session.talks) -> {"answered", "weak_answer", "not_answered"}] :
       session' = [session EXCEPT
         !.clusters = NoClusters,
         !.findings = {Finding(q, "no_reply") : q \in NoReply(session.talks)} \cup
                      {Finding(q, verdict[q]) : q \in {q \in DOMAIN verdict : verdict[q] # "answered"}}]
  /\ step' = "cluster"
  /\ UNCHANGED <<inbox, db, todo, status, breakdown, pdf, tries>>

\* _cluster_questions, and the counts of the findings.
ClusterWeek ==
  /\ step = "cluster"
  /\ LET texts == TextsOf(session.talks) IN
     IF Len(texts) < 2
     THEN session' = session
     ELSE \E c \in Clusterings(Len(texts)) : session' = [session EXCEPT !.clusters = [of |-> tries, ranking |-> Ranking(texts, c)]]
  /\ step' = "render"
  /\ UNCHANGED <<inbox, db, todo, status, breakdown, pdf, tries>>

\* The figures of the PDF, read back from the session.
Rendered ==
  [attempt |-> tries, flagged |-> Cardinality(session.findings),
   asked |-> Cardinality(Questions(session.talks)), clusters |-> session.clusters.ranking]

\* The PDF is written over the file of an earlier attempt, then the row commits.
CompleteAgent ==
  /\ step = "render"
  /\ db' = session
  /\ breakdown' = Breakdown(session.findings)
  /\ pdf' = Rendered
  /\ status' = "complete" /\ step' = "off"
  /\ UNCHANGED <<inbox, session, todo, tries>>
-------------------------------------------------------------------------------
(* Failures *)

\* The handler of run_agent.
HandleFailure ==
  /\ status' = "failed" /\ step' = "off" /\ todo' = <<>>
  /\ UNCHANGED <<inbox, session, pdf, tries>>

\* The dashboard does not answer, or the conversations do not load.
FetchFails ==
  /\ step \in {"collect", "loaded"}
  /\ db' = session
  /\ HandleFailure
  /\ UNCHANGED breakdown

\* The models raise: the questions without a reply are flagged by then.
JudgeFails ==
  /\ step = "loaded" /\ Candidates(session.talks) # {}
  /\ db' = [session EXCEPT !.clusters = NoClusters,
              !.findings = {Finding(q, "no_reply") : q \in NoReply(session.talks)}]
  /\ HandleFailure
  /\ UNCHANGED breakdown

\* The embeddings raise; the counts are still those of an earlier attempt.
ClusterFails ==
  /\ step = "cluster" /\ Len(TextsOf(session.talks)) >= 2
  /\ db' = session
  /\ HandleFailure
  /\ UNCHANGED breakdown

\* The renderer is down; the counts are those of this attempt.
RenderFails ==
  /\ step = "render"
  /\ db' = session
  /\ breakdown' = Breakdown(session.findings)
  /\ HandleFailure

\* The process is killed, or the database raises, and then the handler's commit
\* raises too: nothing is committed and the row says "running"; the PDF may be written.
LoseSession ==
  /\ step # "off"
  /\ pdf' \in IF step = "render" THEN {pdf, Rendered} ELSE {pdf}
  /\ step' = "off" /\ todo' = <<>>
  /\ UNCHANGED <<inbox, db, session, status, breakdown, tries>>

WeekNext ==
  \/ \E c \in Conversations : Write(c)
  \/ BeginAttempt \/ ClearWindow \/ CollectEntries
  \/ StoreEntry \/ SkipEntry \/ (\E n \in 0..Max({inbox[c] : c \in Conversations}) : CutEntry(n)) \/ CommitEntries
  \/ SkipAgent \/ JudgeQuestions \/ ClusterWeek \/ CompleteAgent
  \/ FetchFails \/ JudgeFails \/ ClusterFails \/ RenderFails \/ LoseSession

WeekSpec == WeekInit /\ [][WeekNext]_weekVars
-------------------------------------------------------------------------------
(* Properties *)

WeekTypeOK ==
  /\ \A c \in Conversations : inbox[c] \in 0..Len(Talk[c])
  /\ \A view \in {db, session} :
       /\ DOMAIN view.talks \subseteq Conversations
       /\ \A c \in DOMAIN view.talks : view.talks[c] \in 0..inbox[c]
       /\ \A f \in view.findings : f.status \in Flags
  /\ step \in Steps
  /\ status \in {"none", "running", "complete", "failed", "skipped"}
  /\ tries \in 0..MaxAttempts

\* Each finding is of a question that is stored, at most one of each, and says
\* "no reply" exactly when no later message of the agent is stored.
FindingsJustified ==
  \A f \in db.findings :
    /\ f.question \in Questions(db.talks)
    /\ (f.status = "no_reply") <=> ~Replied(db.talks, f.question)
    /\ \A g \in db.findings : g.question = f.question => g = f

\* Findings and clusters of different attempts are never shown together.
OneAttempt ==
  /\ \A f, g \in db.findings : f.of = g.of
  /\ db.clusters # NoClusters => \A f \in db.findings : f.of = db.clusters.of

\* A complete agent's findings are all there are, the counts and the PDF are
\* those of the findings, no more is flagged than was asked, and the clusters
\* rank the stored questions.
CompleteMatches ==
  status = "complete" =>
    LET asked == Questions(db.talks)
    IN  /\ NoReply(db.talks) \subseteq {f.question : f \in db.findings}
        /\ breakdown = Breakdown(db.findings)
        /\ breakdown["no_reply"] + breakdown["weak_answer"] + breakdown["not_answered"] <= Cardinality(asked)
        /\ pdf = [attempt |-> tries, flagged |-> Cardinality(db.findings),
                  asked |-> Cardinality(asked), clusters |-> db.clusters.ranking]
        /\ RankingOK(db.clusters.ranking, Cardinality(asked))
        /\ \A r \in Range(db.clusters.ranking) : r.key \in {Key[t] : t \in Range(TextsOf(db.talks))}

\* What attempts that fail halfway leave of an agent's week agrees with itself.
WeekMatches == FindingsJustified /\ OneAttempt /\ CompleteMatches
===============================================================================
