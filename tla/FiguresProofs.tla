---------------------------- MODULE FiguresProofs ----------------------------
(***************************************************************************)
(* Theorems about the figures: ConversationScores, for any messages, texts *)
(* and answers of the classifier, and ReportPages with AgentReport, for    *)
(* any conversations, metrics and commits of the jobs during a report.     *)
(*                                                                         *)
(* The scores: a score is that of its own text, or neutral where a batch   *)
(* was given up (ScoresInv), because blank texts are taken out and put     *)
(* back in place (AnswersInPlace).  The arc and the gaps are sums over the *)
(* messages by time, which the order of storing does not change.           *)
(*                                                                         *)
(* The figures: what a report has read before is older than what it reads  *)
(* next (ReportInv), and each figure is of one of these reads.  Counts by  *)
(* day, hour, bucket and channel are the sizes of classes of the same      *)
(* conversations (ClassesAddUp).  A percentage is within a half of its     *)
(* quotient (Rounded in DataLemmas), and the p95 is the place in a sorted  *)
(* list that as many values do not exceed (AsManyAsPlace).  Rankings are   *)
(* sortings by a strict order (RankOrder).                                 *)
(*                                                                         *)
(* The pages: each lemma ...Hold is a part of PagesAgree.  PagesInv adds   *)
(* that a report without a commit reads the same metrics twice             *)
(* (MetricsKnown) and that rows are of questions that were asked           *)
(* (RowsAsked).  Percentages of parts add up to a hundred as far as        *)
(* rounding allows (SharesAddUp); what is shown is the beginning of what   *)
(* is ranked or kept (FirstOf); minutes and rates are near their quotients *)
(* (MinutesNear, RateNear).                                                *)
(***************************************************************************)
EXTENDS ConversationScores, ReportPages, DataLemmas, SequenceTheorems

-----------------------------------------------------------------------------
(* The score of a text, and the answers of a batch *)

ScoreRows == [stars : 0..5, label : {"none", "NEUTRAL", "POSITIVE", "NEGATIVE"}]
AllTexts == Contents \cup {AgentText}
Messages == [agent : BOOLEAN, at : Times, text : AllTexts]

LEMMA TextFields ==
  ASSUME ScoresConstants, NEW text \in AllTexts
  PROVE  text.blank \in BOOLEAN /\ text.raw \in 1..5
<1>1. Contents \subseteq [blank : BOOLEAN, raw : 1..5, emotion : Emotions]
  BY DEF ScoresConstants
<1>2. ASSUME text = AgentText PROVE text.blank \in BOOLEAN /\ text.raw \in 1..5
  BY <1>2 DEF AgentText
<1> QED BY <1>1, <1>2 DEF AllTexts

\* A text's result is a row, its stars near the model's and its label in their band.
LEMMA ResultOfText ==
  ASSUME ScoresConstants, NEW text \in AllTexts
  PROVE  /\ ComposeResult(text) \in ScoreRows /\ ComposeResult(text) # NoRow
         /\ ComposeResult(text).stars \in 1..5
         /\ ComposeResult(text).stars - text.raw \in -1..1
         /\ (ComposeResult(text).label = "POSITIVE") = (ComposeResult(text).stars > 3)
         /\ (ComposeResult(text).label = "NEGATIVE") = (ComposeResult(text).stars < 3)
<1> DEFINE raw == text.raw
           lowered == text.emotion = "negative" /\ raw >= 3
           raised == \/ text.emotion = "lift" /\ raw <= 3
                     \/ text.emotion = "positive" /\ raw <= 2
           adjusted == IF lowered THEN raw - 1 ELSE IF raised THEN raw + 1 ELSE raw
           stars == AdjustStars(raw, text.emotion)
<1>1. raw \in 1..5
  BY TextFields
<1>2. adjusted \in 0..6 /\ adjusted - raw \in -1..1 /\ adjusted \in 1..5
  BY <1>1
<1>3. stars = Max({1, Min({5, adjusted})})
  BY DEF AdjustStars
<1> HIDE DEF adjusted
<1>4. Min({5, adjusted}) = adjusted
  <2>1. Min({5, adjusted}) = IF 5 <= adjusted THEN 5 ELSE adjusted
    BY <1>2, OfTwo
  <2> QED BY <1>2, <2>1
<1>5. stars = adjusted
  <2>1. Max({1, adjusted}) = IF 1 >= adjusted THEN 1 ELSE adjusted
    BY <1>2, OfTwo
  <2> QED BY <1>2, <1>3, <1>4, <2>1
<1>6. stars \in 1..5 /\ stars - raw \in -1..1
  BY <1>2, <1>5
<1>7. ComposeResult(text) = [stars |-> stars, label |-> StarsToLabel(stars)]
  BY DEF ComposeResult
<1> HIDE DEF stars
<1>8. /\ StarsToLabel(stars) \in {"NEUTRAL", "POSITIVE", "NEGATIVE"}
      /\ (StarsToLabel(stars) = "POSITIVE") = (stars > 3)
      /\ (StarsToLabel(stars) = "NEGATIVE") = (stars < 3)
  BY <1>6 DEF StarsToLabel
<1> QED BY <1>6, <1>7, <1>8 DEF ScoreRows, NoRow

\* Each text gets the answer to itself, wherever the blank ones are.
LEMMA AnswersInPlace ==
  ASSUME NEW texts, NEW n \in Nat, DOMAIN texts = 1..n
  PROVE  /\ DOMAIN AnalyseBatch(texts) = 1..n
         /\ \A i \in 1..n : AnalyseBatch(texts)[i] =
              IF texts[i].blank THEN Neutral ELSE ComposeResult(texts[i])
<1> DEFINE S == {i \in DOMAIN texts : ~texts[i].blank}
           cleaned == InOrder(S)
           answers == [k \in DOMAIN cleaned |-> ComposeResult(texts[cleaned[k]])]
           Place(i) == CHOOSE k \in DOMAIN cleaned : cleaned[k] = i
<1>1. IsFiniteSet(1..n)
  BY FS_Interval
<1>2. IsFiniteSet(S) /\ S \subseteq Int
  BY <1>1, FS_Subset
<1>3. DOMAIN cleaned = 1..Cardinality(S) /\ cleaned \in Bijection(1..Cardinality(S), S)
  BY <1>2, InOrderLists
<1>4. \A i \in S : \E k \in DOMAIN cleaned : cleaned[k] = i
  <2> HIDE DEF S, cleaned
  <2> QED BY <1>3 DEF Bijection, Surjection
<1>5. AnalyseBatch(texts) = [i \in DOMAIN texts |-> IF texts[i].blank THEN Neutral ELSE answers[Place(i)]]
  BY DEF AnalyseBatch
<1>6. ASSUME NEW i \in 1..n, ~texts[i].blank PROVE answers[Place(i)] = ComposeResult(texts[i])
  <2>1. i \in S
    BY <1>6
  <2>2. Place(i) \in DOMAIN cleaned /\ cleaned[Place(i)] = i
    BY <1>4, <2>1
  <2> HIDE DEF cleaned, Place
  <2> QED BY <2>2
<1> HIDE DEF answers, Place
<1> QED BY <1>5, <1>6

-----------------------------------------------------------------------------
(* The sentiment pass *)

\* The queue holds member messages that are not blank.
QueueOK ==
    /\ pass.pending \in Seq(Nat)
    /\ \A k \in DOMAIN pass.pending :
          LET m == pass.pending[k]
          IN  m \in DOMAIN history /\ ~history[m].agent /\ ~history[m].text.blank
    /\ pass.done \in 0..Len(pass.pending)

\* A row is of a member message that is not blank, and holds the score of its text.
OwnRow(m) ==
    scores[m] # NoRow =>
        /\ ~history[m].agent /\ ~history[m].text.blank
        /\ scores[m] = ComposeResult(history[m].text) \/ (spoilt /\ scores[m] = Neutral)

HistoryOK == history \in Seq(Messages)
ScoresOK == scores \in Seq(ScoreRows) /\ Len(scores) = Len(history)

PassTypes ==
    /\ pass \in [running : BOOLEAN, redo : BOOLEAN, pending : Seq(Nat), done : Nat, attempt : 0..ClientRetries]
    /\ passes \in 0..MaxSentimentJobs /\ failures \in 0..MaxFailures /\ spoilt \in BOOLEAN

ScoresInv ==
    /\ HistoryOK
    /\ ScoresOK
    /\ PassTypes
    /\ QueueOK
    /\ \A m \in DOMAIN scores : OwnRow(m)
    /\ PassCoversQueue

LEMMA ScoresBegin == ASSUME ScoresConstants, ScoresInit PROVE ScoresInv
<1>1. /\ history = <<>> /\ scores = <<>> /\ pass = Idle /\ passes = 0 /\ failures = 0 /\ spoilt = FALSE
      /\ {MaxMessages, ClientRetries, MaxSentimentJobs, MaxFailures} \subseteq Nat
  BY DEF ScoresInit, ScoresConstants
<1>2. pass.pending = <<>> /\ pass.done = 0 /\ Len(<<>>) = 0 /\ DOMAIN pass.pending = {}
  BY <1>1 DEF Idle
<1>3. HistoryOK /\ ScoresOK
  BY <1>1 DEF HistoryOK, ScoresOK
<1>4. PassTypes
  <2>1. <<>> \in Seq(Nat) /\ 0 \in 0..ClientRetries
    BY <1>1
  <2>2. pass \in [running : BOOLEAN, redo : BOOLEAN, pending : Seq(Nat), done : Nat, attempt : 0..ClientRetries]
    BY <1>1, <2>1 DEF Idle
  <2>3. passes \in 0..MaxSentimentJobs /\ failures \in 0..MaxFailures
    BY <1>1
  <2>4. spoilt \in BOOLEAN
    BY <1>1
  <2> QED BY <2>2, <2>3, <2>4 DEF PassTypes
<1>5. QueueOK /\ PassCoversQueue
  BY <1>2 DEF QueueOK, PassCoversQueue
<1>6. \A m \in DOMAIN scores : OwnRow(m)
  BY <1>1
<1> QED BY <1>3, <1>4, <1>5, <1>6 DEF ScoresInv

\* A new message comes after all others and has no row yet.
LEMMA StoreKeeps ==
  ASSUME ScoresConstants, ScoresInv, NEW agent \in BOOLEAN, NEW at \in Times, NEW text \in AllTexts,
         StoreMessage(agent, at, text)
  PROVE  ScoresInv'
<1> DEFINE new == [agent |-> agent, at |-> at, text |-> text]
           n == Len(history)
<1>1. /\ history' = Append(history, new) /\ scores' = Append(scores, NoRow)
      /\ UNCHANGED <<pass, passes, failures, spoilt>>
  BY DEF StoreMessage
<1>2. history \in Seq(Messages) /\ scores \in Seq(ScoreRows) /\ Len(scores) = n /\ n \in Nat
  BY DEF ScoresInv, HistoryOK, ScoresOK
<1>3. new \in Messages /\ NoRow \in ScoreRows
  BY DEF Messages, NoRow, ScoreRows
<1> HIDE DEF new
<1>4. HistoryOK' /\ ScoresOK' /\ Len(history') = n + 1
  BY <1>1, <1>2, <1>3 DEF HistoryOK, ScoresOK
<1>5. /\ DOMAIN history = 1..n /\ DOMAIN scores = 1..n
      /\ DOMAIN history' = 1..(n + 1) /\ DOMAIN scores' = 1..(n + 1)
      /\ \A m \in 1..n : history'[m] = history[m] /\ scores'[m] = scores[m]
      /\ scores'[n + 1] = NoRow
  BY <1>1, <1>2, <1>3
<1>6. PassTypes'
  BY <1>1 DEF PassTypes, ScoresInv
<1>7. QueueOK'
  BY <1>1, <1>2, <1>5 DEF QueueOK, ScoresInv
<1>8. ASSUME NEW m \in DOMAIN scores' PROVE OwnRow(m)'
  <2>1. CASE m \in 1..n
    BY <1>1, <1>5, <2>1 DEF OwnRow, ScoresInv
  <2>2. CASE m = n + 1
    BY <1>5, <2>2 DEF OwnRow
  <2> QED BY <1>2, <1>5, <2>1, <2>2
<1>9. PassCoversQueue'
  <2>1. \A k \in 1..pass.done : k \in DOMAIN pass.pending /\ pass.pending[k] \in 1..n
    BY <1>2, <1>5 DEF ScoresInv, QueueOK
  <2> QED BY <1>1, <1>5, <2>1 DEF PassCoversQueue, ScoresInv
<1> QED BY <1>4, <1>6, <1>7, <1>8, <1>9 DEF ScoresInv

\* A job starts with a queue of messages it may score.
LEMMA StartKeeps ==
  ASSUME ScoresConstants, ScoresInv, NEW redo \in BOOLEAN, StartPass(redo)
  PROVE  ScoresInv'
<1> DEFINE S == {m \in DOMAIN history : ~history[m].agent /\ ~history[m].text.blank /\ (redo \/ scores[m] = NoRow)}
           queue == PendingMessages(redo)
<1>1. /\ passes < MaxSentimentJobs /\ passes' = passes + 1
      /\ pass' = [Idle EXCEPT !.running = TRUE, !.redo = redo, !.pending = queue]
      /\ UNCHANGED <<history, scores, failures, spoilt>>
  BY DEF StartPass
<1>2. history \in Seq(Messages) /\ Len(history) \in Nat /\ DOMAIN history = 1..Len(history)
  BY DEF ScoresInv, HistoryOK
<1>3. IsFiniteSet(S) /\ S \subseteq Nat
  <2>1. IsFiniteSet(1..Len(history))
    BY <1>2, FS_Interval
  <2> QED BY <1>2, <2>1, FS_Subset
<1>4. queue = InOrder(S)
  BY DEF PendingMessages
<1>5. queue \in Seq(S)
  <2>1. S \subseteq Int
    BY <1>3
  <2> HIDE DEF S
  <2>2. InOrder(S) \in Seq(S)
    BY <1>3, <2>1, InOrderLists
  <2> QED BY <1>4, <2>2
<1>6. queue \in Seq(Nat) /\ Len(queue) \in Nat /\ \A k \in DOMAIN queue : queue[k] \in S
  <2> HIDE DEF S, queue
  <2>1. Len(queue) \in Nat /\ DOMAIN queue = 1..Len(queue) /\ \A k \in DOMAIN queue : queue[k] \in S
    BY <1>5
  <2>2. queue = [k \in 1..Len(queue) |-> queue[k]]
    BY <1>5
  <2>3. queue \in [1..Len(queue) -> Nat]
    BY <1>3, <2>1, <2>2
  <2> QED BY <2>1, <2>3
<1> HIDE DEF queue
<1>7. pass'.pending = queue /\ pass'.done = 0 /\ pass'.attempt = 0 /\ pass'.running = TRUE /\ pass'.redo = redo
  BY <1>1 DEF Idle
<1>8. PassTypes'
  <2>1. pass' = [running |-> TRUE, redo |-> redo, pending |-> queue, done |-> 0, attempt |-> 0]
    BY <1>1 DEF Idle
  <2>2. passes' \in 0..MaxSentimentJobs
    BY <1>1 DEF ScoresInv, PassTypes, ScoresConstants
  <2>3. 0 \in 0..ClientRetries
    BY DEF ScoresConstants
  <2>4. pass' \in [running : BOOLEAN, redo : BOOLEAN, pending : Seq(Nat), done : Nat, attempt : 0..ClientRetries]
    BY <1>6, <2>1, <2>3
  <2>5. failures' \in 0..MaxFailures /\ spoilt' \in BOOLEAN
    BY <1>1 DEF ScoresInv, PassTypes
  <2> QED BY <2>2, <2>4, <2>5 DEF PassTypes
<1>9. QueueOK' /\ PassCoversQueue'
  <2>1. \A k \in DOMAIN queue : queue[k] \in DOMAIN history /\ ~history[queue[k]].agent /\ ~history[queue[k]].text.blank
    BY <1>6
  <2> QED BY <1>1, <1>6, <1>7, <2>1 DEF QueueOK, PassCoversQueue
<1>10. HistoryOK' /\ ScoresOK' /\ \A m \in DOMAIN scores' : OwnRow(m)'
  BY <1>1 DEF ScoresInv, HistoryOK, ScoresOK, OwnRow
<1> QED BY <1>8, <1>9, <1>10 DEF ScoresInv

\* The next chunk is a part of the queue.
LEMMA ChunkIsNext ==
  ASSUME ScoresConstants, ScoresInv
  PROVE  /\ Len(Chunk) \in Nat /\ DOMAIN Chunk = 1..Len(Chunk)
         /\ pass.done + Len(Chunk) <= Len(pass.pending) /\ Len(pass.pending) \in Nat /\ pass.done \in Nat
         /\ \A k \in DOMAIN Chunk : pass.done + k \in DOMAIN pass.pending /\ Chunk[k] = pass.pending[pass.done + k]
<1> DEFINE queue == pass.pending
           last == Min({pass.done + ChunkSize, Len(queue)})
<1>1. queue \in Seq(Nat) /\ pass.done \in 0..Len(queue) /\ ChunkSize \in Nat \ {0}
  BY DEF ScoresInv, QueueOK, ScoresConstants
<1>2. Len(queue) \in Nat /\ DOMAIN queue = 1..Len(queue)
  BY <1>1
<1>3. last = IF pass.done + ChunkSize <= Len(queue) THEN pass.done + ChunkSize ELSE Len(queue)
  <2>1. pass.done + ChunkSize \in Int /\ Len(queue) \in Int
    BY <1>1, <1>2
  <2> QED BY <2>1, OfTwo
<1>4. last \in pass.done..Len(queue)
  BY <1>1, <1>2, <1>3
<1>5. Chunk = SubSeq(queue, pass.done + 1, last)
  BY DEF Chunk
<1> HIDE DEF queue, last
<1>6. Len(Chunk) = last - pass.done /\ DOMAIN Chunk = 1..Len(Chunk)
  BY <1>1, <1>2, <1>4, <1>5, SMTT(20)
<1>7. ASSUME NEW k \in DOMAIN Chunk PROVE pass.done + k \in DOMAIN queue /\ Chunk[k] = queue[pass.done + k]
  <2>1. k \in 1..(last - pass.done)
    BY <1>6
  <2>2. pass.done + k \in 1..Len(queue) /\ k + (pass.done + 1) - 1 = pass.done + k
    BY <1>1, <1>2, <1>4, <2>1
  <2>3. Chunk[k] = queue[k + (pass.done + 1) - 1]
    <3> DEFINE from == pass.done + 1
    <3>1. from \in Nat \ {0} /\ last \in Nat /\ k \in 1..(last - from + 1) /\ last <= Len(queue)
      BY <1>1, <1>2, <1>4, <2>1, SMTT(30)
    <3>2. Chunk = SubSeq(queue, from, last)
      BY <1>5
    <3> HIDE DEF from
    <3>3. SubSeq(queue, from, last)[k] = queue[k + from - 1]
      BY <1>1, <3>1
    <3> QED BY <3>2, <3>3 DEF from
  <2> QED BY <1>2, <2>2, <2>3
<1> QED BY <1>1, <1>2, <1>4, <1>6, <1>7 DEF queue

\* A chunk that is answered, each message with the score of its own text or, when
\* the batch is spoilt, with neutral, goes into the rows of its messages.
LEMMA ChunkKeeps ==
  ASSUME ScoresConstants, ScoresInv, NEW results,
         \A k \in DOMAIN Chunk : \/ results[k] = ComposeResult(history[Chunk[k]].text)
                                 \/ spoilt' /\ results[k] = Neutral,
         scores' = Upsert(results), pass' = Advance, spoilt => spoilt', spoilt' \in BOOLEAN,
         passes' = passes, failures' \in 0..MaxFailures, history' = history
  PROVE  ScoresInv'
<1> DEFINE Placed(m) == {k \in DOMAIN Chunk : Chunk[k] = m}
           n == Len(history)
<1>1. /\ history \in Seq(Messages) /\ scores \in Seq(ScoreRows) /\ Len(scores) = n /\ n \in Nat
      /\ DOMAIN scores = 1..n /\ DOMAIN history = 1..n
  BY DEF ScoresInv, HistoryOK, ScoresOK
<1>2. \A k \in DOMAIN Chunk : /\ Chunk[k] \in 1..n
                              /\ ~history[Chunk[k]].agent /\ ~history[Chunk[k]].text.blank
  BY <1>1, ChunkIsNext DEF ScoresInv, QueueOK
<1>3. \A m \in 1..n : scores'[m] = IF Placed(m) = {} \/ (scores[m] # NoRow /\ ~pass.redo) THEN scores[m]
                                   ELSE results[CHOOSE k \in Placed(m) : TRUE]
  BY <1>1 DEF Upsert
<1>4. DOMAIN scores' = 1..n
  BY <1>1 DEF Upsert
<1>5. \A k \in DOMAIN Chunk : results[k] \in ScoreRows /\ results[k] # NoRow
  <2>1. TAKE k \in DOMAIN Chunk
  <2>2. history[Chunk[k]] \in Messages
    BY <1>1, <1>2
  <2>3. history[Chunk[k]].text \in AllTexts
    BY <2>2 DEF Messages
  <2>4. Neutral \in ScoreRows /\ Neutral # NoRow
    BY DEF Neutral, ScoreRows, NoRow
  <2> QED BY <2>3, <2>4, ResultOfText
<1>6. ASSUME NEW m \in 1..n
      PROVE  /\ scores'[m] \in ScoreRows /\ OwnRow(m)'
             /\ scores[m] # NoRow => scores'[m] # NoRow
             /\ Placed(m) # {} => scores'[m] # NoRow
  <2>1. scores[m] \in ScoreRows /\ OwnRow(m)
    BY <1>1 DEF ScoresInv
  <2>2. CASE Placed(m) = {} \/ (scores[m] # NoRow /\ ~pass.redo)
    <3>1. scores'[m] = scores[m]
      BY <1>3, <2>2
    <3> QED BY <2>1, <2>2, <3>1 DEF OwnRow
  <2>3. CASE ~(Placed(m) = {} \/ (scores[m] # NoRow /\ ~pass.redo))
    <3>1. PICK k \in DOMAIN Chunk : Chunk[k] = m /\ scores'[m] = results[k]
      <4>1. (CHOOSE k \in Placed(m) : TRUE) \in Placed(m)
        BY <2>3
      <4>2. scores'[m] = results[CHOOSE k \in Placed(m) : TRUE]
        BY <1>3, <2>3
      <4> QED BY <4>1, <4>2
    <3>2. scores'[m] \in ScoreRows /\ scores'[m] # NoRow
      BY <1>5, <3>1
    <3> QED BY <1>2, <3>1, <3>2 DEF OwnRow
  <2> QED BY <2>2, <2>3
<1>7. ScoresOK' /\ HistoryOK'
  <2>1. scores' = [m \in 1..n |-> scores'[m]]
    BY <1>1, <1>4 DEF Upsert
  <2>2. scores' \in [1..n -> ScoreRows]
    BY <1>6, <2>1
  <2>3. scores' \in Seq(ScoreRows) /\ Len(scores') = n
    BY <1>1, <2>2
  <2> QED BY <1>1, <2>3 DEF ScoresOK, HistoryOK
<1>8. pass' = [pass EXCEPT !.done = pass.done + Len(Chunk), !.attempt = 0,
                           !.running = pass.done + Len(Chunk) < Len(pass.pending)]
  BY DEF Advance
<1>9. PassTypes'
  <2>1. pass \in [running : BOOLEAN, redo : BOOLEAN, pending : Seq(Nat), done : Nat, attempt : 0..ClientRetries]
    BY DEF ScoresInv, PassTypes
  <2>2. pass.done + Len(Chunk) \in Nat /\ (pass.done + Len(Chunk) < Len(pass.pending)) \in BOOLEAN
    BY ChunkIsNext
  <2>3. 0 \in 0..ClientRetries
    BY DEF ScoresConstants
  <2>4. pass' \in [running : BOOLEAN, redo : BOOLEAN, pending : Seq(Nat), done : Nat, attempt : 0..ClientRetries]
    BY <1>8, <2>1, <2>2, <2>3
  <2> QED BY <2>4 DEF ScoresInv, PassTypes
<1>10. /\ pass'.pending = pass.pending /\ pass'.done = pass.done + Len(Chunk)
  BY <1>8 DEF ScoresInv, PassTypes
<1>11. QueueOK'
  <2>1. pass.done + Len(Chunk) \in 0..Len(pass.pending)
    BY ChunkIsNext
  <2> QED BY <1>10, <2>1 DEF ScoresInv, QueueOK
<1>12. PassCoversQueue'
  <2>1. SUFFICES ASSUME NEW k \in 1..(pass.done + Len(Chunk)) PROVE scores'[pass.pending[k]] # NoRow
    BY <1>10 DEF PassCoversQueue
  <2>2. k \in DOMAIN pass.pending /\ pass.pending[k] \in 1..n
    <3>1. k \in DOMAIN pass.pending
      BY ChunkIsNext DEF ScoresInv, QueueOK
    <3> QED BY <1>1, <3>1 DEF ScoresInv, QueueOK
  <2>3. CASE k <= pass.done
    <3>1. k \in 1..pass.done
      BY <2>3, ChunkIsNext
    <3>2. scores[pass.pending[k]] # NoRow
      BY <3>1 DEF ScoresInv, PassCoversQueue
    <3> QED BY <1>6, <2>2, <3>2
  <2>4. CASE k > pass.done
    <3>1. k - pass.done \in DOMAIN Chunk /\ pass.done + (k - pass.done) = k
      BY <2>4, ChunkIsNext
    <3>2. Chunk[k - pass.done] = pass.pending[k]
      BY <3>1, ChunkIsNext
    <3>3. Placed(pass.pending[k]) # {}
      BY <3>1, <3>2
    <3> QED BY <1>6, <2>2, <3>3
  <2> QED BY <2>3, <2>4, ChunkIsNext
<1>13. \A m \in DOMAIN scores' : OwnRow(m)'
  BY <1>4, <1>6
<1> QED BY <1>7, <1>9, <1>11, <1>12, <1>13 DEF ScoresInv

LEMMA ScoresStep == ASSUME ScoresConstants, ScoresInv, [ScoresNext]_scoreVars PROVE ScoresInv'
<1>1. ASSUME NEW at \in Times, StoreMessage(TRUE, at, AgentText) PROVE ScoresInv'
  BY <1>1, StoreKeeps DEF AllTexts
<1>2. ASSUME NEW at \in Times, NEW text \in Contents, StoreMessage(FALSE, at, text) PROVE ScoresInv'
  BY <1>2, StoreKeeps DEF AllTexts
<1>3. ASSUME NEW redo \in BOOLEAN, StartPass(redo) PROVE ScoresInv'
  BY <1>3, StartKeeps
<1>4. ASSUME AnalyseChunk PROVE ScoresInv'
  <2> DEFINE texts == [k \in DOMAIN Chunk |-> history[Chunk[k]].text]
             results == AnalyseBatch(texts)
  <2>1. scores' = Upsert(results) /\ pass' = Advance /\ UNCHANGED <<history, passes, failures, spoilt>>
    BY <1>4 DEF AnalyseChunk
  <2>2. Len(Chunk) \in Nat /\ DOMAIN texts = 1..Len(Chunk)
    BY ChunkIsNext
  <2>3. \A k \in DOMAIN Chunk : ~texts[k].blank
    BY ChunkIsNext DEF ScoresInv, QueueOK
  <2>4. \A k \in DOMAIN Chunk : texts[k] = history[Chunk[k]].text
    OBVIOUS
  <2>5. \A k \in DOMAIN Chunk : results[k] = ComposeResult(history[Chunk[k]].text)
    <3> HIDE DEF texts
    <3> QED BY <2>2, <2>3, <2>4, AnswersInPlace
  <2>6. spoilt' \in BOOLEAN /\ failures' \in 0..MaxFailures
    BY <2>1 DEF ScoresInv, PassTypes
  <2> HIDE DEF results
  <2> QED BY <2>1, <2>5, <2>6, ChunkKeeps
<1>5. ASSUME Retry PROVE ScoresInv'
  <2>1. /\ failures < MaxFailures /\ failures' = failures + 1 /\ pass.attempt < ClientRetries
        /\ pass' = [pass EXCEPT !.attempt = pass.attempt + 1]
        /\ UNCHANGED <<history, scores, passes, spoilt>>
    BY <1>5 DEF Retry
  <2>2. PassTypes'
    <3>1. /\ pass \in [running : BOOLEAN, redo : BOOLEAN, pending : Seq(Nat), done : Nat, attempt : 0..ClientRetries]
          /\ failures \in 0..MaxFailures
      BY DEF ScoresInv, PassTypes
    <3>2. pass.attempt + 1 \in 0..ClientRetries /\ failures + 1 \in 0..MaxFailures
      BY <2>1, <3>1 DEF ScoresConstants
    <3>3. pass' \in [running : BOOLEAN, redo : BOOLEAN, pending : Seq(Nat), done : Nat, attempt : 0..ClientRetries]
      BY <2>1, <3>1, <3>2
    <3> QED BY <2>1, <3>2, <3>3 DEF ScoresInv, PassTypes
  <2>3. pass'.pending = pass.pending /\ pass'.done = pass.done
    BY <2>1 DEF ScoresInv, PassTypes
  <2>4. HistoryOK' /\ ScoresOK' /\ \A m \in DOMAIN scores' : OwnRow(m)'
    BY <2>1 DEF ScoresInv, HistoryOK, ScoresOK, OwnRow
  <2>5. QueueOK' /\ PassCoversQueue'
    BY <2>1, <2>3 DEF ScoresInv, QueueOK, PassCoversQueue
  <2> QED BY <2>2, <2>4, <2>5 DEF ScoresInv
<1>6. ASSUME GiveUp PROVE ScoresInv'
  <2> DEFINE results == [k \in DOMAIN Chunk |-> Neutral]
  <2>1. /\ scores' = Upsert(results) /\ pass' = Advance /\ spoilt' = TRUE
        /\ failures < MaxFailures /\ failures' = failures + 1 /\ UNCHANGED <<history, passes>>
    BY <1>6 DEF GiveUp
  <2>2. failures' \in 0..MaxFailures
    BY <2>1 DEF ScoresInv, PassTypes, ScoresConstants
  <2>3. \A k \in DOMAIN Chunk : spoilt' /\ results[k] = Neutral
    BY <2>1
  <2> HIDE DEF results
  <2> QED BY <2>1, <2>2, <2>3, ChunkKeeps
<1>7. ASSUME CancelPass PROVE ScoresInv'
  <2>1. pass' = Idle /\ UNCHANGED <<history, scores, passes, failures, spoilt>>
    BY <1>7 DEF CancelPass
  <2>2. /\ pass'.pending = <<>> /\ pass'.done = 0 /\ Len(<<>>) = 0 /\ DOMAIN <<>> = {} /\ <<>> \in Seq(Nat)
    BY <2>1 DEF Idle
  <2>3. PassTypes'
    <3>1. 0 \in 0..ClientRetries
      BY DEF ScoresConstants
    <3>2. pass' \in [running : BOOLEAN, redo : BOOLEAN, pending : Seq(Nat), done : Nat, attempt : 0..ClientRetries]
      BY <2>1, <2>2, <3>1 DEF Idle
    <3> QED BY <2>1, <3>2 DEF ScoresInv, PassTypes
  <2>4. HistoryOK' /\ ScoresOK' /\ \A m \in DOMAIN scores' : OwnRow(m)'
    BY <2>1 DEF ScoresInv, HistoryOK, ScoresOK, OwnRow
  <2>5. QueueOK' /\ PassCoversQueue'
    BY <2>2 DEF QueueOK, PassCoversQueue
  <2> QED BY <2>3, <2>4, <2>5 DEF ScoresInv
<1>8. ASSUME UNCHANGED scoreVars PROVE ScoresInv'
  BY <1>8 DEF scoreVars, ScoresInv, HistoryOK, ScoresOK, PassTypes, QueueOK, OwnRow, PassCoversQueue
<1> QED BY <1>1, <1>2, <1>3, <1>4, <1>5, <1>6, <1>7, <1>8 DEF ScoresNext

-----------------------------------------------------------------------------
(* The figures of a conversation *)

LEMMA MessageFields ==
  ASSUME ScoresConstants, ScoresInv
  PROVE  /\ Len(history) \in Nat /\ DOMAIN history = 1..Len(history) /\ IsFiniteSet(DOMAIN history)
         /\ DOMAIN scores = DOMAIN history
         /\ \A m \in DOMAIN history : /\ history[m].agent \in BOOLEAN /\ history[m].at \in Int
                                      /\ history[m].at \in Times /\ history[m].text \in AllTexts
<1>1. /\ history \in Seq(Messages) /\ scores \in Seq(ScoreRows) /\ Len(scores) = Len(history)
      /\ Times \subseteq Nat
  BY DEF ScoresInv, HistoryOK, ScoresOK, ScoresConstants
<1>2. Len(history) \in Nat /\ DOMAIN history = 1..Len(history) /\ DOMAIN scores = DOMAIN history
  BY <1>1
<1>3. IsFiniteSet(DOMAIN history)
  BY <1>2, FS_Interval
<1>4. \A m \in DOMAIN history : history[m] \in Messages
  BY <1>1
<1>5. \A m \in DOMAIN history : /\ history[m].agent \in BOOLEAN
                                /\ history[m].at \in Times /\ history[m].text \in AllTexts
  BY <1>4 DEF Messages
<1>6. \A m \in DOMAIN history : history[m].at \in Int
  <2>1. Times \subseteq Int
    BY DEF ScoresConstants
  <2> QED BY <1>5, <2>1
<1> QED BY <1>2, <1>3, <1>5, <1>6

LEMMA RowsRight == ASSUME ScoresConstants, ScoresInv PROVE RowsAreOwn /\ PassCoversQueue /\ StarsInBand
<1>1. \A m \in DOMAIN scores : OwnRow(m)
  BY DEF ScoresInv
<1> DEFINE texts == [m \in DOMAIN history |-> history[m].text]
<1>2. \A m \in DOMAIN texts : AnalyseBatch(texts)[m] = IF texts[m].blank THEN Neutral ELSE ComposeResult(texts[m])
  <2>1. Len(history) \in Nat /\ DOMAIN texts = 1..Len(history)
    BY MessageFields
  <2> HIDE DEF texts
  <2> QED BY <2>1, AnswersInPlace
<1>3. RowsAreOwn
  BY <1>1, <1>2 DEF RowsAreOwn, OwnRow
<1>4. StarsInBand
  <2>1. SUFFICES ASSUME NEW m \in DOMAIN history
                 PROVE  LET text == history[m].text
                            result == ComposeResult(text)
                        IN  /\ result.stars \in 1..5
                            /\ result.stars - text.raw \in -1..1
                            /\ (result.label = "POSITIVE") = (result.stars > 3)
                            /\ (result.label = "NEGATIVE") = (result.stars < 3)
    BY DEF StarsInBand
  <2>2. history[m].text \in AllTexts
    BY MessageFields
  <2> QED BY <2>2, ResultOfText
<1> QED BY <1>3, <1>4 DEF ScoresInv

\* Messages are in the order of their times.
LEMMA TimeOrder ==
  ASSUME ScoresConstants, ScoresInv, NEW S \in SUBSET DOMAIN history
  PROVE  /\ IsFiniteSet(S) /\ Cardinality(S) \in Nat
         /\ Ordered(S, ByTime(S)) \in Seq(S) /\ Len(Ordered(S, ByTime(S))) = Cardinality(S)
         /\ DOMAIN Ordered(S, ByTime(S)) = 1..Cardinality(S)
         /\ Ordered(S, ByTime(S)) \in Bijection(1..Cardinality(S), S)
         /\ \A i, j \in 1..Cardinality(S) : i < j =>
               LET m == Ordered(S, ByTime(S))[i]
                   n == Ordered(S, ByTime(S))[j]
               IN  \/ history[m].at < history[n].at
                   \/ history[m].at = history[n].at /\ m < n
<1> DEFINE R == ByTime(S)
           order == Ordered(S, R)
<1>1. \A x, y \in S : <<x, y>> \in R <=> \/ history[x].at < history[y].at
                                         \/ history[x].at = history[y].at /\ x < y
  BY DEF ByTime
<1>2. \A x \in S : x \in Int /\ history[x].at \in Int
  BY MessageFields
<1>3. IsFiniteSet(S)
  BY MessageFields, FS_Subset
<1> HIDE DEF R
<1>4. StrictOrder(S, R)
  <2>1. \A x \in S : <<x, x>> \notin R
    BY <1>1, <1>2
  <2>2. \A x, y, z \in S : <<x, y>> \in R /\ <<y, z>> \in R => <<x, z>> \in R
    <3>1. TAKE x, y, z \in S
    <3> QED BY <1>1, <1>2
  <2>3. \A x, y \in S : x # y => <<x, y>> \in R \/ <<y, x>> \in R
    BY <1>1, <1>2
  <2> QED BY <2>1, <2>2, <2>3 DEF StrictOrder
<1>5. /\ Cardinality(S) \in Nat
      /\ order \in Seq(S) /\ Len(order) = Cardinality(S)
      /\ DOMAIN order = 1..Cardinality(S)
      /\ order \in Bijection(1..Cardinality(S), S)
      /\ \A i, j \in 1..Cardinality(S) : i < j => <<order[i], order[j]>> \in R
  BY <1>3, <1>4, OrderedLists
<1>6. \A i \in 1..Cardinality(S) : order[i] \in S
  BY <1>5, BijectionFacts
<1>7. ASSUME NEW i \in 1..Cardinality(S), NEW j \in 1..Cardinality(S), i < j
      PROVE  \/ history[order[i]].at < history[order[j]].at
             \/ history[order[i]].at = history[order[j]].at /\ order[i] < order[j]
  BY <1>1, <1>5, <1>6, <1>7
<1> QED BY <1>3, <1>5, <1>7 DEF R

\* The arc is over the stars of the member messages, from 1 to 5 each.
LEMMA ArcRight == ASSUME ScoresConstants, ScoresInv, MemberMessages # <<>> PROVE ArcMatchesStars
<1> DEFINE S == {m \in DOMAIN history : ~history[m].agent}
           n == Len(MemberMessages)
           stars == [k \in DOMAIN MemberMessages |-> StarsOf(MemberMessages[k])]
           arc == SentimentArc
<1>1. MemberMessages = Ordered(S, ByTime(S))
  BY DEF MemberMessages
<1>2. MemberMessages \in Seq(S) /\ n \in Nat /\ DOMAIN MemberMessages = 1..n
  <2>1. S \in SUBSET DOMAIN history
    OBVIOUS
  <2> HIDE DEF S
  <2> QED BY <1>1, <2>1, TimeOrder
<1>3. n > 0
  BY <1>2
<1>4. \A k \in 1..n : MemberMessages[k] \in DOMAIN history
  BY <1>2
<1>5. \A m \in DOMAIN history : StarsOf(m) \in 1..5
  <2>1. TAKE m \in DOMAIN history
  <2>2. CASE scores[m] = NoRow
    BY <2>2 DEF StarsOf
  <2>3. CASE scores[m] # NoRow
    <3>1. OwnRow(m) /\ history[m].text \in AllTexts
      BY MessageFields DEF ScoresInv
    <3>2. ComposeResult(history[m].text).stars \in 1..5 /\ Neutral.stars \in 1..5
      BY <3>1, ResultOfText DEF Neutral
    <3>3. StarsOf(m) = scores[m].stars
      BY <2>3 DEF StarsOf
    <3> QED BY <2>3, <3>1, <3>2, <3>3 DEF OwnRow
  <2> QED BY <2>2, <2>3
<1>6. /\ DOMAIN stars = 1..n /\ Len(stars) = n /\ \A k \in 1..n : stars[k] \in 1..5
  BY <1>2, <1>4, <1>5
<1>7. /\ arc.start = stars[1] /\ arc.end = stars[n] /\ arc.sum = SumOf(stars)
      /\ arc.low = Min(Range(stars)) /\ arc.high = Max(Range(stars))
      /\ arc.trajectory = Trajectory(stars[1], stars[n], Range(stars))
  BY <1>6 DEF SentimentArc
<1> HIDE DEF stars, arc, n
<1> DEFINE values == Range(stars)
           low == Min(values)
           high == Max(values)
<1>8. /\ values \subseteq 1..5 /\ values # {} /\ \A k \in 1..n : stars[k] \in values
      /\ \A v \in values : \E k \in 1..n : v = stars[k]
  BY <1>2, <1>3, <1>6 DEF Range
<1>9. /\ low \in values /\ high \in values /\ \A v \in values : low <= v /\ v <= high
  <2>1. IsFiniteSet(values)
    <3>1. 1 \in Int /\ 5 \in Int
      OBVIOUS
    <3>2. IsFiniteSet(1..5)
      BY <3>1, FS_Interval
    <3> QED BY <1>8, <3>2, FS_Subset
  <2>2. values \subseteq Int
    BY <1>8
  <2> HIDE DEF values
  <2> QED BY <1>8, <2>1, <2>2, Extremes
<1>10. stars[1] \in values /\ stars[n] \in values
  BY <1>2, <1>3, <1>8
<1>11. n * low <= arc.sum /\ arc.sum <= n * high
  <2>1. SumOf(stars) = SumOver(stars, 1..n)
    BY <1>6, FoldIsSum DEF SumOf
  <2>2. IsFiniteSet(1..n) /\ Cardinality(1..n) = n
    BY <1>2, FS_Interval
  <2>3. low \in Int /\ high \in Int
    BY <1>8, <1>9
  <2>4. \A k \in 1..n : stars[k] \in Int /\ low <= stars[k] /\ stars[k] <= high
    BY <1>6, <1>8, <1>9
  <2> HIDE DEF low, high
  <2>5. Cardinality(1..n) * low <= SumOver(stars, 1..n) /\ SumOver(stars, 1..n) <= Cardinality(1..n) * high
    BY <2>2, <2>3, <2>4, SumBounds
  <2> QED BY <1>7, <2>1, <2>2, <2>5
<1>12. arc.sum \in Int
  <2>1. SumOf(stars) = SumOver(stars, 1..n)
    BY <1>6, FoldIsSum DEF SumOf
  <2>2. IsFiniteSet(1..n)
    BY <1>2, FS_Interval
  <2>3. \A k \in 1..n : stars[k] \in Int
    BY <1>6
  <2>4. SumOver(stars, 1..n) \in Int
    BY <2>2, <2>3, SumTakeOut
  <2> QED BY <1>7, <2>1, <2>4
<1> DEFINE start == stars[1]
           end == stars[n]
           t == Trajectory(start, end, values)
<1>13. start \in 1..5 /\ end \in 1..5 /\ low \in 1..5 /\ high \in 1..5 /\ start \in values /\ end \in values
  BY <1>8, <1>9, <1>10
<1>14. /\ (\A s \in values : s >= 4) <=> low >= 4
       /\ (\A s \in values : s <= 2) <=> high <= 2
       /\ values = {3} <=> low = 3 /\ high = 3
  BY <1>8, <1>9, <1>13
<1>15. \A s \in values : s \in 1..5
  BY <1>8
<1> HIDE DEF values, low, high, start, end, t
<1>16. /\ (t = "improving") <=> end > start
       /\ (t = "worsening") <=> end < start
       /\ (t = "stable_positive") <=> (end = start /\ low >= 4)
       /\ (t = "stable_negative") <=> (end = start /\ high <= 2)
       /\ (t = "stable_neutral") <=> (low = 3 /\ high = 3)
  <2>1. t = IF end > start THEN "improving" ELSE IF end < start THEN "worsening"
            ELSE IF low >= 4 THEN "stable_positive" ELSE IF high <= 2 THEN "stable_negative"
            ELSE IF values = {3} THEN "stable_neutral" ELSE "mixed"
    BY <1>13, <1>14 DEF t, Trajectory
  <2>2. low = 3 /\ high = 3 => start = 3 /\ end = 3
    BY <1>9, <1>13
  <2>3. low <= start /\ start <= high
    BY <1>9, <1>13
  <2> QED BY <1>13, <1>14, <2>1, <2>2, <2>3
<1>17. arc.start = start /\ arc.end = end /\ arc.low = low /\ arc.high = high /\ arc.trajectory = t
  BY <1>7 DEF start, end, low, high, values, t
<1>18. low <= start /\ start <= high /\ low <= end /\ end <= high
  BY <1>9, <1>13
<1>19. {arc.start, arc.end} \subseteq arc.low..arc.high
  BY <1>13, <1>17, <1>18
<1>20. n * low \in Int /\ n * high \in Int
  BY <1>2, <1>13
<1>21. arc.sum \in (n * arc.low)..(n * arc.high)
  BY <1>11, <1>12, <1>17, <1>20
<1> QED BY <1>16, <1>17, <1>19, <1>21 DEF ArcMatchesStars, arc, n

\* At each place k of the ordered messages: an agent message answers the message
\* there if one comes later, after the time to the first of them.
LEMMA NextIsFirstAnswer ==
  ASSUME ScoresConstants, ScoresInv, NEW k \in 1..Len(history)
  PROVE  LET later == {j \in (k + 1)..Len(history) : history[OrderedMessages[j]].agent}
             gap == history[NextAgent(k)].at - history[OrderedMessages[k]].at
         IN  /\ (NextAgent(k) = 0) <=> later = {}
             /\ (AnswerDelays(OrderedMessages[k]) = {}) <=> later = {}
             /\ later # {} => gap \in Nat /\ Min(AnswerDelays(OrderedMessages[k])) = gap
<1> DEFINE n == Len(history)
           o == OrderedMessages
           later == {j \in (k + 1)..n : history[o[j]].agent}
           delays == AnswerDelays(o[k])
           At(j) == history[o[j]].at
<1>1. /\ n \in Nat /\ DOMAIN history = 1..n
      /\ Len(o) = n /\ DOMAIN o = 1..n /\ o \in Bijection(1..n, 1..n)
      /\ \A i, j \in 1..n : i < j => At(i) < At(j) \/ (At(i) = At(j) /\ o[i] < o[j])
  <2>1. n \in Nat /\ DOMAIN history = 1..n /\ Cardinality(DOMAIN history) = n
    BY MessageFields, FS_Interval
  <2>2. o = Ordered(DOMAIN history, ByTime(DOMAIN history))
    BY DEF OrderedMessages
  <2>3. DOMAIN history \in SUBSET DOMAIN history
    OBVIOUS
  <2> HIDE DEF o
  <2>4. /\ Len(o) = Cardinality(DOMAIN history) /\ DOMAIN o = 1..Cardinality(DOMAIN history)
        /\ o \in Bijection(1..Cardinality(DOMAIN history), DOMAIN history)
        /\ \A i, j \in 1..Cardinality(DOMAIN history) : i < j =>
              At(i) < At(j) \/ (At(i) = At(j) /\ o[i] < o[j])
    BY <2>2, <2>3, TimeOrder
  <2> QED BY <2>1, <2>4
<1>2. /\ \A i \in 1..n : o[i] \in 1..n /\ At(i) \in Int
      /\ \A m \in 1..n : \E i \in 1..n : o[i] = m
      /\ \A i, j \in 1..n : o[i] = o[j] => i = j
  <2>1. /\ o \in [1..n -> 1..n] /\ \A m \in 1..n : \E i \in 1..n : o[i] = m
        /\ \A i, j \in 1..n : o[i] = o[j] => i = j
    BY <1>1 DEF Bijection, Injection, Surjection, IsInjective
  <2> QED BY <1>1, <2>1, MessageFields
<1>3. later \subseteq 1..n /\ later \subseteq Nat /\ \A j \in later : k < j /\ history[o[j]].agent
  BY <1>1
<1>4. NextAgent(k) = IF later = {} THEN 0 ELSE o[Min(later)]
  BY <1>1 DEF NextAgent
<1>5. ASSUME NEW d
      PROVE  d \in delays <=> \E j \in later : d = At(j) - At(k)
  <2>1. d \in delays <=> \E a \in 1..n : /\ d = history[a].at - At(k) /\ history[a].agent
                                         /\ history[a].at > At(k) \/ (history[a].at = At(k) /\ a > o[k])
    BY <1>1 DEF AnswerDelays
  <2>2. ASSUME NEW j \in 1..n
        PROVE  j > k <=> At(j) > At(k) \/ (At(j) = At(k) /\ o[j] > o[k])
    <3>1. At(j) \in Int /\ At(k) \in Int /\ o[j] \in Int /\ o[k] \in Int
      <4>1. k \in 1..n /\ \A i \in 1..n : o[i] \in 1..n /\ At(i) \in Int
        BY <1>2
      <4>2. \A i \in 1..n : i \in Int
        BY <1>1
      <4> HIDE DEF At, o
      <4> QED BY <4>1, <4>2
    <3>2. k < j => At(k) < At(j) \/ (At(k) = At(j) /\ o[k] < o[j])
      BY <1>1
    <3>3. j < k => At(j) < At(k) \/ (At(j) = At(k) /\ o[j] < o[k])
      BY <1>1
    <3> HIDE DEF At, o
    <3> QED BY <3>1, <3>2, <3>3
  <2>3. ASSUME NEW j \in later, d = At(j) - At(k) PROVE d \in delays
    <3>1. j \in 1..n /\ o[j] \in 1..n /\ j > k /\ history[o[j]].agent
      BY <1>2, <1>3
    <3> QED BY <2>1, <2>2, <2>3, <3>1
  <2>4. ASSUME d \in delays PROVE \E j \in later : d = At(j) - At(k)
    <3>1. PICK a \in 1..n : /\ d = history[a].at - At(k) /\ history[a].agent
                            /\ history[a].at > At(k) \/ (history[a].at = At(k) /\ a > o[k])
      BY <2>1, <2>4
    <3>2. PICK j \in 1..n : o[j] = a
      BY <1>2
    <3>3. j > k
      BY <2>2, <3>1, <3>2
    <3>4. j \in (k + 1)..n
      BY <1>1, <3>3
    <3> QED BY <3>1, <3>2, <3>4
  <2> QED BY <2>3, <2>4
<1>6. CASE later = {}
  <2>1. delays = {}
    BY <1>5, <1>6
  <2> QED BY <1>1, <1>4, <1>6, <2>1
<1>7. CASE later # {}
  <2> DEFINE first == Min(later)
             gap == At(first) - At(k)
  <2>1. first \in later /\ \A j \in later : first <= j
    <3> HIDE DEF later
    <3> QED BY <1>3, <1>7, LeastElement
  <2>2. first \in 1..n /\ k < first /\ NextAgent(k) = o[first] /\ o[first] \in 1..n
    BY <1>2, <1>3, <1>4, <1>7, <2>1
  <2>3. gap \in Nat
    <3> HIDE DEF first
    <3>1. At(first) \in Int /\ At(k) \in Int
      BY <1>2, <2>2
    <3>2. At(k) < At(first) \/ At(k) = At(first)
      BY <1>1, <2>2
    <3> HIDE DEF At
    <3> QED BY <3>1, <3>2
  <2>4. gap \in delays
    BY <1>5, <2>1
  <2>5. ASSUME NEW d \in delays PROVE d \in Int /\ gap <= d
    <3>1. PICK j \in later : d = At(j) - At(k)
      BY <1>5
    <3>2. first <= j /\ j \in 1..n
      BY <1>3, <2>1
    <3>3. At(first) \in Int /\ At(j) \in Int /\ At(k) \in Int
      BY <1>2, <2>2, <3>2
    <3> HIDE DEF first
    <3>4. At(first) <= At(j)
      <4>1. CASE first < j
        <5>1. At(first) < At(j) \/ At(first) = At(j)
          BY <1>1, <2>2, <3>2, <4>1
        <5> HIDE DEF At
        <5> QED BY <3>3, <5>1
      <4>2. CASE first = j
        BY <3>3, <4>2
      <4> QED BY <2>2, <3>2, <4>1, <4>2
    <3> HIDE DEF At
    <3> QED BY <3>1, <3>3, <3>4
  <2>6. Min(delays) = gap
    <3>1. delays \subseteq Int /\ \A d \in delays : gap <= d
      BY <2>5
    <3> HIDE DEF delays, gap
    <3> QED BY <2>4, <3>1, ExtremeIs
  <2>7. NextAgent(k) # 0 /\ delays # {} /\ gap = history[NextAgent(k)].at - history[o[k]].at
    BY <1>1, <2>2, <2>4
  <2> HIDE DEF gap
  <2> QED BY <1>7, <2>3, <2>6, <2>7
<1> QED BY <1>1, <1>6, <1>7

\* The median lies between the least and the largest gap.
LEMMA MedianBetween ==
  ASSUME NEW s \in Seq(Int), s # <<>>
  PROVE  TwiceMedian(s) \in (2 * Min(Range(s)))..(2 * Max(Range(s)))
<1> DEFINE n == Len(s)
           low == Min(Range(s))
           high == Max(Range(s))
<1>1. n \in Nat /\ n > 0 /\ DOMAIN s = 1..n /\ IsFiniteSet(1..n) /\ Cardinality(1..n) = n
  <2>1. n \in Nat /\ n > 0 /\ DOMAIN s = 1..n
    OBVIOUS
  <2> QED BY <2>1, FS_Interval
<1>2. \A i \in 1..n : s[i] \in Int
  BY <1>1
<1>3. /\ Range(s) \subseteq Int /\ Range(s) # {} /\ IsFiniteSet(Range(s)) /\ \A i \in 1..n : s[i] \in Range(s)
  <2>1. Range(s) = {s[i] : i \in 1..n}
    BY <1>1 DEF Range
  <2>2. IsFiniteSet(Range(s))
    BY <1>1, RangeFinite
  <2>3. 1 \in 1..n
    BY <1>1
  <2> QED BY <1>2, <2>1, <2>2, <2>3
<1>4. low \in Int /\ high \in Int /\ \A i \in 1..n : low <= s[i] /\ s[i] <= high
  <2>1. low \in Range(s) /\ high \in Range(s) /\ \A v \in Range(s) : low <= v /\ v <= high
    BY <1>3, Extremes
  <2> QED BY <1>3, <2>1
<1> HIDE DEF low, high, n
<1> DEFINE sorted == Sorted(s)
<1>5. \A i \in 1..n : sorted[i] \in Int /\ low <= sorted[i] /\ sorted[i] <= high
  <2>1. PICK b \in Bijection(1..n, 1..n) : \A i \in 1..n : sorted[i] = s[b[i]]
    <3>1. IsFiniteSet(DOMAIN s) /\ DOMAIN s \subseteq Int /\ (\A i \in DOMAIN s : s[i] \in Int) /\ Cardinality(DOMAIN s) = n
      BY <1>1, <1>2
    <3>2. \E b \in Bijection(1..Cardinality(DOMAIN s), DOMAIN s) :
             \A i \in 1..Cardinality(DOMAIN s) : sorted[i] = s[b[i]]
      BY <3>1, SortedLists
    <3> QED BY <1>1, <3>1, <3>2
  <2>2. \A i \in 1..n : b[i] \in 1..n
    BY <2>1 DEF Bijection, Injection
  <2> QED BY <1>2, <1>4, <2>1, <2>2
<1>6. CASE n % 2 = 1
  <2>1. (n + 1) \div 2 \in 1..n
    BY <1>1, <1>6
  <2>2. TwiceMedian(s) = 2 * sorted[(n + 1) \div 2]
    BY <1>6 DEF TwiceMedian, n
  <2>3. sorted[(n + 1) \div 2] \in Int /\ low <= sorted[(n + 1) \div 2] /\ sorted[(n + 1) \div 2] <= high
    BY <1>5, <2>1
  <2> HIDE DEF sorted
  <2> QED BY <1>4, <2>2, <2>3 DEF low, high
<1>7. CASE n % 2 # 1
  <2>1. n \div 2 \in 1..n /\ n \div 2 + 1 \in 1..n
    BY <1>1, <1>7
  <2>2. TwiceMedian(s) = sorted[n \div 2] + sorted[n \div 2 + 1]
    BY <1>7 DEF TwiceMedian, n
  <2>3. /\ sorted[n \div 2] \in Int /\ low <= sorted[n \div 2] /\ sorted[n \div 2] <= high
        /\ sorted[n \div 2 + 1] \in Int /\ low <= sorted[n \div 2 + 1] /\ sorted[n \div 2 + 1] <= high
    BY <1>5, <2>1
  <2> HIDE DEF sorted
  <2> QED BY <1>4, <2>2, <2>3 DEF low, high
<1> QED BY <1>6, <1>7

\* Member messages are answered, once each and after the shortest delay, or not.
LEMMA GapsRight == ASSUME ScoresConstants, ScoresInv PROVE GapsMatchAnswers
<1> DEFINE n == Len(history)
           o == OrderedMessages
           Later(k) == {j \in (k + 1)..n : history[o[j]].agent}
           Gap(k) == history[NextAgent(k)].at - history[o[k]].at
           Asks(k) == ~history[o[k]].agent
           members == {m \in DOMAIN history : ~history[m].agent}
           answered == {m \in members : AnswerDelays(m) # {}}
           places == {k \in 1..n : Asks(k) /\ NextAgent(k) # 0 /\ Gap(k) >= 0}
           silent == {k \in 1..n : Asks(k) /\ NextAgent(k) = 0}
           all == {k \in 1..n : Asks(k)}
           gaps == ResponseGaps
<1>1. /\ n \in Nat /\ DOMAIN history = 1..n /\ IsFiniteSet(1..n)
      /\ DOMAIN o = 1..n /\ o \in Bijection(1..n, 1..n)
  <2>1. n \in Nat /\ DOMAIN history = 1..n /\ Cardinality(DOMAIN history) = n /\ IsFiniteSet(1..n)
    BY MessageFields, FS_Interval
  <2>2. o = Ordered(DOMAIN history, ByTime(DOMAIN history))
    BY DEF OrderedMessages
  <2>3. DOMAIN history \in SUBSET DOMAIN history
    OBVIOUS
  <2> HIDE DEF o
  <2>4. /\ DOMAIN o = 1..Cardinality(DOMAIN history)
        /\ o \in Bijection(1..Cardinality(DOMAIN history), DOMAIN history)
    BY <2>2, <2>3, TimeOrder
  <2> QED BY <2>1, <2>4
<1>2. \A k \in 1..n : o[k] \in 1..n
  BY <1>1 DEF Bijection, Injection
<1>3. \A k \in 1..n : /\ (NextAgent(k) = 0) <=> (AnswerDelays(o[k]) = {})
                      /\ NextAgent(k) # 0 => Gap(k) \in Nat /\ Min(AnswerDelays(o[k])) = Gap(k)
  BY NextIsFirstAnswer
<1> HIDE DEF o, n, Gap
<1>4. places = {k \in 1..n : Asks(k) /\ NextAgent(k) # 0}
  <2>1. \A k \in 1..n : NextAgent(k) # 0 => Gap(k) >= 0
    BY <1>3
  <2> QED BY <2>1
<1>5. /\ IsFiniteSet(places) /\ IsFiniteSet(silent) /\ Cardinality(places) \in Nat /\ Cardinality(silent) \in Nat
      /\ Cardinality(places) + Cardinality(silent) = Cardinality(all)
  <2>1. IsFiniteSet(places) /\ IsFiniteSet(silent)
    <3>1. places \subseteq 1..n /\ silent \subseteq 1..n
      OBVIOUS
    <3> QED BY <1>1, <3>1, FS_Subset
  <2>2. places \cap silent = {} /\ places \cup silent = all
    BY <1>4
  <2> HIDE DEF places, silent, all
  <2>3. Cardinality(places \cup silent) = Cardinality(places) + Cardinality(silent) - Cardinality(places \cap silent)
    BY <2>1, FS_Union
  <2>4. Cardinality({}) = 0 /\ Cardinality(places) \in Nat /\ Cardinality(silent) \in Nat
    BY <2>1, FS_EmptySet, FS_CardinalityType
  <2>5. Cardinality(places \cap silent) = 0
    BY <2>2, <2>4
  <2>6. Cardinality(all) = Cardinality(places) + Cardinality(silent) - 0
    BY <2>2, <2>3, <2>5
  <2> QED BY <2>1, <2>4, <2>6
<1>6. Cardinality(all) = Cardinality(members)
  <2>1. all \in SUBSET (1..n) /\ members \in SUBSET (1..n) /\ \A k \in 1..n : k \in all <=> o[k] \in members
    BY <1>1, <1>2
  <2> DEFINE P == 1..n
  <2>2. /\ IsFiniteSet(P) /\ o \in Bijection(P, P) /\ all \in SUBSET P /\ members \in SUBSET P
        /\ \A k \in P : k \in all <=> o[k] \in members
    BY <1>1, <2>1
  <2> HIDE DEF all, members, P
  <2> QED BY ONLY <2>2, CountPlaces
<1> DEFINE order == InOrder(places)
           c == Cardinality(places)
<1>7. /\ gaps = [i \in DOMAIN order |-> Gap(order[i])]
      /\ UnansweredMembers = Cardinality(silent)
  BY <1>1 DEF ResponseGaps, UnansweredMembers, o, Gap
<1>8. DOMAIN order = 1..c /\ c \in Nat /\ order \in Bijection(1..c, places)
  <2>1. places \subseteq Int
    OBVIOUS
  <2> HIDE DEF places
  <2> QED BY <1>5, <2>1, InOrderLists
<1>9. \A i \in 1..c : order[i] \in places
  <2> HIDE DEF places, c, order
  <2> QED BY <1>8 DEF Bijection, Injection
<1>10. \A k \in places : Gap(k) \in Nat /\ o[k] \in answered /\ Min(AnswerDelays(o[k])) = Gap(k)
  BY <1>1, <1>2, <1>3, <1>4
<1> HIDE DEF places, order, c, gaps
<1>11. gaps \in Seq(Int) /\ Len(gaps) = c /\ DOMAIN gaps = 1..c /\ \A i \in 1..c : gaps[i] = Gap(order[i])
  <2>1. \A i \in 1..c : Gap(order[i]) \in Int
    BY <1>9, <1>10
  <2>2. gaps \in [1..c -> Int]
    BY <1>7, <1>8, <2>1
  <2>3. \A i \in 1..c : gaps[i] = Gap(order[i])
    BY <1>7, <1>8
  <2> QED BY <1>8, <2>2, <2>3
<1>12. Len(gaps) + UnansweredMembers = Cardinality(members)
  BY <1>5, <1>6, <1>7, <1>11 DEF c
<1>13. ASSUME NEW d \in Times
       PROVE  Cardinality({i \in DOMAIN gaps : gaps[i] = d}) = Cardinality({m \in answered : Min(AnswerDelays(m)) = d})
  <2> DEFINE A == {i \in DOMAIN gaps : gaps[i] = d}
             B == {k \in places : Gap(k) = d}
             C == {m \in answered : Min(AnswerDelays(m)) = d}
  <2>1. A \in SUBSET (1..c) /\ B \in SUBSET places /\ \A i \in 1..c : i \in A <=> order[i] \in B
    BY <1>9, <1>11
  <2>2. IsFiniteSet(1..c)
    BY <1>8, FS_Interval
  <2>3. B \in SUBSET (1..n) /\ C \in SUBSET (1..n)
    BY <1>1 DEF places
  <2>4. \A k \in 1..n : k \in B <=> o[k] \in C
    <3>1. TAKE k \in 1..n
    <3>2. o[k] \in answered <=> k \in places
      BY <1>1, <1>2, <1>3, <1>4
    <3> QED BY <1>10, <3>2
  <2> DEFINE P == 1..c
             Q == 1..n
  <2>5. Cardinality(A) = Cardinality(B)
    <3>1. /\ IsFiniteSet(P) /\ order \in Bijection(P, places) /\ A \in SUBSET P /\ B \in SUBSET places
          /\ \A i \in P : i \in A <=> order[i] \in B
      BY <1>8, <2>1, <2>2
    <3> HIDE DEF A, B, P
    <3> QED BY ONLY <3>1, CountPlaces
  <2>6. Cardinality(B) = Cardinality(C)
    <3>1. /\ IsFiniteSet(Q) /\ o \in Bijection(Q, Q) /\ B \in SUBSET Q /\ C \in SUBSET Q
          /\ \A k \in Q : k \in B <=> o[k] \in C
      BY <1>1, <2>3, <2>4
    <3> HIDE DEF B, C, Q
    <3> QED BY ONLY <3>1, CountPlaces
  <2> QED BY <2>5, <2>6 DEF A, C
<1>14. gaps # <<>> => TwiceMedian(gaps) \in (2 * Min(Range(gaps)))..(2 * Max(Range(gaps)))
  BY <1>11, MedianBetween
<1> QED BY <1>12, <1>13, <1>14 DEF GapsMatchAnswers, gaps

\* An intent is taken from the ranking, and complaint only from a sure answer or
\* an unhappy member.
LEMMA IntentsRight == ASSUME ScoresConstants PROVE IntentsJustified
<1> SUFFICES ASSUME NEW ranked \in Rankings
             PROVE  LET intent == ResolveIntent(ranked, FirstStars)
                        sure == ranked # <<>> /\ ranked[1][2] >= Max({Threshold, ComplaintMin})
                    IN  /\ intent # "general" => \E k \in 1..Min({2, Len(ranked)}) : ranked[k][1] = intent
                        /\ intent = "complaint" /\ FirstStars \notin 1..2 => sure
                        /\ ranked # <<>> /\ ranked[1][1] = "complaint" /\ FirstStars \in 1..2
                              => intent = "complaint"
  BY DEF IntentsJustified
<1> DEFINE intent == ResolveIntent(ranked, FirstStars)
           unhappy == FirstStars \in 1..2
           top == ranked[1]
           second == ranked[2]
<1>1. /\ ranked \in Seq(STRING \X Int) /\ \A i, j \in DOMAIN ranked : i # j => ranked[i][1] # ranked[j][1]
      /\ Threshold \in Int /\ ComplaintMin \in Int
  BY DEF ScoresConstants
<1>2. CASE ranked = <<>>
  BY <1>2 DEF ResolveIntent
<1>3. CASE ranked # <<>>
  <2>1. Len(ranked) \in Nat /\ Len(ranked) > 0 /\ DOMAIN ranked = 1..Len(ranked)
    BY <1>1, <1>3
  <2>2. top \in STRING \X Int
    BY <1>1, <2>1
  <2>3. top[2] \in Int
    BY <2>2
  <2>4. Max({Threshold, ComplaintMin}) = IF Threshold >= ComplaintMin THEN Threshold ELSE ComplaintMin
    BY <1>1, OfTwo
  <2> DEFINE len == Len(ranked)
  <2> HIDE DEF len
  <2>5. Min({2, len}) = IF 2 <= len THEN 2 ELSE len
    <3>1. len \in Int /\ 2 \in Int
      BY <2>1 DEF len
    <3> QED BY <3>1, OfTwo
  <2>6. 1 \in 1..Min({2, Len(ranked)}) /\ (Len(ranked) > 1 => 2 \in 1..Min({2, Len(ranked)}) /\ top[1] # second[1])
    BY <1>1, <2>1, <2>5 DEF len
  <2>7. intent = IF top[1] = "complaint" /\ unhappy THEN "complaint"
                 ELSE IF top[1] = "complaint" /\ top[2] < ComplaintMin
                 THEN IF Len(ranked) > 1 /\ top[2] - second[2] <= ComplaintMargin THEN second[1] ELSE "general"
                 ELSE IF top[2] < Threshold THEN "general" ELSE top[1]
    BY <1>3 DEF ResolveIntent
  <2> HIDE DEF intent, unhappy, top, second
  <2>8. intent # "general" => intent = top[1] \/ (Len(ranked) > 1 /\ intent = second[1])
    BY <2>7
  <2>9. intent # "general" => \E k \in 1..Min({2, Len(ranked)}) : ranked[k][1] = intent
    BY <2>6, <2>8 DEF top, second
  <2>10. intent = "complaint" /\ ~unhappy => top[2] >= Max({Threshold, ComplaintMin})
    BY <1>1, <2>3, <2>4, <2>6, <2>7
  <2>11. top[1] = "complaint" /\ unhappy => intent = "complaint"
    BY <2>7
  <2> QED BY <1>3, <2>9, <2>10, <2>11 DEF intent, unhappy, top
<1> QED BY <1>2, <1>3

LEMMA FiguresFollow == ASSUME ScoresConstants, ScoresInv PROVE ScoresMatchTexts
BY RowsRight, GapsRight, ArcRight, IntentsRight DEF ScoresMatchTexts, ArcMatchesStars

\* The scores and figures of a conversation follow from its messages alone, for any
\* messages and answers of the models, however the passes are interrupted.
THEOREM ScoresAndFigures == ASSUME ScoresConstants PROVE ScoresSpec => []ScoresMatchTexts
<1>1. ScoresInit => ScoresInv
  BY ScoresBegin
<1>2. ScoresInv /\ [ScoresNext]_scoreVars => ScoresInv'
  BY ScoresStep
<1>3. ScoresInv => ScoresMatchTexts
  BY FiguresFollow
<1> QED BY <1>1, <1>2, <1>3, PTL DEF ScoresSpec

-----------------------------------------------------------------------------
(* What a report has read *)

MetricsRows == Scores \cup {NoMetrics}
Asks == Nat \X Nat
Reading == [talks : Seq(Talks), metrics : Seq(MetricsRows), asked : SUBSET Asks, rows : Seq(Asks),
            overview : Seq(MetricsRows)]

\* Rows that the report finds, but not their ids, were stored after it began.
RowsKnown ==
    writes = 0 =>
        /\ phase = "rows" => Range(asked) \subseteq read.asked
        /\ phase \in {"overview", "stats", "done"} => Range(read.rows) \subseteq read.asked

\* The dashboard's days replace a single local day.
StatsOK ==
    stats # NoStats =>
        /\ phase = "done" /\ Cardinality(LocalDays(read.talks)) < 2
        /\ IsFiniteSet(DOMAIN stats) /\ DOMAIN stats # {}
        /\ \A d \in DOMAIN stats : stats[d] \in Int

ReportInv ==
    /\ talks \in Seq(Talks) /\ metrics \in Seq(MetricsRows)
    /\ asked \in Seq(Asks)
    /\ read \in Reading
    /\ phase # "idle" => read.talks # <<>>
    /\ writes \in Nat
    /\ RowsKnown
    /\ StatsOK

LEMMA ReportBegins == ASSUME ReportInit PROVE ReportInv
<1>1. /\ talks = <<>> /\ metrics = <<>> /\ asked = <<>> /\ writes = 0 /\ phase = "idle" /\ read = Nothing
      /\ stats = NoStats
  BY DEF ReportInit
<1>2. <<>> \in Seq(Talks) /\ <<>> \in Seq(MetricsRows) /\ <<>> \in Seq(Asks) /\ {} \in SUBSET Asks
  OBVIOUS
<1>3. read \in Reading
  BY <1>1, <1>2 DEF Reading, Nothing
<1> QED BY <1>1, <1>2, <1>3 DEF ReportInv, RowsKnown, StatsOK

\* The dashboard's days, if there are any, have counts.
LEMMA DaysOfPoints ==
  ASSUME ReportConstants, NEW points \in Answers \cup {<<>>}
  PROVE  \/ DashboardDays(points) = NoStats
         \/ /\ IsFiniteSet(DOMAIN DashboardDays(points)) /\ DOMAIN DashboardDays(points) # {}
            /\ \A d \in DOMAIN DashboardDays(points) : DashboardDays(points)[d] \in Int
<1> DEFINE usable == {i \in DOMAIN points : points[i].at # NoFigure /\ points[i].value # NoFigure}
           On(d) == {i \in usable : Day(points[i].at) = d}
           days == {Day(points[i].at) : i \in usable}
           result == DashboardDays(points)
<1>1. points \in Seq([at : Int, value : Int])
  <2>1. <<>> \in Seq([at : Int, value : Int])
    OBVIOUS
  <2> QED BY <2>1 DEF ReportConstants
<1>2. /\ IsFiniteSet(DOMAIN points) /\ \A i \in DOMAIN points : points[i].value \in Int
  <2> HIDE DEF usable, days, On, result
  <2> DEFINE Point == [at : Int, value : Int]
  <2>1. \A x \in Point : x.value \in Int
    OBVIOUS
  <2> HIDE DEF Point
  <2>2. points \in Seq(Point)
    BY <1>1 DEF Point
  <2>3. Len(points) \in Nat /\ DOMAIN points = 1..Len(points) /\ \A i \in DOMAIN points : points[i] \in Point
    BY ONLY <2>2
  <2>4. IsFiniteSet(1..Len(points))
    <3>1. 1 \in Int /\ Len(points) \in Int
      BY <2>3
    <3> QED BY <3>1, FS_Interval
  <2> QED BY <2>1, <2>3, <2>4
<1>3. IsFiniteSet(usable)
  BY <1>2, FS_Subset
<1>4. IsFiniteSet(days)
  <2> DEFINE g == [i \in usable |-> Day(points[i].at)]
  <2>1. days = Range(g) /\ DOMAIN g = usable
    BY DEF Range
  <2> HIDE DEF g, days, usable
  <2> QED BY <1>3, <2>1, RangeFinite
<1>5. result = [d \in days |-> FoldFunction(+, 0, [i \in On(d) |-> points[i].value])]
  BY DEF DashboardDays
<1>6. ASSUME NEW d \in days PROVE result[d] \in Int
  <2> DEFINE f == [i \in On(d) |-> points[i].value]
  <2>1. result[d] = SumOver(f, DOMAIN f)
    <3>1. result[d] = FoldFunction(+, 0, f)
      BY <1>5
    <3> HIDE DEF f, result
    <3> QED BY <3>1, FoldIsSum
  <2>2. IsFiniteSet(DOMAIN f)
    BY <1>3, FS_Subset
  <2>3. \A i \in DOMAIN f : f[i] \in Int
    BY <1>2
  <2> HIDE DEF f, result
  <2> QED BY <2>1, <2>2, <2>3, SumTakeOut
<1>7. DOMAIN result = days
  BY <1>5
<1>8. ASSUME days = {} PROVE result = NoStats
  <2> DEFINE Value(d) == FoldFunction(+, 0, [i \in On(d) |-> points[i].value])
  <2>1. result = [d \in days |-> Value(d)]
    BY <1>5
  <2> HIDE DEF Value, result, days
  <2>2. result = [d \in {} |-> Value(d)]
    BY <1>8, <2>1
  <2>3. [d \in {} |-> Value(d)] = <<>>
    OBVIOUS
  <2> QED BY <2>2, <2>3 DEF NoStats
<1> QED BY <1>4, <1>6, <1>7, <1>8

\* What a job stores during a report is counted.
LEMMA CommitsCount ==
  ASSUME ReportInv, JobCommits
  PROVE  /\ writes' \in Nat /\ phase' = phase /\ read' = read /\ stats' = stats
         /\ writes' = 0 => phase = "idle"
         /\ RowsKnown' /\ StatsOK'
<1>1. /\ phase # "done" /\ writes' = IF phase = "idle" THEN 0 ELSE writes + 1
      /\ UNCHANGED <<phase, read, stats>> /\ writes \in Nat
  BY DEF JobCommits, ReportInv
<1>2. writes' \in Nat /\ (writes' = 0 => phase = "idle")
  BY <1>1
<1>3. RowsKnown'
  BY <1>1, <1>2 DEF RowsKnown
<1>4. StatsOK'
  BY <1>1 DEF ReportInv, StatsOK, LocalDays
<1> QED BY <1>1, <1>2, <1>3, <1>4

LEMMA ReportStep == ASSUME ReportConstants, ReportInv, [PagesNext]_pagesVars PROVE ReportInv'
<1>1. ASSUME NEW t \in Talks, StoreTalk(t) PROVE ReportInv'
  <2>1. JobCommits /\ talks' = Append(talks, t) /\ metrics' = Append(metrics, NoMetrics) /\ UNCHANGED asked
    BY <1>1 DEF StoreTalk
  <2>2. NoMetrics \in MetricsRows
    BY DEF MetricsRows
  <2>3. talks' \in Seq(Talks) /\ metrics' \in Seq(MetricsRows) /\ asked' \in Seq(Asks)
    BY <2>1, <2>2 DEF ReportInv
  <2> QED BY <2>1, <2>3, CommitsCount DEF ReportInv
<1>2. ASSUME NEW c \in DOMAIN talks, NEW s \in Scores, StoreMetrics(c, s) PROVE ReportInv'
  <2>1. JobCommits /\ metrics' = [metrics EXCEPT ![c] = s] /\ UNCHANGED <<talks, asked>>
    BY <1>2 DEF StoreMetrics
  <2>2. s \in MetricsRows
    BY DEF MetricsRows
  <2>3. metrics' \in Seq(MetricsRows)
    <3>1. /\ Len(metrics) \in Nat /\ metrics \in [1..Len(metrics) -> MetricsRows]
      BY DEF ReportInv
    <3>2. metrics' \in [1..Len(metrics) -> MetricsRows]
      BY <2>1, <2>2, <3>1
    <3> QED BY <3>1, <3>2
  <2>4. talks' \in Seq(Talks) /\ asked' \in Seq(Asks)
    BY <2>1 DEF ReportInv
  <2> QED BY <2>1, <2>3, <2>4, CommitsCount DEF ReportInv
<1>3. ASSUME NEW c \in DOMAIN talks, NEW k \in DOMAIN talks[c].asks, StoreRow(c, k) PROVE ReportInv'
  <2>1. JobCommits /\ asked' = Append(asked, <<c, k>>) /\ UNCHANGED <<talks, metrics>>
    BY <1>3 DEF StoreRow
  <2>2. <<c, k>> \in Asks
    <3>1. c \in Nat
      BY DEF ReportInv
    <3>2. talks[c] \in Talks
      BY DEF ReportInv
    <3>3. talks[c].asks \in Seq(Range(Keys))
      BY <3>2 DEF ReportConstants
    <3>4. k \in Nat
      BY <3>3
    <3> QED BY <3>1, <3>4 DEF Asks
  <2>3. talks' \in Seq(Talks) /\ metrics' \in Seq(MetricsRows) /\ asked' \in Seq(Asks)
    BY <2>1, <2>2 DEF ReportInv
  <2> QED BY <2>1, <2>3, CommitsCount DEF ReportInv
<1>4. ASSUME ReadTalks PROVE ReportInv'
  <2>1. /\ phase = "idle" /\ talks # <<>> /\ phase' = "metrics" /\ read' = [Nothing EXCEPT !.talks = talks]
        /\ UNCHANGED <<talks, metrics, asked, writes, stats>>
    BY <1>4 DEF ReadTalks
  <2>2. read' = [talks |-> talks, metrics |-> <<>>, asked |-> {}, rows |-> <<>>, overview |-> <<>>]
    BY <2>1 DEF Nothing
  <2>3. <<>> \in Seq(MetricsRows) /\ <<>> \in Seq(Asks) /\ {} \in SUBSET Asks /\ talks \in Seq(Talks)
    BY DEF ReportInv
  <2>4. read'.talks = talks
    BY <2>2
  <2>5. read' \in Reading
    BY <2>2, <2>3 DEF Reading
  <2>6. RowsKnown'
    BY <2>1 DEF RowsKnown
  <2>7. StatsOK'
    BY <2>1 DEF ReportInv, StatsOK
  <2> QED BY <2>1, <2>4, <2>5, <2>6, <2>7 DEF ReportInv
<1>5. ASSUME ReadMetrics PROVE ReportInv'
  <2>1. /\ phase = "metrics" /\ phase' = "ids" /\ read' = [read EXCEPT !.metrics = metrics]
        /\ UNCHANGED <<talks, metrics, asked, writes, stats>>
    BY <1>5 DEF ReadMetrics
  <2>2. read' \in Reading /\ read'.talks = read.talks
    BY <2>1 DEF Reading, ReportInv
  <2>3. RowsKnown' /\ StatsOK'
    BY <2>1 DEF ReportInv, RowsKnown, StatsOK
  <2> QED BY <2>1, <2>2, <2>3 DEF ReportInv
<1>6. ASSUME ReadUnansweredIds PROVE ReportInv'
  <2>1. /\ phase = "ids" /\ phase' = "rows" /\ read' = [read EXCEPT !.asked = Range(asked)]
        /\ UNCHANGED <<talks, metrics, asked, writes, stats>>
    BY <1>6 DEF ReadUnansweredIds
  <2>2. Range(asked) \in SUBSET Asks
    BY DEF ReportInv, Range
  <2>3. read' \in Reading /\ read'.talks = read.talks /\ read'.asked = Range(asked)
    BY <2>1, <2>2 DEF Reading, ReportInv
  <2>4. RowsKnown'
    BY <2>1, <2>3 DEF RowsKnown
  <2>5. StatsOK'
    BY <2>1 DEF ReportInv, StatsOK
  <2> QED BY <2>1, <2>3, <2>4, <2>5 DEF ReportInv
<1>7. ASSUME ReadUnansweredRows PROVE ReportInv'
  <2>1. /\ phase = "rows" /\ phase' = "overview" /\ read' = [read EXCEPT !.rows = Reverse(asked)]
        /\ UNCHANGED <<talks, metrics, asked, writes, stats>>
    BY <1>7 DEF ReadUnansweredRows
  <2>2. Reverse(asked) \in Seq(Asks) /\ Range(Reverse(asked)) \subseteq Range(asked)
    <3>1. /\ asked \in Seq(Asks) /\ Len(asked) \in Nat /\ DOMAIN asked = 1..Len(asked)
          /\ \A i \in 1..Len(asked) : asked[i] \in Asks
      BY DEF ReportInv
    <3>2. Reverse(asked) = [i \in 1..Len(asked) |-> asked[(Len(asked) - i) + 1]]
      BY DEF Reverse
    <3>3. \A i \in 1..Len(asked) : (Len(asked) - i) + 1 \in 1..Len(asked)
      BY <3>1
    <3>4. Reverse(asked) \in [1..Len(asked) -> Asks]
      BY <3>1, <3>2, <3>3
    <3> QED BY <3>1, <3>2, <3>3, <3>4 DEF Range
  <2>3. read' \in Reading /\ read'.talks = read.talks /\ read'.asked = read.asked /\ read'.rows = Reverse(asked)
    BY <2>1, <2>2 DEF Reading, ReportInv
  <2>4. RowsKnown'
    BY <2>1, <2>2, <2>3 DEF RowsKnown, ReportInv
  <2>5. StatsOK'
    BY <2>1 DEF ReportInv, StatsOK
  <2> QED BY <2>1, <2>3, <2>4, <2>5 DEF ReportInv
<1>8. ASSUME ReadOverview PROVE ReportInv'
  <2> DEFINE found == [c \in DOMAIN metrics |->
                         IF c \in DOMAIN read.metrics /\ read.metrics[c] # NoMetrics
                         THEN read.metrics[c] ELSE metrics[c]]
  <2>1. /\ phase = "overview" /\ phase' = "stats" /\ read' = [read EXCEPT !.overview = found]
        /\ UNCHANGED <<talks, metrics, asked, writes, stats>>
    BY <1>8 DEF ReadOverview
  <2>2. found \in Seq(MetricsRows)
    <3>1. /\ Len(metrics) \in Nat /\ DOMAIN metrics = 1..Len(metrics)
          /\ \A c \in DOMAIN metrics : metrics[c] \in MetricsRows
      BY DEF ReportInv
    <3>2. read.metrics \in Seq(MetricsRows)
      BY DEF ReportInv, Reading
    <3>3. \A c \in DOMAIN read.metrics : read.metrics[c] \in MetricsRows
      BY <3>2
    <3>4. found \in [1..Len(metrics) -> MetricsRows]
      BY <3>1, <3>3
    <3> QED BY <3>1, <3>4
  <2> HIDE DEF found
  <2>3. read' \in Reading /\ read'.talks = read.talks /\ read'.asked = read.asked /\ read'.rows = read.rows
    BY <2>1, <2>2 DEF Reading, ReportInv
  <2>4. RowsKnown' /\ StatsOK'
    BY <2>1, <2>3 DEF ReportInv, RowsKnown, StatsOK
  <2> QED BY <2>1, <2>3, <2>4 DEF ReportInv
<1>9. ASSUME NEW points \in Answers \cup {<<>>}, ReadStats(points) PROVE ReportInv'
  <2>1. /\ phase = "stats" /\ phase' = "done" /\ stats' = DashboardDays(points)
        /\ Cardinality(LocalDays(read.talks)) >= 2 => points = <<>>
        /\ UNCHANGED <<talks, metrics, asked, writes, read>>
    BY <1>9 DEF ReadStats
  <2>2. IsFiniteSet(LocalDays(read.talks)) /\ Cardinality(LocalDays(read.talks)) \in Nat
    <3> DEFINE g == [c \in DOMAIN read.talks |-> Day(read.talks[c].start)]
    <3>1. LocalDays(read.talks) = Range(g) /\ DOMAIN g = DOMAIN read.talks
      BY DEF Range, LocalDays
    <3>2. Len(read.talks) \in Nat /\ DOMAIN read.talks = 1..Len(read.talks)
      <4>1. read.talks \in Seq(Talks)
        BY DEF ReportInv, Reading
      <4> QED BY <4>1
    <3>3. IsFiniteSet(DOMAIN g)
      BY <3>2, FS_Interval
    <3> HIDE DEF g
    <3> QED BY <3>1, <3>3, RangeFinite, FS_CardinalityType
  <2>3. points = <<>> => DashboardDays(points) = NoStats
    <3>1. SUFFICES ASSUME points = <<>> PROVE DashboardDays(points) = NoStats
      OBVIOUS
    <3>2. {i \in DOMAIN points : points[i].at # NoFigure /\ points[i].value # NoFigure} = {}
      BY <3>1
    <3>3. DOMAIN DashboardDays(points) = {}
      BY <3>2 DEF DashboardDays
    <3> QED BY <3>3, DaysOfPoints
  <2>4. StatsOK'
    <3>1. SUFFICES ASSUME stats' # NoStats PROVE Cardinality(LocalDays(read.talks)) < 2
      BY <2>1, DaysOfPoints DEF StatsOK
    <3> QED BY <2>1, <2>2, <2>3, <3>1
  <2>5. RowsKnown'
    BY <2>1 DEF ReportInv, RowsKnown
  <2> QED BY <2>1, <2>4, <2>5 DEF ReportInv
<1>10. ASSUME UNCHANGED reportVars PROVE ReportInv'
  BY <1>10 DEF reportVars, ReportInv, RowsKnown, StatsOK, LocalDays
<1>11. ASSUME NEW answer, FetchValue(answer) PROVE ReportInv'
  BY <1>10, <1>11 DEF FetchValue
<1>12. ASSUME UNCHANGED pagesVars PROVE ReportInv'
  BY <1>10, <1>12 DEF pagesVars
<1> QED BY <1>1, <1>2, <1>3, <1>4, <1>5, <1>6, <1>7, <1>8, <1>9, <1>11, <1>12 DEF PagesNext, ReportNext

-----------------------------------------------------------------------------
(* Volume *)

\* Counts of classes add up to the number of what is classified.
LEMMA ClassesAddUp ==
  ASSUME NEW S, IsFiniteSet(S), NEW K, IsFiniteSet(K), NEW class, DOMAIN class = S, \A x \in S : class[x] \in K,
         NEW counts, DOMAIN counts = K, \A k \in K : counts[k] = Cardinality({x \in S : class[x] = k}),
         class = [x \in S |-> class[x]]
  PROVE  SumOf(counts) = Cardinality(S)
<1>1. class \in [S -> K]
  OBVIOUS
<1>2. SumOver(counts, K) = Cardinality(S)
  BY <1>1, SumOfClasses
<1> QED BY <1>2, FoldIsSum DEF SumOf

\* What has been read of the conversations.
LEMMA TalksRead ==
  ASSUME ReportConstants, ReportInv
  PROVE  /\ Total \in Nat /\ DOMAIN read.talks = 1..Total
         /\ IsFiniteSet(DOMAIN read.talks) /\ Cardinality(DOMAIN read.talks) = Total
         /\ \A c \in DOMAIN read.talks :
               /\ read.talks[c] \in Talks /\ read.talks[c].start \in Nat
               /\ read.talks[c].asks \in Seq(Range(Keys)) /\ read.talks[c].referred \in BOOLEAN
         /\ Range(read.talks) = {read.talks[c] : c \in DOMAIN read.talks}
<1>1. read.talks \in Seq(Talks)
  BY DEF ReportInv, Reading
<1>2. Total \in Nat /\ DOMAIN read.talks = 1..Total /\ \A c \in DOMAIN read.talks : read.talks[c] \in Talks
  BY <1>1 DEF Total
<1>3. \A t \in Talks : t.start \in Nat /\ t.asks \in Seq(Range(Keys)) /\ t.referred \in BOOLEAN
  <2> DEFINE Talk == [start : Nat, channel : STRING, resolved : STRING, referred : BOOLEAN, asks : Seq(Range(Keys))]
  <2>1. Talks \subseteq Talk
    BY DEF ReportConstants
  <2>2. \A t \in Talk : t.start \in Nat /\ t.asks \in Seq(Range(Keys)) /\ t.referred \in BOOLEAN
    OBVIOUS
  <2> QED BY <2>1, <2>2
<1>4. IsFiniteSet(1..Total) /\ Cardinality(1..Total) = Total
  <2>1. 1 \in Int /\ Total \in Int
    BY <1>2
  <2>2. /\ IsFiniteSet(1..Total)
        /\ Cardinality(1..Total) = IF 1 > Total THEN 0 ELSE Total - 1 + 1
    BY <2>1, FS_Interval
  <2> QED BY <1>2, <2>2
<1> QED BY <1>2, <1>3, <1>4 DEF Range

\* The days, the hours and the channels of the conversations.
LEMMA ClassesRead ==
  ASSUME ReportConstants, ReportInv
  PROVE  /\ IsFiniteSet(LocalDays(read.talks)) /\ DOMAIN DailyCounts = LocalDays(read.talks)
         /\ \A d \in LocalDays(read.talks) :
               DailyCounts[d] = Cardinality({c \in DOMAIN read.talks : Day(read.talks[c].start) = d})
         /\ DOMAIN HourCounts = {read.talks[c].start % 24 : c \in DOMAIN read.talks}
         /\ IsFiniteSet(DOMAIN HourCounts)
         /\ \A h \in DOMAIN HourCounts :
               HourCounts[h] = Cardinality({c \in DOMAIN read.talks : read.talks[c].start % 24 = h})
         /\ Channels = {read.talks[c].channel : c \in DOMAIN read.talks} /\ IsFiniteSet(Channels)
         /\ DOMAIN ChannelCounts = Channels
         /\ \A ch \in Channels :
               ChannelCounts[ch] = Cardinality({c \in DOMAIN read.talks : read.talks[c].channel = ch})
<1> DEFINE D == DOMAIN read.talks
<1>1. IsFiniteSet(D) /\ Range(read.talks) = {read.talks[c] : c \in D}
  BY TalksRead
<1>2. IsFiniteSet(LocalDays(read.talks))
  <2> DEFINE f == [c \in D |-> Day(read.talks[c].start)]
  <2>1. LocalDays(read.talks) = Range(f) /\ DOMAIN f = D
    BY DEF Range, LocalDays
  <2> HIDE DEF f, D
  <2> QED BY <1>1, <2>1, RangeFinite
<1>3. DOMAIN DailyCounts = LocalDays(read.talks)
  BY DEF DailyCounts
<1>4. \A d \in LocalDays(read.talks) : DailyCounts[d] = Cardinality({c \in D : Day(read.talks[c].start) = d})
  BY DEF DailyCounts, Count
<1>5. DOMAIN HourCounts = {t.start % 24 : t \in Range(read.talks)}
  BY DEF HourCounts
<1>6. \A h \in DOMAIN HourCounts : HourCounts[h] = Cardinality({c \in D : read.talks[c].start % 24 = h})
  BY DEF HourCounts, Count
<1>7. DOMAIN HourCounts = {read.talks[c].start % 24 : c \in D}
  BY <1>1, <1>5
<1>8. IsFiniteSet(DOMAIN HourCounts)
  <2> DEFINE f == [c \in D |-> read.talks[c].start % 24]
  <2>1. DOMAIN HourCounts = Range(f) /\ DOMAIN f = D
    BY <1>7 DEF Range
  <2> HIDE DEF f, D
  <2> QED BY <1>1, <2>1, RangeFinite
<1>9. Channels = {read.talks[c].channel : c \in D}
  BY <1>1 DEF Channels
<1>10. IsFiniteSet(Channels)
  <2> DEFINE f == [c \in D |-> read.talks[c].channel]
  <2>1. Channels = Range(f) /\ DOMAIN f = D
    BY <1>9 DEF Range
  <2> HIDE DEF f, D
  <2> QED BY <1>1, <2>1, RangeFinite
<1>11. /\ DOMAIN ChannelCounts = Channels
       /\ \A ch \in Channels : ChannelCounts[ch] = Cardinality({c \in D : read.talks[c].channel = ch})
  BY DEF ChannelCounts, Count
<1> QED BY <1>2, <1>3, <1>4, <1>6, <1>7, <1>8, <1>9, <1>10, <1>11

LEMMA VolumeHolds == ASSUME ReportConstants, ReportInv PROVE VolumeAddsUp
<1> DEFINE D == DOMAIN read.talks
           T == read.talks
<1>1. /\ IsFiniteSet(D) /\ Cardinality(D) = Total
      /\ \A c \in D : T[c].start \in Nat
  BY TalksRead
<1>2. SumOf(DailyCounts) = Total
  <2> DEFINE class == [c \in D |-> Day(T[c].start)]
             K == LocalDays(T)
  <2>1. /\ DOMAIN class = D /\ class = [c \in D |-> class[c]] /\ \A c \in D : class[c] \in K
        /\ \A k \in K : DailyCounts[k] = Cardinality({c \in D : class[c] = k})
    <3>1. \A k \in K : DailyCounts[k] = Cardinality({c \in D : Day(T[c].start) = k})
      BY ClassesRead
    <3>2. \A k : {c \in D : Day(T[c].start) = k} = {c \in D : class[c] = k}
      OBVIOUS
    <3> QED BY <3>1, <3>2 DEF LocalDays
  <2>2. IsFiniteSet(K) /\ DOMAIN DailyCounts = K
    BY ClassesRead
  <2> HIDE DEF class, K, D, T
  <2> QED BY <1>1, <2>1, <2>2, ClassesAddUp
<1>3. SumOf(HourCounts) = Total
  <2> DEFINE class == [c \in D |-> T[c].start % 24]
             K == DOMAIN HourCounts
  <2>1. /\ DOMAIN class = D /\ class = [c \in D |-> class[c]] /\ \A c \in D : class[c] \in K
        /\ \A k \in K : HourCounts[k] = Cardinality({c \in D : class[c] = k})
    <3>1. /\ \A k \in K : HourCounts[k] = Cardinality({c \in D : T[c].start % 24 = k})
          /\ K = {T[c].start % 24 : c \in D}
      BY ClassesRead
    <3>2. \A k : {c \in D : T[c].start % 24 = k} = {c \in D : class[c] = k}
      OBVIOUS
    <3> HIDE DEF K
    <3> QED BY <3>1, <3>2
  <2>2. IsFiniteSet(K)
    BY ClassesRead
  <2>3. K = DOMAIN HourCounts
    OBVIOUS
  <2> HIDE DEF class, K, D, T
  <2> QED BY <1>1, <2>1, <2>2, <2>3, ClassesAddUp
<1>4. BucketCounts["kantooruren"] + OutsideOffice = Total
  <2> DEFINE class == [c \in D |-> TimeBucket(T[c].start)]
             office == "kantooruren"
             rest == [b \in TimeBuckets \ {office} |-> BucketCounts[b]]
  <2>1. \A c \in D : TimeBucket(T[c].start) \in TimeBuckets
    BY DEF TimeBucket, TimeBuckets
  <2>2. /\ DOMAIN class = D /\ class = [c \in D |-> class[c]] /\ \A c \in D : class[c] \in TimeBuckets
        /\ \A k \in TimeBuckets : BucketCounts[k] = Cardinality({c \in D : class[c] = k})
    <3>1. \A k \in TimeBuckets : BucketCounts[k] = Cardinality({c \in D : TimeBucket(T[c].start) = k})
      BY DEF BucketCounts, Count
    <3>2. \A k : {c \in D : TimeBucket(T[c].start) = k} = {c \in D : class[c] = k}
      OBVIOUS
    <3> QED BY <2>1, <3>1, <3>2
  <2>3. IsFiniteSet(TimeBuckets) /\ office \in TimeBuckets
    <3> DEFINE weekdays == {"kantooruren"} \cup {"na_kantooruren"}
               others == {"nacht"} \cup {"weekend"}
    <3>1. IsFiniteSet(weekdays)
      BY FS_Singleton, FS_Union
    <3>2. IsFiniteSet(others)
      BY FS_Singleton, FS_Union
    <3>3. TimeBuckets = weekdays \cup others /\ office \in TimeBuckets
      BY DEF TimeBuckets
    <3> HIDE DEF weekdays, others
    <3> QED BY <3>1, <3>2, <3>3, FS_Union
  <2>4. \A k \in TimeBuckets : BucketCounts[k] \in Int
    <3> SUFFICES ASSUME NEW k \in TimeBuckets PROVE BucketCounts[k] \in Int
      OBVIOUS
    <3> DEFINE here == {c \in D : class[c] = k}
    <3>1. BucketCounts[k] = Cardinality(here)
      BY <2>2
    <3>2. IsFiniteSet(here)
      BY <1>1, FS_Subset
    <3> HIDE DEF here
    <3>3. Cardinality(here) \in Nat
      BY <3>2, FS_CardinalityType
    <3> QED BY <3>1, <3>3
  <2>5. DOMAIN BucketCounts = TimeBuckets
    BY DEF BucketCounts
  <2>6. SumOf(BucketCounts) = Total
    <3> HIDE DEF class, D
    <3> QED BY <1>1, <2>2, <2>3, <2>5, ClassesAddUp
  <2>7. SumOver(BucketCounts, TimeBuckets) = BucketCounts[office] + SumOver(BucketCounts, TimeBuckets \ {office})
    BY <2>3, <2>4, SumTakeOut
  <2>8. OutsideOffice = SumOver(BucketCounts, TimeBuckets \ {office})
    <3>1. OutsideOffice = SumOf(rest) /\ DOMAIN rest = TimeBuckets \ {office}
      BY DEF OutsideOffice
    <3>2. \A b \in TimeBuckets \ {office} : rest[b] \in Int /\ rest[b] = BucketCounts[b]
      BY <2>4
    <3>3. IsFiniteSet(TimeBuckets \ {office})
      BY <2>3, FS_Subset
    <3> HIDE DEF rest, office
    <3>4. SumOf(rest) = SumOver(rest, TimeBuckets \ {office})
      BY <3>1, FoldIsSum DEF SumOf
    <3> QED BY <3>1, <3>2, <3>3, <3>4, SumEqual
  <2>9. SumOver(BucketCounts, TimeBuckets) = Total
    BY <2>5, <2>6, FoldIsSum DEF SumOf
  <2> QED BY <2>7, <2>8, <2>9
<1>5. SumOf(ChannelCounts) = Total
  <2> DEFINE class == [c \in D |-> T[c].channel]
  <2>1. /\ DOMAIN class = D /\ class = [c \in D |-> class[c]] /\ \A c \in D : class[c] \in Channels
        /\ \A k \in Channels : ChannelCounts[k] = Cardinality({c \in D : class[c] = k})
    <3>1. /\ \A k \in Channels : ChannelCounts[k] = Cardinality({c \in D : T[c].channel = k})
          /\ Channels = {T[c].channel : c \in D}
      BY ClassesRead
    <3>2. \A k : {c \in D : T[c].channel = k} = {c \in D : class[c] = k}
      OBVIOUS
    <3> QED BY <3>1, <3>2
  <2>2. IsFiniteSet(Channels) /\ DOMAIN ChannelCounts = Channels
    BY ClassesRead
  <2> HIDE DEF class, D, T
  <2> QED BY <1>1, <2>1, <2>2, ClassesAddUp
<1>6. ASSUME NEW d \in DOMAIN DailyCounts
      PROVE  SumOf([ch \in Channels |-> DailyByChannel[ch][d]]) = DailyCounts[d]
  <2> DEFINE S == {c \in D : Day(T[c].start) = d}
             class == [c \in S |-> T[c].channel]
             counts == [ch \in Channels |-> DailyByChannel[ch][d]]
  <2>1. d \in LocalDays(T) /\ DailyCounts[d] = Cardinality(S)
    BY ClassesRead
  <2>2. /\ DOMAIN class = S /\ class = [c \in S |-> class[c]] /\ \A c \in S : class[c] \in Channels
        /\ \A k \in Channels : counts[k] = Cardinality({c \in S : class[c] = k})
    <3>1. Channels = {T[c].channel : c \in D}
      BY ClassesRead
    <3>2. \A k \in Channels : counts[k] = Cardinality({c \in D : T[c].channel = k /\ Day(T[c].start) = d})
      BY <2>1 DEF DailyByChannel, Count
    <3>3. \A k : {c \in D : T[c].channel = k /\ Day(T[c].start) = d} = {c \in S : class[c] = k}
      OBVIOUS
    <3> HIDE DEF counts
    <3> QED BY <3>1, <3>2, <3>3
  <2>3. IsFiniteSet(S)
    BY <1>1, FS_Subset
  <2>4. IsFiniteSet(Channels) /\ DOMAIN counts = Channels
    BY ClassesRead
  <2> HIDE DEF class, S, counts
  <2>5. SumOf(counts) = Cardinality(S)
    BY <2>2, <2>3, <2>4, ClassesAddUp
  <2> QED BY <2>1, <2>5 DEF counts
<1> QED BY <1>2, <1>3, <1>4, <1>5, <1>6 DEF VolumeAddsUp

-----------------------------------------------------------------------------
(* Peaks *)

\* The largest of the values of a function.
LEMMA LargestValue ==
  ASSUME NEW f, IsFiniteSet(DOMAIN f), DOMAIN f # {}, \A x \in DOMAIN f : f[x] \in Int
  PROVE  /\ MaxValue(f) \in Int /\ \A x \in DOMAIN f : f[x] <= MaxValue(f)
         /\ \E x \in DOMAIN f : f[x] = MaxValue(f)
<1> DEFINE S == {f[x] : x \in DOMAIN f}
<1>1. S = Range(f)
  BY DEF Range
<1>2. IsFiniteSet(S)
  BY <1>1, RangeFinite
<1>3. S \subseteq Int /\ S # {}
  OBVIOUS
<1>4. Max(S) \in S /\ \A y \in S : y <= Max(S)
  <2> HIDE DEF S
  <2> QED BY <1>2, <1>3, Extremes
<1>5. MaxValue(f) = Max(S)
  BY DEF MaxValue
<1> HIDE DEF MaxValue
<1>6. MaxValue(f) \in S /\ \A y \in S : y <= MaxValue(f)
  BY <1>4, <1>5
<1> QED BY <1>3, <1>6

\* A report has a day and an hour.
LEMMA DaysRead ==
  ASSUME ReportConstants, ReportInv, phase = "done"
  PROVE  /\ Total \in Nat \ {0}
         /\ Cardinality(LocalDays(read.talks)) \in Nat \ {0} /\ LocalDays(read.talks) # {}
         /\ DOMAIN HourCounts # {}
         /\ \A d \in LocalDays(read.talks) : DailyCounts[d] \in Nat
         /\ \A h \in DOMAIN HourCounts : HourCounts[h] \in Nat
<1>1. read.talks # <<>> /\ read.talks \in Seq(Talks)
  BY DEF ReportInv, Reading
<1>2. Total \in Nat \ {0} /\ 1 \in DOMAIN read.talks
  BY <1>1 DEF Total
<1>3. Day(read.talks[1].start) \in LocalDays(read.talks)
  BY <1>2 DEF LocalDays
<1>4. read.talks[1].start % 24 \in DOMAIN HourCounts
  BY <1>2, ClassesRead
<1>5. Cardinality(LocalDays(read.talks)) \in Nat \ {0}
  <2>1. IsFiniteSet(LocalDays(read.talks))
    BY ClassesRead
  <2>2. Cardinality(LocalDays(read.talks)) \in Nat /\ (Cardinality(LocalDays(read.talks)) = 0 <=> LocalDays(read.talks) = {})
    BY <2>1, FS_CardinalityType, FS_EmptySet
  <2> QED BY <1>3, <2>2
<1> DEFINE D == DOMAIN read.talks
<1>6. IsFiniteSet(D)
  BY TalksRead
<1>7. \A d \in LocalDays(read.talks) : DailyCounts[d] \in Nat
  <2>1. \A d : IsFiniteSet({c \in D : Day(read.talks[c].start) = d})
    BY <1>6, FS_Subset
  <2> QED BY <2>1, FS_CardinalityType, ClassesRead
<1>8. \A h \in DOMAIN HourCounts : HourCounts[h] \in Nat
  <2>1. \A h : IsFiniteSet({c \in D : read.talks[c].start % 24 = h})
    BY <1>6, FS_Subset
  <2> QED BY <2>1, FS_CardinalityType, ClassesRead
<1> QED BY <1>2, <1>3, <1>4, <1>5, <1>7, <1>8

\* The days of the chart.
LEMMA ChartDaysRead ==
  ASSUME ReportConstants, ReportInv, phase = "done"
  PROVE  /\ IsFiniteSet(DOMAIN ChartDays) /\ DOMAIN ChartDays # {}
         /\ \A d \in DOMAIN ChartDays : ChartDays[d] \in Int
         /\ PeakDay \in DOMAIN ChartDays
         /\ \A d \in DOMAIN ChartDays : ChartDays[d] <= ChartDays[PeakDay]
<1>1. /\ IsFiniteSet(DOMAIN ChartDays) /\ DOMAIN ChartDays # {}
      /\ \A d \in DOMAIN ChartDays : ChartDays[d] \in Int
  <2>1. CASE stats = NoStats
    <3>1. ChartDays = DailyCounts
      BY <2>1 DEF ChartDays
    <3>2. IsFiniteSet(LocalDays(read.talks)) /\ DOMAIN DailyCounts = LocalDays(read.talks)
      BY ClassesRead
    <3> QED BY <3>1, <3>2, DaysRead
  <2>2. CASE stats # NoStats
    BY <2>2 DEF ChartDays, ReportInv, StatsOK
  <2> QED BY <2>1, <2>2
<1>2. /\ \A x \in DOMAIN ChartDays : ChartDays[x] <= MaxValue(ChartDays)
      /\ \E x \in DOMAIN ChartDays : ChartDays[x] = MaxValue(ChartDays)
  BY <1>1, LargestValue
<1>3. PeakDay \in DOMAIN ChartDays /\ ChartDays[PeakDay] = MaxValue(ChartDays)
  BY <1>2 DEF PeakDay
<1> QED BY <1>1, <1>2, <1>3

LEMMA PeaksAreLargest == ASSUME ReportConstants, ReportInv, phase = "done" PROVE PeaksHold
<1> DEFINE D == LocalDays(read.talks)
           n == Cardinality(D)
<1>1. n \in Nat \ {0} /\ DOMAIN DailyCounts = D
  BY DaysRead, ClassesRead
<1>2. ChartSource = "local" => SumOf(ChartDays) = Total
  BY VolumeHolds DEF ChartSource, ChartDays, VolumeAddsUp
<1>3. ChartSource = "momants" => Cardinality(DOMAIN DailyCounts) = 1
  <2>1. stats # NoStats => n < 2
    BY DEF ReportInv, StatsOK
  <2> QED BY <1>1, <2>1 DEF ChartSource
<1>4. \A h \in DOMAIN HourCounts : 10 * (HourCounts[h] - HourCounts[PeakHour]) <= Cardinality(DOMAIN DailyCounts)
  <2>1. IsFiniteSet(DOMAIN HourCounts) /\ DOMAIN HourCounts # {} /\ \A h \in DOMAIN HourCounts : HourCounts[h] \in Int
    BY ClassesRead, DaysRead
  <2>2. Max({1, n}) = n
    <3>1. 1 \in Int /\ n \in Int
      BY <1>1
    <3> HIDE DEF n
    <3> QED BY <1>1, <3>1, OfTwo
  <2>3. \A h : HourAverage(h) = RoundDiv(10 * HourCounts[h], n)
    BY <1>1, <2>2 DEF HourAverage
  <2> DEFINE average == [h \in DOMAIN HourCounts |-> HourAverage(h)]
  <2>4. \A h \in DOMAIN HourCounts : HourAverage(h) \in Int
    <3>1. \A h \in DOMAIN HourCounts : 10 * HourCounts[h] \in Int
      BY <2>1
    <3> HIDE DEF n
    <3> QED BY <1>1, <2>3, <3>1, Rounded
  <2>5. /\ \A x \in DOMAIN HourCounts : average[x] <= MaxValue(average)
        /\ \E x \in DOMAIN HourCounts : average[x] = MaxValue(average)
    <3>1. DOMAIN average = DOMAIN HourCounts /\ \A x \in DOMAIN HourCounts : average[x] \in Int
      BY <2>4
    <3> HIDE DEF average
    <3> QED BY <2>1, <3>1, LargestValue
  <2>6. \E h \in DOMAIN HourCounts : \A other \in DOMAIN HourCounts : HourAverage(other) <= HourAverage(h)
    BY <2>5
  <2>7. PeakHour \in DOMAIN HourCounts /\ \A other \in DOMAIN HourCounts : HourAverage(other) <= HourAverage(PeakHour)
    BY <2>6 DEF PeakHour
  <2> HIDE DEF n, D
  <2> QED BY <1>1, <2>1, <2>3, <2>7, AveragesNear DEF n
<1>5. \A d \in DOMAIN ChartDays : ChartDays[d] <= ChartDays[PeakDay]
  BY ChartDaysRead
<1> QED BY <1>2, <1>3, <1>4, <1>5 DEF PeaksHold

-----------------------------------------------------------------------------
(* Handling *)

LEMMA HandlingHolds == ASSUME ReportConstants, ReportInv PROVE HandlingAddsUp
<1> DEFINE D == DOMAIN read.talks
           A == {c \in D : read.talks[c].referred}
           B == {c \in D : read.talks[c].resolved = "yes" /\ ~read.talks[c].referred}
<1>1. IsFiniteSet(D) /\ Cardinality(D) = Total /\ Total \in Nat
  BY TalksRead
<1>2. IsFiniteSet(A) /\ IsFiniteSet(B) /\ A \cap B = {} /\ A \cup B \subseteq D
  BY <1>1, FS_Subset
<1>3. Referred = Cardinality(A) /\ Resolved = Cardinality(B)
  BY DEF Referred, Resolved, Count
<1> HIDE DEF A, B, D
<1>4. Cardinality(A) \in Nat /\ Cardinality(B) \in Nat
  BY <1>2, FS_CardinalityType
<1>5. Cardinality(A \cup B) = Cardinality(A) + Cardinality(B)
  <2>1. IsFiniteSet(A \cup B) /\ Cardinality(A \cup B) = Cardinality(A) + Cardinality(B) - Cardinality(A \cap B)
    BY <1>2, FS_Union
  <2>2. Cardinality(A \cap B) = 0
    BY <1>2, FS_EmptySet
  <2> QED BY <1>4, <2>1, <2>2
<1>6. Cardinality(A \cup B) <= Total
  BY <1>1, <1>2, FS_Subset
<1>7. OtherHandling = Total - Resolved - Referred
  <2>1. Total - Resolved - Referred \in Int /\ 0 \in Int /\ Total - Resolved - Referred >= 0
    BY <1>1, <1>3, <1>4, <1>5, <1>6
  <2> DEFINE rest == Total - Resolved - Referred
  <2>2. OtherHandling = Max({rest, 0}) /\ rest \in Int /\ rest >= 0
    BY <2>1 DEF OtherHandling
  <2> HIDE DEF rest
  <2>3. OtherHandling = rest
    BY <2>1, <2>2, OfTwo
  <2> QED BY <2>3 DEF rest
<1>8. Cardinality(LabeledReferred) <= Referred
  <2>1. LabeledReferred \subseteq A
    BY DEF LabeledReferred, A, D
  <2> QED BY <1>2, <1>3, <2>1, FS_Subset
<1> QED BY <1>1, <1>3, <1>4, <1>7, <1>8 DEF HandlingAddsUp

-----------------------------------------------------------------------------
(* Overview *)

\* The rows that the report has read.
LEMMA RowsRead ==
  ASSUME ReportConstants, ReportInv, NEW ms \in {read.metrics, read.overview}
  PROVE  /\ IsFiniteSet(DOMAIN ms) /\ IsFiniteSet(Known(ms)) /\ DOMAIN ms \subseteq Int
         /\ \A c \in Known(ms) :
               /\ c \in Int /\ ms[c].response \in Int /\ ms[c].members \in Nat /\ ms[c].stars \in Seq(1..5)
               /\ ms[c].kinds \in [UnansweredKinds -> Nat]
<1>1. ms \in Seq(MetricsRows)
  BY DEF ReportInv, Reading
<1>2. Len(ms) \in Nat /\ DOMAIN ms = 1..Len(ms) /\ \A c \in DOMAIN ms : ms[c] \in MetricsRows
  BY <1>1
<1>3. IsFiniteSet(DOMAIN ms)
  <2>1. 1 \in Int /\ Len(ms) \in Int
    BY <1>2
  <2> QED BY <1>2, <2>1, FS_Interval
<1>4. \A s \in Scores : /\ s.response \in Int /\ s.members \in Nat /\ s.stars \in Seq(1..5)
                        /\ s.kinds \in [UnansweredKinds -> Nat]
  <2> DEFINE Row == [response : Int, trajectory : STRING, members : Nat, intent : STRING, stars : Seq(1..5),
                     kinds : [UnansweredKinds -> Nat]]
  <2>1. Scores \subseteq Row
    BY DEF ReportConstants
  <2>2. \A s \in Row : /\ s.response \in Int /\ s.members \in Nat /\ s.stars \in Seq(1..5)
                       /\ s.kinds \in [UnansweredKinds -> Nat]
    OBVIOUS
  <2> QED BY <2>1, <2>2
<1>5. \A c \in Known(ms) : c \in DOMAIN ms /\ ms[c] \in Scores
  BY <1>2 DEF Known, MetricsRows
<1>6. IsFiniteSet(Known(ms))
  BY <1>3, FS_Subset DEF Known
<1>7. DOMAIN ms \subseteq Int
  BY <1>2
<1> QED BY <1>3, <1>4, <1>5, <1>6, <1>7

\* Of values in order, at least k are not above the one at place k.
LEMMA AsManyAsPlace ==
  ASSUME NEW n \in Nat, NEW s, \A i \in 1..n : s[i] \in Int, \A i, j \in 1..n : i < j => s[i] <= s[j],
         NEW k \in 1..n
  PROVE  Cardinality({i \in 1..n : s[i] <= s[k]}) \in Nat /\ Cardinality({i \in 1..n : s[i] <= s[k]}) >= k
<1> DEFINE A == {i \in 1..n : s[i] <= s[k]}
<1>1. 1..k \subseteq A
  <2> SUFFICES ASSUME NEW i \in 1..k PROVE i \in 1..n /\ s[i] <= s[k]
    OBVIOUS
  <2>1. i \in 1..n /\ (i < k \/ i = k) /\ s[i] \in Int
    OBVIOUS
  <2> QED BY <2>1
<1>2. IsFiniteSet(1..n)
  <2>1. 1 \in Int /\ n \in Int
    OBVIOUS
  <2> QED BY <2>1, FS_Interval
<1>3. IsFiniteSet(A)
  BY <1>2, FS_Subset
<1>4. IsFiniteSet(1..k) /\ Cardinality(1..k) = k
  <2>1. 1 \in Int /\ k \in Int /\ k >= 1
    OBVIOUS
  <2>2. IsFiniteSet(1..k) /\ Cardinality(1..k) = IF 1 > k THEN 0 ELSE k - 1 + 1
    BY <2>1, FS_Interval
  <2> QED BY <2>1, <2>2
<1>5. Cardinality(A) \in Nat
  BY <1>3, FS_CardinalityType
<1> HIDE DEF A
<1>6. Cardinality(1..k) <= Cardinality(A)
  BY <1>1, <1>3, FS_Subset
<1> QED BY <1>4, <1>5, <1>6 DEF A

\* The place of a percentile: one of the places, with that share before it.
LEMMA PlaceOfShare ==
  ASSUME NEW n \in Nat \ {0}, NEW p \in 0..99
  PROVE  (n * p) \div 100 + 1 \in 1..n /\ 100 * ((n * p) \div 100 + 1) >= n * p
<1> DEFINE m == n * p
           q == m \div 100
<1>1. m \in Nat /\ m <= 99 * n
  OBVIOUS
<1> HIDE DEF m
<1>2. q \in Nat /\ 100 * q <= m /\ m < 100 * q + 100
  BY <1>1
<1> HIDE DEF q
<1>3. q + 1 \in 1..n /\ 100 * (q + 1) >= m
  BY <1>1, <1>2
<1> QED BY <1>3 DEF q, m

LEMMA ResponsesInOrder ==
  ASSUME ReportConstants, ReportInv, Len(ResponseTimes) > 0
  PROVE  LET times == ResponseTimes
             n == Len(times)
         IN  /\ AtShare(times, 50) <= AtShare(times, 95)
             /\ 100 * Cardinality({i \in 1..n : times[i] <= AtShare(times, 95)}) >= 95 * n
             /\ 2 * Cardinality({i \in 1..n : times[i] <= AtShare(times, 50)}) >= n
<1> DEFINE R == {c \in Rated : Overview[c].response >= 0}
           f == [c \in R |-> Overview[c].response]
           times == ResponseTimes
           n == Len(times)
<1>1. IsFiniteSet(R) /\ R \subseteq Int /\ \A c \in R : Overview[c].response \in Int
  <2>1. IsFiniteSet(Rated) /\ \A c \in Rated : c \in Int /\ Overview[c].response \in Int
    BY RowsRead DEF Rated, Overview
  <2> QED BY <2>1, FS_Subset
<1>2. DOMAIN f = R /\ \A c \in DOMAIN f : f[c] \in Int
  BY <1>1
<1>3. times = Sorted(f)
  BY DEF ResponseTimes
<1> HIDE DEF R, f, times
<1>4. /\ n \in Nat /\ times \in Seq(Int)
      /\ \A i, j \in 1..n : i < j => times[i] <= times[j]
  BY <1>1, <1>2, <1>3, SortedLists
<1>5. n \in Nat \ {0} /\ \A i \in 1..n : times[i] \in Int
  BY <1>4 DEF times
<1> DEFINE low == (n * 50) \div 100 + 1
           high == (n * 95) \div 100 + 1
<1>6. AtShare(times, 50) = times[low] /\ AtShare(times, 95) = times[high]
  BY DEF AtShare
<1>7. /\ low \in 1..n /\ 100 * low >= n * 50
      /\ high \in 1..n /\ 100 * high >= n * 95
      /\ low <= high
  <2>1. 50 \in 0..99 /\ 95 \in 0..99
    OBVIOUS
  <2> HIDE DEF n
  <2>2. low \in 1..n /\ 100 * low >= n * 50
    BY <1>5, <2>1, PlaceOfShare
  <2>3. high \in 1..n /\ 100 * high >= n * 95
    BY <1>5, <2>1, PlaceOfShare
  <2>4. low <= high
    BY <1>5
  <2> QED BY <2>2, <2>3, <2>4
<1> HIDE DEF n, low, high
<1>8. times[low] <= times[high]
  <2>1. low < high \/ low = high
    BY <1>5, <1>7
  <2>2. times[low] \in Int
    BY <1>5, <1>7
  <2> QED BY <1>4, <1>7, <2>1, <2>2
<1> DEFINE quick == {i \in 1..n : times[i] <= times[low]}
           most == {i \in 1..n : times[i] <= times[high]}
<1>9. Cardinality(quick) \in Nat /\ Cardinality(quick) >= low
  BY <1>4, <1>5, <1>7, AsManyAsPlace
<1>10. Cardinality(most) \in Nat /\ Cardinality(most) >= high
  BY <1>4, <1>5, <1>7, AsManyAsPlace
<1> DEFINE atLow == times[low]
           atHigh == times[high]
<1>11. AtShare(times, 50) <= AtShare(times, 95)
  BY <1>6, <1>8
<1>12. 2 * Cardinality({i \in 1..n : times[i] <= AtShare(times, 50)}) >= n
  <2>1. {i \in 1..n : times[i] <= AtShare(times, 50)} = quick
    BY <1>6
  <2> HIDE DEF quick
  <2>2. 2 * Cardinality(quick) >= n
    BY <1>5, <1>7, <1>9
  <2> QED BY <2>1, <2>2
<1>13. 100 * Cardinality({i \in 1..n : times[i] <= AtShare(times, 95)}) >= 95 * n
  <2>1. {i \in 1..n : times[i] <= AtShare(times, 95)} = most
    BY <1>6
  <2> HIDE DEF most
  <2>2. 100 * Cardinality(most) >= 95 * n
    BY <1>5, <1>7, <1>10
  <2> QED BY <2>1, <2>2
<1> QED BY <1>11, <1>12, <1>13 DEF times, n

LEMMA SharesInRange ==
  ASSUME ReportConstants, ReportInv, Rated # {}
  PROVE  Share("improving") + Share("worsening") + Share("mixed") <= 1001
<1> DEFINE In(x) == {c \in Rated : Overview[c].trajectory = x}
           A == In("improving")
           B == In("worsening")
           C == In("mixed")
           a == Cardinality(A)
           b == Cardinality(B)
           m == Cardinality(C)
           n == Cardinality(Rated)
<1>1. IsFiniteSet(Rated)
  BY RowsRead DEF Rated, Overview
<1>2. /\ IsFiniteSet(A) /\ IsFiniteSet(B) /\ IsFiniteSet(C)
      /\ A \cap B = {} /\ (A \cup B) \cap C = {} /\ (A \cup B) \cup C \subseteq Rated
  BY <1>1, FS_Subset
<1>3. /\ Share("improving") = Pct(a, n) /\ Share("worsening") = Pct(b, n) /\ Share("mixed") = Pct(m, n)
  BY DEF Share
<1> HIDE DEF A, B, C, In
<1>4. a \in Nat /\ b \in Nat /\ m \in Nat /\ n \in Nat \ {0}
  <2>1. n \in Nat /\ (n = 0 <=> Rated = {})
    BY <1>1, FS_CardinalityType, FS_EmptySet
  <2> QED BY <1>2, <2>1, FS_CardinalityType
<1>5. a + b + m <= n
  <2>1. /\ IsFiniteSet(A \cup B) /\ Cardinality(A \cup B) = a + b - Cardinality(A \cap B)
        /\ Cardinality(A \cap B) = 0
    BY <1>2, FS_Union, FS_EmptySet
  <2>2. /\ Cardinality((A \cup B) \cup C) = Cardinality(A \cup B) + m - Cardinality((A \cup B) \cap C)
        /\ Cardinality((A \cup B) \cap C) = 0
    BY <1>2, <2>1, FS_Union, FS_EmptySet
  <2>3. Cardinality((A \cup B) \cup C) <= n
    BY <1>1, <1>2, FS_Subset
  <2> QED BY <1>4, <2>1, <2>2, <2>3
<1> HIDE DEF a, b, m, n
<1> DEFINE p == RoundDiv(1000 * a, n)
           q == RoundDiv(1000 * b, n)
           r == RoundDiv(1000 * m, n)
<1>6. Pct(a, n) = p /\ Pct(b, n) = q /\ Pct(m, n) = r
  BY <1>4 DEF Pct
<1>7. p \in Int /\ 2 * (n * p) <= 2 * (1000 * a) + n
  <2>1. 1000 * a \in Int
    BY <1>4
  <2> QED BY <1>4, <2>1, Rounded
<1>8. q \in Int /\ 2 * (n * q) <= 2 * (1000 * b) + n
  <2>1. 1000 * b \in Int
    BY <1>4
  <2> QED BY <1>4, <2>1, Rounded
<1>9. r \in Int /\ 2 * (n * r) <= 2 * (1000 * m) + n
  <2>1. 1000 * m \in Int
    BY <1>4
  <2> QED BY <1>4, <2>1, Rounded
<1> HIDE DEF p, q, r
<1>10. n * (2 * (p + q + r)) <= n * 2003
  <2>1. n * (2 * (p + q + r)) = 2 * (n * p) + 2 * (n * q) + 2 * (n * r)
    BY <1>4, <1>7, <1>8, <1>9
  <2> DEFINE np == n * p
             nq == n * q
             nr == n * r
  <2>2. np \in Int /\ nq \in Int /\ nr \in Int
    BY <1>4, <1>7, <1>8, <1>9
  <2>3. 2 * np <= 2000 * a + n /\ 2 * nq <= 2000 * b + n /\ 2 * nr <= 2000 * m + n
    BY <1>4, <1>7, <1>8, <1>9
  <2> HIDE DEF np, nq, nr
  <2>4. 2 * np + 2 * nq + 2 * nr <= 2003 * n
    BY <1>4, <1>5, <2>2, <2>3
  <2> QED BY <1>4, <2>1, <2>4 DEF np, nq, nr
<1>11. 2 * (p + q + r) <= 2003
  <2>1. 2 * (p + q + r) \in Int /\ 2003 \in Int
    BY <1>7, <1>8, <1>9
  <2> QED BY <1>4, <1>10, <2>1, LeaveFactorOut
<1>12. p + q + r <= 1001
  BY <1>7, <1>8, <1>9, <1>11
<1> QED BY <1>3, <1>6, <1>12

LEMMA ArcInRange ==
  ASSUME ReportConstants, ReportInv, NEW i \in 1..MaxIndex
  PROVE  AggregateArc[i][1] \in AggregateArc[i][2]..(5 * AggregateArc[i][2])
<1> DEFINE M == read.metrics
           Here(k) == {c \in Known(M) : Len(M[c].stars) >= k}
           Point(k) == <<SumOf([c \in Here(k) |-> M[c].stars[k]]), Cardinality(Here(k))>>
           Filled == {k \in 1..i : Here(k) # {}}
<1>1. AggregateArc[i] = IF Filled = {} THEN <<3, 1>> ELSE Point(Max(Filled))
  BY DEF AggregateArc
<1>2. CASE Filled = {}
  BY <1>1, <1>2
<1>3. CASE Filled # {}
  <2>1. i \in Nat
    BY DEF MaxIndex
  <2>2. IsFiniteSet(1..i)
    <3>1. 1 \in Int /\ i \in Int
      BY <2>1
    <3> QED BY <3>1, FS_Interval
  <2>3. IsFiniteSet(Filled) /\ Filled \subseteq Int
    BY <2>2, FS_Subset
  <2> DEFINE k == Max(Filled)
  <2>4. k \in Filled
    <3> HIDE DEF Filled
    <3> QED BY <1>3, <2>3, Extremes
  <2>5. k \in 1..i
    BY <2>4
  <2> HIDE DEF k
  <2> DEFINE H == Here(k)
             f == [c \in H |-> M[c].stars[k]]
             n == Cardinality(H)
  <2>6. \A c \in H : M[c].stars[k] \in 1..5
    <3> SUFFICES ASSUME NEW c \in H PROVE M[c].stars[k] \in 1..5
      OBVIOUS
    <3> DEFINE s == M[c].stars
    <3>1. c \in Known(M) /\ Len(s) >= k
      OBVIOUS
    <3>2. s \in Seq(1..5)
      BY <3>1, RowsRead
    <3> HIDE DEF s
    <3>3. k \in 1..Len(s)
      BY <2>1, <2>5, <3>1, <3>2
    <3>4. s[k] \in 1..5
      BY <3>2, <3>3
    <3> QED BY <3>4 DEF s
  <2>7. IsFiniteSet(H)
    <3>1. IsFiniteSet(Known(M))
      BY RowsRead
    <3> QED BY <3>1, FS_Subset
  <2>8. DOMAIN f = H /\ \A c \in H : f[c] \in Int /\ 1 <= f[c] /\ f[c] <= 5
    BY <2>6
  <2>9. Point(k) = <<SumOf(f), n>>
    OBVIOUS
  <2> HIDE DEF f, H, Point
  <2>10. n \in Nat
    BY <2>7, FS_CardinalityType
  <2>11. SumOf(f) \in Int /\ n * 1 <= SumOf(f) /\ SumOf(f) <= n * 5
    <3>1. SumOf(f) = SumOver(f, H)
      BY <2>8, FoldIsSum DEF SumOf
    <3>2. 1 \in Int /\ 5 \in Int
      OBVIOUS
    <3>3. n * 1 <= SumOver(f, H) /\ SumOver(f, H) <= n * 5
      BY <2>7, <2>8, <3>2, SumBounds
    <3>4. SumOver(f, H) \in Int
      BY <2>7, <2>8, SumTakeOut
    <3> QED BY <3>1, <3>3, <3>4
  <2>12. AggregateArc[i] = <<SumOf(f), n>>
    BY <1>1, <1>3, <2>9 DEF k
  <2> HIDE DEF n
  <2>13. SumOf(f) \in n..(5 * n)
    BY <2>10, <2>11
  <2> QED BY <2>12, <2>13
<1> QED BY <1>2, <1>3

LEMMA OverviewHolds == ASSUME ReportConstants, ReportInv PROVE OverviewInRange
BY ResponsesInOrder, SharesInRange, ArcInRange DEF OverviewInRange

-----------------------------------------------------------------------------
(* The knowledge gap *)

\* The questions of the rows, by their keys.
LEMMA OccurrencesRead ==
  ASSUME ReportInv
  PROVE  /\ Len(Occurrences) \in Nat /\ DOMAIN Occurrences = 1..Len(Occurrences)
         /\ DOMAIN Occurrences = DOMAIN read.rows /\ IsFiniteSet(DOMAIN Occurrences)
         /\ Cardinality(DOMAIN Occurrences) = Len(Occurrences)
         /\ Occurrences = <<>> <=> Len(Occurrences) = 0
<1> DEFINE n == Len(read.rows)
<1>1. n \in Nat /\ DOMAIN read.rows = 1..n
  BY DEF ReportInv, Reading
<1>2. Occurrences = [i \in 1..n |-> RowKey(read.rows[i])]
  BY <1>1 DEF Occurrences
<1> HIDE DEF n
<1>3. Len(Occurrences) = n /\ DOMAIN Occurrences = 1..n
  BY <1>1, <1>2
<1>4. IsFiniteSet(1..n) /\ Cardinality(1..n) = n
  <2>1. 1 \in Int /\ n \in Int
    BY <1>1
  <2>2. IsFiniteSet(1..n) /\ Cardinality(1..n) = IF 1 > n THEN 0 ELSE n - 1 + 1
    BY <2>1, FS_Interval
  <2> QED BY <1>1, <2>2
<1>5. Occurrences = <<>> <=> n = 0
  BY <1>1, <1>2, <1>3
<1> QED BY <1>1, <1>3, <1>4, <1>5

\* Each key occurs once among the unique ones.
LEMMA UniqueKeysRead ==
  ASSUME ReportInv
  PROVE  /\ Len(UniqueKeys) \in Nat /\ DOMAIN UniqueKeys = 1..Len(UniqueKeys)
         /\ Range(UniqueKeys) = Range(Occurrences)
         /\ \A i, j \in DOMAIN UniqueKeys : UniqueKeys[i] = UniqueKeys[j] => i = j
<1> DEFINE D == DOMAIN Occurrences
           P == {i \in D : \A j \in 1..(i - 1) : Occurrences[j] # Occurrences[i]}
           N == Cardinality(P)
<1>1. IsFiniteSet(D) /\ D \subseteq Nat /\ \A i \in D : \A j \in Nat \ {0} : j <= i => j \in D
  BY OccurrencesRead
<1>2. IsFiniteSet(P) /\ P \subseteq Int
  BY <1>1, FS_Subset
<1>3. UniqueKeys = Keep(Occurrences, P)
  BY DEF UniqueKeys
<1>4. PICK b \in Bijection(1..N, P) : \A i \in 1..N : UniqueKeys[i] = Occurrences[b[i]]
  <2> DEFINE kept == Keep(Occurrences, P)
  <2> HIDE DEF P
  <2>1. \E b \in Bijection(1..N, P) : /\ \A i \in 1..N : kept[i] = Occurrences[b[i]]
                                     /\ \A i, j \in 1..N : i < j => b[i] < b[j]
    BY ONLY <1>2, KeepLists, ZenonT(30)
  <2> HIDE DEF kept
  <2>2. UniqueKeys = kept
    BY <1>3 DEF kept
  <2> QED BY ONLY <2>1, <2>2
<1>5. N \in Nat /\ DOMAIN UniqueKeys = 1..N /\ Len(UniqueKeys) = N
  <2> HIDE DEF P
  <2> QED BY <1>2, <1>3, KeepLists
<1>6. /\ \A i \in 1..N : b[i] \in P
      /\ \A x \in P : \E i \in 1..N : b[i] = x
      /\ \A i, j \in 1..N : b[i] = b[j] => i = j
  <2> DEFINE I == 1..N
  <2>1. b \in Bijection(I, P)
    BY <1>4
  <2> HIDE DEF I, P
  <2>2. /\ b \in [I -> P]
        /\ \A x \in P : \E i \in I : b[i] = x
        /\ \A i, j \in I : b[i] = b[j] => i = j
    BY ONLY <2>1, BijectionFacts
  <2> QED BY <2>2 DEF I
<1> HIDE DEF N
<1>7. \A i, j \in P : Occurrences[i] = Occurrences[j] => i = j
  <2> SUFFICES ASSUME NEW i \in P, NEW j \in P, i < j, Occurrences[i] = Occurrences[j] PROVE FALSE
    BY <1>1
  <2>1. i \in Nat \ {0} /\ j \in Nat
    BY OccurrencesRead
  <2>2. i \in 1..(j - 1)
    BY <2>1
  <2> QED BY <2>2
<1>8. \A i, j \in DOMAIN UniqueKeys : UniqueKeys[i] = UniqueKeys[j] => i = j
  <2> HIDE DEF P
  <2> QED BY <1>4, <1>5, <1>6, <1>7
<1>9. Range(UniqueKeys) \subseteq Range(Occurrences)
  BY <1>4, <1>5, <1>6 DEF Range
<1>10. ASSUME NEW k \in D PROVE Occurrences[k] \in Range(UniqueKeys)
  <2> DEFINE S == {j \in D : Occurrences[j] = Occurrences[k]}
  <2>1. S \subseteq Nat /\ S # {}
    BY <1>1
  <2> DEFINE first == Min(S)
  <2>2. first \in S /\ \A y \in S : first <= y
    <3> HIDE DEF S
    <3> QED BY <2>1, LeastElement
  <2> HIDE DEF first
  <2>3. first \in P
    <3>1. first \in D /\ first \in Nat
      BY <1>1, <2>2
    <3>2. ASSUME NEW j \in 1..(first - 1) PROVE Occurrences[j] # Occurrences[first]
      <4>1. j \in D /\ j < first
        BY <1>1, <3>1
      <4> QED BY <1>1, <2>2, <4>1
    <3> QED BY <3>1, <3>2
  <2>4. PICK i \in 1..N : b[i] = first
    BY <1>6, <2>3
  <2>5. UniqueKeys[i] = Occurrences[k]
    BY <1>4, <2>2, <2>4
  <2> QED BY <1>5, <2>5 DEF Range
<1>11. Range(Occurrences) \subseteq Range(UniqueKeys)
  BY <1>10 DEF Range
<1> QED BY <1>5, <1>8, <1>9, <1>11

\* The counts of the categories are counts.
LEMMA BreakdownCounts ==
  ASSUME ReportConstants, ReportInv
  PROVE  /\ IsFiniteSet(UnansweredKinds) /\ DOMAIN UnansweredBreakdown = UnansweredKinds
         /\ \A kind \in UnansweredKinds : UnansweredBreakdown[kind] \in Nat
         /\ TotalUnanswered \in Nat
         /\ TotalUnanswered = UnansweredBreakdown["no_reply"] + UnansweredBreakdown["weak_answer"]
                              + UnansweredBreakdown["not_answered"]
<1>1. /\ IsFiniteSet(Rated)
      /\ \A c \in Rated : Overview[c].kinds \in [UnansweredKinds -> Nat]
  BY RowsRead DEF Rated, Overview
<1>2. ASSUME NEW kind \in UnansweredKinds PROVE UnansweredBreakdown[kind] \in Nat
  <2> DEFINE f == [c \in Rated |-> Overview[c].kinds[kind]]
  <2>1. UnansweredBreakdown[kind] = SumOf(f)
    BY DEF UnansweredBreakdown
  <2>2. DOMAIN f = Rated /\ \A c \in Rated : f[c] \in Nat
    BY <1>1
  <2> HIDE DEF f
  <2>3. SumOver(f, Rated) \in Nat
    BY <1>1, <2>2, SumNat
  <2> QED BY <2>1, <2>2, <2>3, FoldIsSum DEF SumOf
<1> DEFINE a == "no_reply"
           b == "weak_answer"
           e == "not_answered"
<1>3. IsFiniteSet(UnansweredKinds)
  <2>1. IsFiniteSet({a} \cup {b})
    BY FS_Singleton, FS_Union
  <2>2. IsFiniteSet(({a} \cup {b}) \cup {e})
    BY <2>1, FS_Singleton, FS_Union
  <2>3. UnansweredKinds = ({a} \cup {b}) \cup {e}
    BY DEF UnansweredKinds
  <2> QED BY <2>2, <2>3
<1>4. DOMAIN UnansweredBreakdown = UnansweredKinds
  BY DEF UnansweredBreakdown
<1> DEFINE g == UnansweredBreakdown
<1>5. TotalUnanswered = SumOver(g, UnansweredKinds)
  BY <1>4, FoldIsSum DEF TotalUnanswered, SumOf
<1>6. UnansweredKinds = {a, b, e} /\ a # b /\ a # e /\ b # e
  BY DEF UnansweredKinds
<1> HIDE DEF a, b, e, g
<1>7. /\ SumOver(g, {}) = 0
      /\ \A T \in SUBSET UnansweredKinds :
            /\ SumOver(g, T) \in Int
            /\ \A x \in T : SumOver(g, T) = g[x] + SumOver(g, T \ {x})
  <2>1. \A x \in UnansweredKinds : g[x] \in Int
    BY <1>2 DEF g
  <2> QED BY <1>3, <2>1, SumSteps
<1>8. SumOver(g, {a, b, e}) = g[a] + SumOver(g, {b, e})
  <2>1. {a, b, e} \ {a} = {b, e} /\ {a, b, e} \in SUBSET UnansweredKinds
    BY <1>6
  <2> QED BY <1>7, <2>1
<1>9. SumOver(g, {b, e}) = g[b] + SumOver(g, {e})
  <2>1. {b, e} \ {b} = {e} /\ {b, e} \in SUBSET UnansweredKinds
    BY <1>6
  <2> QED BY <1>7, <2>1
<1>10. SumOver(g, {e}) = g[e] + 0
  <2>1. {e} \ {e} = {} /\ {e} \in SUBSET UnansweredKinds
    BY <1>6
  <2> QED BY <1>7, <2>1
<1>11. g[a] \in Nat /\ g[b] \in Nat /\ g[e] \in Nat
  BY <1>2, <1>6 DEF g
<1>12. TotalUnanswered = g[a] + g[b] + g[e]
  BY <1>5, <1>6, <1>8, <1>9, <1>10, <1>11
<1>13. TotalUnanswered \in Nat
  BY <1>11, <1>12
<1> QED BY <1>2, <1>3, <1>4, <1>12, <1>13 DEF a, b, e, g

\* A rounded share of a total is a part of it.
LEMMA ShareOfTotal ==
  ASSUME NEW t \in Nat, NEW n \in Nat \ {0}, NEW x \in 0..n
  PROVE  RoundDiv(t * x, n) \in 0..t /\ (x = 0 => RoundDiv(t * x, n) = 0)
<1> DEFINE r == RoundDiv(t * x, n)
           tx == t * x
<1>1. tx \in Nat /\ tx <= n * t /\ (x = 0 => tx = 0)
  <2>1. tx \in Nat
    OBVIOUS
  <2>2. t * x <= t * n
    OBVIOUS
  <2> QED BY <2>1, <2>2
<1>2. r \in Int /\ 2 * (n * r) <= 2 * tx + n /\ 2 * tx - n <= 2 * (n * r)
  <2>1. tx \in Int
    BY <1>1
  <2> HIDE DEF tx
  <2>2. /\ RoundDiv(tx, n) \in Int
        /\ 2 * (n * RoundDiv(tx, n)) <= 2 * tx + n
        /\ 2 * tx - n <= 2 * (n * RoundDiv(tx, n))
    BY <2>1, Rounded
  <2> QED BY <2>2 DEF tx
<1> HIDE DEF r, tx
<1>3. n * (2 * r) = 2 * (n * r) /\ n * (2 * t + 1) = 2 * (n * t) + n /\ n * t \in Int /\ n * r \in Int
  BY <1>2
<1>4. 2 * r <= 2 * t + 1
  <2>1. n * (2 * r) <= n * (2 * t + 1)
    BY <1>1, <1>2, <1>3
  <2>2. 2 * r \in Int /\ 2 * t + 1 \in Int
    BY <1>2
  <2> QED BY <2>1, <2>2, LeaveFactorOut
<1>5. -1 <= 2 * r
  <2>1. n * (-1) <= n * (2 * r)
    BY <1>1, <1>2, <1>3
  <2>2. 2 * r \in Int /\ -1 \in Int
    BY <1>2
  <2> QED BY <2>1, <2>2, LeaveFactorOut
<1>6. ASSUME x = 0 PROVE r = 0
  <2>1. n * (2 * r) <= n * 1
    BY <1>1, <1>2, <1>3, <1>6
  <2>2. 2 * r \in Int /\ 1 \in Int
    BY <1>2
  <2>3. 2 * r <= 1
    BY <2>1, <2>2, LeaveFactorOut
  <2> QED BY <1>2, <1>5, <2>3
<1> QED BY <1>2, <1>4, <1>5, <1>6 DEF r, tx

LEMMA GapHolds == ASSUME ReportConstants, ReportInv PROVE GapAddsUp
<1> DEFINE n == Len(Occurrences)
           D == DOMAIN Occurrences
           NK == NonsenseKeys
           silly == {i \in D : Occurrences[i] \in NK}
           x == Cardinality(silly)
           T == TotalUnanswered
           scaled == RoundDiv(T * x, n)
           gap == GapReport
<1>1. n \in Nat /\ IsFiniteSet(D) /\ Cardinality(D) = n /\ (Occurrences = <<>> <=> n = 0)
  BY OccurrencesRead
<1>2. T \in Nat
  BY BreakdownCounts
<1>3. x \in 0..n
  <2>1. IsFiniteSet(silly) /\ Cardinality(silly) <= Cardinality(D) /\ Cardinality(silly) \in Nat
    BY <1>1, FS_Subset, FS_CardinalityType
  <2> QED BY <1>1, <2>1
<1>4. NK \subseteq Silly \cup Jokes
  BY DEF NonsenseKeys, NonsenseAmong
<1>5. Silly \cap Range(Occurrences) \subseteq NK
  <2>1. Range(UniqueKeys) = Range(Occurrences)
    BY UniqueKeysRead
  <2> QED BY <2>1 DEF NonsenseKeys, NonsenseAmong
<1>6. NK = {} => x = 0
  <2>1. NK = {} => silly = {}
    OBVIOUS
  <2> QED BY <2>1, FS_EmptySet
<1>7. n > 0 => scaled \in 0..T /\ (x = 0 => scaled = 0)
  <2> HIDE DEF n, x, T
  <2> SUFFICES ASSUME n > 0 PROVE scaled \in 0..T /\ (x = 0 => scaled = 0)
    OBVIOUS
  <2>1. n \in Nat \ {0}
    BY <1>1
  <2> QED BY <1>2, <1>3, <2>1, ShareOfTotal
<1>8. gap = IF n = 0 THEN [total |-> T, nonsense |-> 0, substantive |-> 0]
            ELSE IF T > n THEN [total |-> T, nonsense |-> scaled, substantive |-> T - scaled]
            ELSE [total |-> n, nonsense |-> x, substantive |-> n - x]
  BY DEF GapReport, NonsenseRows
<1> HIDE DEF gap, scaled, x, T, n
<1>9. CASE n = 0
  <2>1. gap.total = T /\ gap.nonsense = 0 /\ gap.substantive = 0
    BY <1>8, <1>9
  <2> QED BY <1>1, <1>2, <1>4, <1>5, <1>9, <2>1 DEF GapAddsUp, gap, n
<1>10. CASE n > 0 /\ T > n
  <2>1. gap.total = T /\ gap.nonsense = scaled /\ gap.substantive = T - scaled
    BY <1>1, <1>8, <1>10
  <2>2. gap.nonsense + gap.substantive = gap.total /\ gap.total >= n /\ gap.nonsense >= 0 /\ gap.substantive >= 0
    BY <1>1, <1>2, <1>7, <1>10, <2>1
  <2>3. gap.nonsense > 0 => NK # {}
    BY <1>6, <1>7, <1>10, <2>1
  <2> QED BY <1>4, <1>5, <2>2, <2>3 DEF GapAddsUp, gap, n
<1>11. CASE n > 0 /\ ~(T > n)
  <2>1. gap.total = n /\ gap.nonsense = x /\ gap.substantive = n - x
    BY <1>1, <1>8, <1>11
  <2>2. gap.nonsense + gap.substantive = gap.total /\ gap.total >= n /\ gap.nonsense >= 0 /\ gap.substantive >= 0
    BY <1>1, <1>3, <1>11, <2>1
  <2>3. gap.nonsense > 0 => NK # {}
    BY <1>6, <2>1
  <2> QED BY <1>4, <1>5, <2>2, <2>3 DEF GapAddsUp, gap, n
<1> QED BY <1>1, <1>9, <1>10, <1>11

-----------------------------------------------------------------------------
(* Rankings *)

\* The largest first, of equal ones the one with the lower place: no two tie.
LEMMA RankOrder ==
  ASSUME NEW S, NEW size, NEW place, \A x \in S : size[x] \in Int /\ place[x] \in Int,
         \A x, y \in S : place[x] = place[y] => x = y,
         NEW R, R = {x \in S \X S : \/ size[x[1]] > size[x[2]]
                                    \/ size[x[1]] = size[x[2]] /\ place[x[1]] < place[x[2]]}
  PROVE  StrictOrder(S, R) /\ \A x, y \in S : <<x, y>> \in R => size[x] >= size[y] /\ x # y
<1>1. \A x, y \in S : <<x, y>> \in R <=> (size[x] > size[y] \/ (size[x] = size[y] /\ place[x] < place[y]))
  OBVIOUS
<1>2. \A x \in S : <<x, x>> \notin R
  BY <1>1
<1>3. \A x, y, z \in S : <<x, y>> \in R /\ <<y, z>> \in R => <<x, z>> \in R
  BY <1>1
<1>4. \A x, y \in S : x # y => <<x, y>> \in R \/ <<y, x>> \in R
  <2> SUFFICES ASSUME NEW x \in S, NEW y \in S, x # y PROVE <<x, y>> \in R \/ <<y, x>> \in R
    OBVIOUS
  <2>1. place[x] # place[y]
    OBVIOUS
  <2> QED BY <1>1, <2>1
<1> QED BY <1>1, <1>2, <1>3, <1>4 DEF StrictOrder

\* The questions without a row, each with its key.
LEMMA AsksRead ==
  ASSUME ReportConstants, ReportInv
  PROVE  IsFiniteSet(AnsweredAsks) /\ \A ask \in AnsweredAsks : KeyOf(ask) \in Range(Keys)
<1> DEFINE D == DOMAIN read.talks
           Of(c) == {c} \X DOMAIN read.talks[c].asks
           all == {Of(c) : c \in D}
<1>1. IsFiniteSet(D) /\ \A c \in D : read.talks[c].asks \in Seq(Range(Keys))
  BY TalksRead
<1>2. ASSUME NEW c \in D PROVE IsFiniteSet(Of(c)) /\ \A ask \in Of(c) : KeyOf(ask) \in Range(Keys)
  <2> DEFINE s == read.talks[c].asks
  <2>1. s \in Seq(Range(Keys))
    BY <1>1
  <2> HIDE DEF s
  <2>2. Len(s) \in Nat /\ DOMAIN s = 1..Len(s) /\ \A k \in DOMAIN s : s[k] \in Range(Keys)
    BY <2>1
  <2>3. IsFiniteSet(DOMAIN s)
    <3>1. 1 \in Int /\ Len(s) \in Int
      BY <2>2
    <3> QED BY <2>2, <3>1, FS_Interval
  <2>4. IsFiniteSet({c} \X DOMAIN s)
    BY <2>3, FS_Singleton, FS_Product
  <2>5. Of(c) = {c} \X DOMAIN s
    BY DEF s
  <2>6. \A ask \in {c} \X DOMAIN s : KeyOf(ask) = s[ask[2]] /\ ask[2] \in DOMAIN s
    BY DEF KeyOf, s
  <2> HIDE DEF Of
  <2> QED BY <2>2, <2>4, <2>5, <2>6
<1>3. IsFiniteSet(all)
  <2> DEFINE f == [c \in D |-> Of(c)]
  <2>1. all = Range(f) /\ DOMAIN f = D
    BY DEF Range
  <2> HIDE DEF f, D, all
  <2> QED BY <1>1, <2>1, RangeFinite
<1>4. IsFiniteSet(UNION all)
  <2>1. \A T \in all : IsFiniteSet(T)
    BY <1>2
  <2> HIDE DEF all
  <2> QED BY <1>3, <2>1, FS_UNION
<1>5. AnsweredAsks \subseteq UNION all
  BY DEF AnsweredAsks
<1>6. \A ask \in UNION all : \E c \in D : ask \in Of(c)
  OBVIOUS
<1> HIDE DEF all, Of
<1> QED BY <1>2, <1>4, <1>5, <1>6, FS_Subset

\* The ranking lists the keys once, the most frequent first, and counts each
\* answered question.
LEMMA RankingRead ==
  ASSUME ReportConstants, ReportInv
  PROVE  /\ Len(AnsweredRanked) \in Nat /\ DOMAIN AnsweredRanked = 1..Len(AnsweredRanked)
         /\ \A i \in DOMAIN AnsweredRanked : AnsweredRanked[i][2] \in Nat
         /\ \A i, j \in DOMAIN AnsweredRanked : i < j =>
               /\ AnsweredRanked[i][2] >= AnsweredRanked[j][2]
               /\ AnsweredRanked[i][1] # AnsweredRanked[j][1]
         /\ SumOf([i \in DOMAIN AnsweredRanked |-> AnsweredRanked[i][2]]) = Cardinality(AnsweredAsks)
<1> DEFINE A == AnsweredAsks
           keys == {KeyOf(ask) : ask \in A}
           Size(k) == Cardinality({ask \in A : KeyOf(ask) = k})
           Place(k) == CHOOSE i \in DOMAIN Keys : Keys[i] = k
           size == [k \in keys |-> Size(k)]
           place == [k \in keys |-> Place(k)]
           R == {x \in keys \X keys : \/ size[x[1]] > size[x[2]]
                                      \/ size[x[1]] = size[x[2]] /\ place[x[1]] < place[x[2]]}
           order == Ordered(keys, R)
           N == Cardinality(keys)
           ranked == AnsweredRanked
<1>1. IsFiniteSet(A) /\ keys \subseteq Range(Keys)
  BY AsksRead
<1>2. IsFiniteSet(keys)
  <2> DEFINE f == [ask \in A |-> KeyOf(ask)]
  <2>1. keys = Range(f) /\ DOMAIN f = A
    BY DEF Range
  <2> HIDE DEF f, keys, A
  <2> QED BY <1>1, <2>1, RangeFinite
<1>3. \A k \in keys : size[k] \in Nat
  <2> SUFFICES ASSUME NEW k \in keys PROVE Size(k) \in Nat
    OBVIOUS
  <2> DEFINE T == {ask \in A : KeyOf(ask) = k}
  <2>1. IsFiniteSet(T)
    BY <1>1, FS_Subset
  <2>2. Cardinality(T) \in Nat
    BY <2>1, FS_CardinalityType
  <2> QED BY <2>2
<1>4. \A k \in keys : place[k] \in DOMAIN Keys /\ Keys[place[k]] = k
  <2> SUFFICES ASSUME NEW k \in keys PROVE Place(k) \in DOMAIN Keys /\ Keys[Place(k)] = k
    OBVIOUS
  <2>1. \E i \in DOMAIN Keys : Keys[i] = k
    BY <1>1 DEF Range
  <2> QED BY <2>1
<1>5. DOMAIN Keys \subseteq Int
  BY DEF ReportConstants
<1>6. R = {x \in keys \X keys : \/ Size(x[1]) > Size(x[2])
                                \/ Size(x[1]) = Size(x[2]) /\ Place(x[1]) < Place(x[2])}
  <2>1. \A x \in keys \X keys : x[1] \in keys /\ x[2] \in keys
    OBVIOUS
  <2>2. \A k \in keys : size[k] = Size(k) /\ place[k] = Place(k)
    OBVIOUS
  <2> HIDE DEF keys, size, place, Size, Place
  <2> QED BY <2>1, <2>2
<1>7. ranked = [i \in DOMAIN order |-> <<order[i], Size(order[i])>>]
  <2> DEFINE S == {x \in keys \X keys : \/ Size(x[1]) > Size(x[2])
                                        \/ Size(x[1]) = Size(x[2]) /\ Place(x[1]) < Place(x[2])}
             listed == Ordered(keys, S)
  <2>1. ranked = [i \in DOMAIN listed |-> <<listed[i], Size(listed[i])>>]
    BY DEF AnsweredRanked
  <2>2. listed = order
    BY <1>6
  <2> HIDE DEF listed, order, Size
  <2> QED BY <2>1, <2>2
<1>8. StrictOrder(keys, R) /\ \A x, y \in keys : <<x, y>> \in R => size[x] >= size[y] /\ x # y
  <2>1. \A x \in keys : size[x] \in Int /\ place[x] \in Int
    <3> HIDE DEF keys, size, place, R
    <3> QED BY <1>3, <1>4, <1>5
  <2>2. \A x, y \in keys : place[x] = place[y] => x = y
    BY <1>4
  <2>3. R = {x \in keys \X keys : \/ size[x[1]] > size[x[2]]
                                  \/ size[x[1]] = size[x[2]] /\ place[x[1]] < place[x[2]]}
    OBVIOUS
  <2> HIDE DEF keys, size, place, R
  <2> QED BY <2>1, <2>2, <2>3, RankOrder
<1> HIDE DEF R
<1>9. /\ N \in Nat /\ DOMAIN order = 1..N /\ order \in Bijection(1..N, keys)
      /\ \A i, j \in 1..N : i < j => <<order[i], order[j]>> \in R
  <2> HIDE DEF keys
  <2> QED BY <1>2, <1>8, OrderedLists
<1>10. \A i \in 1..N : order[i] \in keys
  BY <1>9 DEF Bijection, Injection
<1> HIDE DEF order
<1>11. /\ DOMAIN ranked = 1..N /\ Len(ranked) = N
       /\ \A i \in 1..N : ranked[i] = <<order[i], size[order[i]]>>
  <2>1. \A k \in keys : size[k] = Size(k)
    OBVIOUS
  <2> HIDE DEF size, Size, keys, N, ranked
  <2>2. DOMAIN ranked = 1..N /\ \A i \in 1..N : ranked[i] = <<order[i], Size(order[i])>>
    BY <1>7, <1>9
  <2>3. Len(ranked) = N
    BY <1>7, <1>9
  <2> QED BY <1>10, <2>1, <2>2, <2>3
<1> DEFINE counts == [i \in DOMAIN ranked |-> ranked[i][2]]
<1>12. SumOf(counts) = Cardinality(A)
  <2>1. DOMAIN counts = 1..N /\ \A i \in 1..N : counts[i] = size[order[i]]
    <3> HIDE DEF size, keys, N, ranked
    <3> QED BY <1>11
  <2>2. SumOf(counts) = SumOver(counts, 1..N)
    <3> HIDE DEF counts
    <3> QED BY <2>1, FoldIsSum DEF SumOf
  <2>3. IsFiniteSet(1..N)
    <3>1. 1 \in Int /\ N \in Int
      BY <1>9
    <3> QED BY <3>1, FS_Interval
  <2>4. \A k \in keys : size[k] \in Int
    <3> HIDE DEF size, keys
    <3> QED BY <1>3
  <2> DEFINE I == 1..N
             class == [ask \in A |-> KeyOf(ask)]
  <2>5. order \in Bijection(I, keys) /\ IsFiniteSet(I) /\ \A i \in I : counts[i] = size[order[i]]
    BY <1>9, <2>1, <2>3
  <2>6. class \in [A -> keys] /\ \A k \in keys : size[k] = Cardinality({ask \in A : class[ask] = k})
    <3>1. class \in [A -> keys]
      OBVIOUS
    <3>2. ASSUME NEW k \in keys PROVE size[k] = Cardinality({ask \in A : class[ask] = k})
      <4>1. {ask \in A : class[ask] = k} = {ask \in A : KeyOf(ask) = k}
        OBVIOUS
      <4> QED BY <4>1
    <3> QED BY <3>1, <3>2
  <2>7. SumOf(counts) = SumOver(counts, I)
    BY <2>2
  <2> HIDE DEF I, class, size, keys, counts, A
  <2>8. SumOver(counts, I) = SumOver(size, keys)
    BY <2>4, <2>5, SumRenamed
  <2>9. SumOver(size, keys) = Cardinality(A)
    BY <1>1, <1>2, <2>6, SumOfClasses
  <2> QED BY <2>7, <2>8, <2>9
<1>13. \A i, j \in 1..N : i < j => ranked[i][2] >= ranked[j][2] /\ ranked[i][1] # ranked[j][1]
  <2> HIDE DEF size, keys, N, ranked
  <2> SUFFICES ASSUME NEW i \in 1..N, NEW j \in 1..N, i < j
               PROVE  ranked[i][2] >= ranked[j][2] /\ ranked[i][1] # ranked[j][1]
    OBVIOUS
  <2>1. <<order[i], order[j]>> \in R
    BY <1>9
  <2>2. size[order[i]] >= size[order[j]] /\ order[i] # order[j]
    BY <1>8, <1>10, <2>1
  <2>3. ranked[i] = <<order[i], size[order[i]]>> /\ ranked[j] = <<order[j], size[order[j]]>>
    BY <1>11
  <2> QED BY <2>2, <2>3
<1>14. \A i \in 1..N : ranked[i][2] \in Nat
  <2> HIDE DEF size, keys, N, ranked
  <2> QED BY <1>3, <1>10, <1>11
<1> HIDE DEF N
<1> QED BY <1>9, <1>11, <1>12, <1>13, <1>14 DEF N

LEMMA RankingHolds == ASSUME ReportConstants, ReportInv, phase = "done" PROVE RankingAddsUp
<1>1. ASSUME NEW i \in DOMAIN read.rows, read.rows[i] \in AnsweredAsks PROVE writes > 0
  <2>1. read.rows[i] \notin read.asked
    BY <1>1 DEF AnsweredAsks
  <2>2. read.rows[i] \in Range(read.rows)
    BY DEF Range
  <2>3. writes # 0
    BY <2>1, <2>2 DEF ReportInv, RowsKnown
  <2> QED BY <2>3 DEF ReportInv
<1> QED BY <1>1, RankingRead DEF RankingAddsUp

LEMMA FiguresHold == ASSUME ReportConstants, ReportInv PROVE FiguresAddUp
BY VolumeHolds, PeaksAreLargest, HandlingHolds, OverviewHolds, GapHolds, RankingHolds DEF FiguresAddUp

-----------------------------------------------------------------------------
(* What the pages print *)

\* As long as no job commits, a report reads the same metrics rows twice.
MetricsKnown ==
    writes = 0 =>
        /\ phase \in {"ids", "rows", "overview", "stats", "done"} => read.metrics = metrics
        /\ phase \in {"stats", "done"} => read.overview = read.metrics

\* The rows of the questions, and those that have been read, are of questions that
\* were asked.
Asked(ask) == ask[1] \in DOMAIN talks /\ ask[2] \in DOMAIN talks[ask[1]].asks
RowsAsked == \A ask \in Range(asked) \cup Range(read.rows) : Asked(ask)

ValueOK == value \in Values \cup {NoValue, Unread}

PagesInv == ReportInv /\ MetricsKnown /\ RowsAsked /\ ValueOK

LEMMA CommitsUnknown ==
  ASSUME ReportInv, JobCommits
  PROVE  MetricsKnown'
<1>1. /\ phase # "done" /\ writes' = (IF phase = "idle" THEN 0 ELSE writes + 1)
      /\ UNCHANGED <<phase, read, stats>> /\ writes \in Nat
  BY DEF JobCommits, ReportInv
<1> QED BY <1>1 DEF MetricsKnown

LEMMA RowsStayAsked ==
  ASSUME ReportConstants, ReportInv, RowsAsked, [PagesNext]_pagesVars
  PROVE  RowsAsked'
<1>1. read \in Reading /\ asked \in Seq(Asks) /\ talks \in Seq(Talks)
  BY DEF ReportInv
<1>2. ASSUME UNCHANGED <<talks, asked>>, read'.rows = read.rows PROVE RowsAsked'
  BY <1>2 DEF RowsAsked, Asked
<1>3. ASSUME NEW t \in Talks, StoreTalk(t) PROVE RowsAsked'
  <2>1. talks' = Append(talks, t) /\ asked' = asked /\ read' = read
    BY <1>3 DEF StoreTalk, JobCommits
  <2>2. \A c \in DOMAIN talks : c \in DOMAIN talks' /\ talks'[c] = talks[c]
    BY <1>1, <2>1
  <2> QED BY <2>1, <2>2 DEF RowsAsked, Asked
<1>4. ASSUME NEW c \in DOMAIN talks, NEW s \in Scores, StoreMetrics(c, s) PROVE RowsAsked'
  BY <1>2, <1>4 DEF StoreMetrics, JobCommits
<1>5. ASSUME NEW c \in DOMAIN talks, NEW k \in DOMAIN talks[c].asks, StoreRow(c, k) PROVE RowsAsked'
  <2>1. asked' = Append(asked, <<c, k>>) /\ talks' = talks /\ read' = read
    BY <1>5 DEF StoreRow, JobCommits
  <2>2. Range(asked') \subseteq Range(asked) \cup {<<c, k>>}
    BY <1>1, <2>1 DEF Range
  <2>3. Asked(<<c, k>>)
    BY DEF Asked
  <2> QED BY <2>1, <2>2, <2>3 DEF RowsAsked, Asked
<1>6. ASSUME ReadTalks PROVE RowsAsked'
  <2>1. talks' = talks /\ asked' = asked /\ read' = [Nothing EXCEPT !.talks = talks]
    BY <1>6 DEF ReadTalks
  <2>2. read'.rows = <<>>
    BY <2>1 DEF Nothing
  <2>3. Range(read'.rows) = {}
    BY <2>2 DEF Range
  <2> QED BY <2>1, <2>3 DEF RowsAsked, Asked
<1>7. ASSUME ReadMetrics \/ ReadUnansweredIds \/ ReadOverview PROVE RowsAsked'
  <2>1. UNCHANGED <<talks, asked>> /\ read'.rows = read.rows
    BY <1>1, <1>7 DEF ReadMetrics, ReadUnansweredIds, ReadOverview, Reading
  <2> QED BY <1>2, <2>1
<1>8. ASSUME ReadUnansweredRows PROVE RowsAsked'
  <2>1. talks' = talks /\ asked' = asked /\ read' = [read EXCEPT !.rows = Reverse(asked)]
    BY <1>8 DEF ReadUnansweredRows
  <2>2. read'.rows = Reverse(asked)
    BY <1>1, <2>1 DEF Reading
  <2>3. Range(Reverse(asked)) \subseteq Range(asked)
    BY <1>1 DEF Range, Reverse
  <2> QED BY <2>1, <2>2, <2>3 DEF RowsAsked, Asked
<1>9. ASSUME NEW points, ReadStats(points) PROVE RowsAsked'
  BY <1>2, <1>9 DEF ReadStats
<1>10. ASSUME UNCHANGED reportVars PROVE RowsAsked'
  BY <1>2, <1>10 DEF reportVars
<1>11. ASSUME ReportNext PROVE RowsAsked'
  BY <1>3, <1>4, <1>5, <1>6, <1>7, <1>8, <1>9, <1>11 DEF ReportNext
<1>12. ASSUME NEW answer, FetchValue(answer) PROVE RowsAsked'
  BY <1>10, <1>12 DEF FetchValue
<1>13. ASSUME UNCHANGED pagesVars PROVE RowsAsked'
  BY <1>10, <1>13 DEF pagesVars
<1> QED BY <1>11, <1>12, <1>13 DEF PagesNext

LEMMA PagesStep ==
  ASSUME ReportConstants, PagesInv, [PagesNext]_pagesVars
  PROVE  PagesInv'
<1>1. ReportInv'
  BY ReportStep DEF PagesInv
<1>2. ReportInv /\ MetricsKnown /\ RowsAsked /\ ValueOK
  BY DEF PagesInv
<1>3. ASSUME JobCommits PROVE MetricsKnown'
  BY <1>2, <1>3, CommitsUnknown
<1>4. ASSUME NEW t \in Talks, StoreTalk(t) PROVE MetricsKnown'
  BY <1>3, <1>4 DEF StoreTalk
<1>5. ASSUME NEW c \in DOMAIN talks, NEW s \in Scores, StoreMetrics(c, s) PROVE MetricsKnown'
  BY <1>3, <1>5 DEF StoreMetrics
<1>6. ASSUME NEW c \in DOMAIN talks, NEW k \in DOMAIN talks[c].asks, StoreRow(c, k) PROVE MetricsKnown'
  BY <1>3, <1>6 DEF StoreRow
<1>7. ASSUME ReadTalks PROVE MetricsKnown'
  BY <1>7 DEF ReadTalks, MetricsKnown
<1>8. read \in Reading
  BY <1>2 DEF ReportInv
<1>9. ASSUME ReadMetrics PROVE MetricsKnown'
  <2>1. read'.metrics = metrics /\ metrics' = metrics /\ phase' = "ids"
    BY <1>8, <1>9 DEF ReadMetrics, Reading
  <2> QED BY <2>1 DEF MetricsKnown
<1>10. ASSUME ReadUnansweredIds PROVE MetricsKnown'
  <2>1. /\ read'.metrics = read.metrics /\ metrics' = metrics /\ phase' = "rows" /\ phase = "ids"
        /\ writes' = writes
    BY <1>8, <1>10 DEF ReadUnansweredIds, Reading
  <2> QED BY <1>2, <2>1 DEF MetricsKnown
<1>11. ASSUME ReadUnansweredRows PROVE MetricsKnown'
  <2>1. /\ read'.metrics = read.metrics /\ metrics' = metrics /\ phase' = "overview" /\ phase = "rows"
        /\ writes' = writes
    BY <1>8, <1>11 DEF ReadUnansweredRows, Reading
  <2> QED BY <1>2, <2>1 DEF MetricsKnown
<1>12. ASSUME ReadOverview PROVE MetricsKnown'
  <2> DEFINE found == [c \in DOMAIN metrics |->
                         IF c \in DOMAIN read.metrics /\ read.metrics[c] # NoMetrics
                         THEN read.metrics[c] ELSE metrics[c]]
  <2>1. /\ read' = [read EXCEPT !.overview = found] /\ metrics' = metrics /\ phase' = "stats"
        /\ phase = "overview" /\ writes' = writes
    BY <1>12 DEF ReadOverview
  <2>2. read.metrics = metrics => found = metrics
    <3>1. metrics \in Seq(MetricsRows)
      BY <1>2 DEF ReportInv
    <3>2. metrics = [c \in DOMAIN metrics |-> metrics[c]]
      BY <3>1
    <3> QED BY <3>2
  <2> HIDE DEF found
  <2>3. read'.metrics = read.metrics /\ read'.overview = found
    BY <1>8, <2>1 DEF Reading
  <2> QED BY <1>2, <2>1, <2>2, <2>3 DEF MetricsKnown
<1>13. ASSUME NEW points, ReadStats(points) PROVE MetricsKnown'
  <2>1. read' = read /\ metrics' = metrics /\ phase' = "done" /\ phase = "stats" /\ writes' = writes
    BY <1>13 DEF ReadStats
  <2> QED BY <1>2, <2>1 DEF MetricsKnown
<1>14. ASSUME UNCHANGED reportVars PROVE MetricsKnown'
  BY <1>2, <1>14 DEF reportVars, MetricsKnown
<1>15. ASSUME ReportNext PROVE MetricsKnown'
  BY <1>4, <1>5, <1>6, <1>7, <1>9, <1>10, <1>11, <1>12, <1>13, <1>15 DEF ReportNext
<1>16. ASSUME UNCHANGED value PROVE ValueOK'
  BY <1>2, <1>16 DEF ValueOK
<1>17. ASSUME NEW answer \in Values \cup {NoValue}, FetchValue(answer) PROVE MetricsKnown' /\ ValueOK'
  <2>1. MetricsKnown'
    BY <1>14, <1>17 DEF FetchValue
  <2> QED BY <1>17, <2>1 DEF FetchValue, ValueOK
<1>18. ASSUME UNCHANGED pagesVars PROVE MetricsKnown' /\ ValueOK'
  BY <1>14, <1>16, <1>18 DEF pagesVars
<1>19. MetricsKnown' /\ ValueOK'
  BY <1>15, <1>16, <1>17, <1>18 DEF PagesNext
<1>20. RowsAsked'
  BY <1>2, RowsStayAsked
<1> QED BY <1>1, <1>19, <1>20 DEF PagesInv

-----------------------------------------------------------------------------
(* Sums of shares *)

\* The first elements of a sequence.
LEMMA FirstOf ==
  ASSUME NEW X, NEW s \in Seq(X), NEW n \in Nat
  PROVE  LET m == IF n <= Len(s) THEN n ELSE Len(s)
         IN  /\ Min({n, Len(s)}) = m /\ m \in Nat
             /\ SubSeq(s, 1, m) \in Seq(X) /\ Len(SubSeq(s, 1, m)) = m
             /\ DOMAIN SubSeq(s, 1, m) = 1..m
             /\ \A i \in 1..m : SubSeq(s, 1, m)[i] = s[i]
<1> DEFINE m == IF n <= Len(s) THEN n ELSE Len(s)
<1>1. Len(s) \in Int /\ n \in Int /\ Len(s) \in Nat
  OBVIOUS
<1>2. Min({n, Len(s)}) = m
  BY <1>1, OfTwo
<1>3. m \in Nat /\ m <= Len(s)
  BY <1>1
<1> HIDE DEF m
<1>4. /\ SubSeq(s, 1, m) = [i \in 1..m |-> s[i]]
  <2>1. SubSeq(s, 1, m) = [i \in 1..(1 + m - 1) |-> s[i + 1 - 1]]
    BY <1>1, <1>3
  <2>2. 1 + m - 1 = m /\ \A i \in 1..m : i + 1 - 1 = i
    BY <1>3
  <2> QED BY <2>1, <2>2
<1>5. \A i \in 1..m : s[i] \in X
  BY <1>1, <1>3
<1>6. SubSeq(s, 1, m) \in Seq(X) /\ Len(SubSeq(s, 1, m)) = m
  BY <1>3, <1>4, <1>5
<1> QED BY <1>2, <1>3, <1>4, <1>6 DEF m

\* Percentages of the parts of a whole: their sum is the percentage of the sum,
\* but for a half for each.
LEMMA SharesAddUp ==
  ASSUME NEW S, IsFiniteSet(S), NEW w \in Nat \ {0}, NEW c, NEW p,
         \A x \in S : c[x] \in Int /\ p[x] = WholePercent(c[x], w)
  PROVE  /\ \A x \in S : p[x] \in Int
         /\ SumOver(p, S) \in Int /\ SumOver(c, S) \in Int /\ Cardinality(S) \in Nat
         /\ 2 * (w * SumOver(p, S)) <= 200 * SumOver(c, S) + w * Cardinality(S)
         /\ 200 * SumOver(c, S) - w * Cardinality(S) <= 2 * (w * SumOver(p, S))
<1> DEFINE n == Cardinality(S)
           diff == [x \in S |-> 2 * (w * p[x]) - 200 * c[x]]
           wp == [x \in S |-> (2 * w) * p[x]]
           hc == [x \in S |-> (-200) * c[x]]
<1>1. \A x \in S : /\ p[x] \in Int /\ c[x] \in Int
                   /\ 2 * (w * p[x]) <= 200 * c[x] + w /\ 200 * c[x] - w <= 2 * (w * p[x])
  <2> SUFFICES ASSUME NEW x \in S
               PROVE  /\ p[x] \in Int /\ c[x] \in Int
                      /\ 2 * (w * p[x]) <= 200 * c[x] + w /\ 200 * c[x] - w <= 2 * (w * p[x])
    OBVIOUS
  <2>1. c[x] \in Int /\ p[x] = RoundDiv(100 * c[x], w) /\ 100 * c[x] \in Int
    BY DEF WholePercent
  <2>2. /\ RoundDiv(100 * c[x], w) \in Int
        /\ 2 * (w * RoundDiv(100 * c[x], w)) <= 2 * (100 * c[x]) + w
        /\ 2 * (100 * c[x]) - w <= 2 * (w * RoundDiv(100 * c[x], w))
    BY <2>1, Rounded
  <2> QED BY <2>1, <2>2
<1>2. SumOver(p, S) \in Int /\ SumOver(c, S) \in Int
  BY <1>1, SumTakeOut
<1>3. SumOver(wp, S) = (2 * w) * SumOver(p, S)
  <2>1. \A x \in S : p[x] \in Int /\ wp[x] = (2 * w) * p[x]
    BY <1>1
  <2>2. 2 * w \in Int
    OBVIOUS
  <2> DEFINE k == 2 * w
  <2>3. k \in Int /\ \A x \in S : p[x] \in Int /\ wp[x] = k * p[x]
    BY <2>1, <2>2
  <2> HIDE DEF k, wp
  <2>4. SumOver(wp, S) = k * SumOver(p, S)
    BY <2>3, SumTimes
  <2> QED BY <2>4 DEF k
<1>4. SumOver(hc, S) = (-200) * SumOver(c, S)
  <2> DEFINE k == -200
  <2>1. k \in Int /\ \A x \in S : c[x] \in Int /\ hc[x] = k * c[x]
    BY <1>1
  <2> HIDE DEF k, hc
  <2>2. SumOver(hc, S) = k * SumOver(c, S)
    BY <2>1, SumTimes
  <2> QED BY <2>2 DEF k
<1>5. SumOver(diff, S) = SumOver(wp, S) + SumOver(hc, S)
  <2>1. \A x \in S : wp[x] \in Int /\ hc[x] \in Int /\ diff[x] = wp[x] + hc[x]
    BY <1>1
  <2> HIDE DEF diff, wp, hc
  <2> QED BY <2>1, SumPlus
<1>6. n * (-w) <= SumOver(diff, S) /\ SumOver(diff, S) <= n * w
  <2>1. \A x \in S : diff[x] \in Int /\ -w <= diff[x] /\ diff[x] <= w
    BY <1>1
  <2>2. -w \in Int /\ w \in Int
    OBVIOUS
  <2> DEFINE lo == -w
  <2> HIDE DEF diff, lo
  <2>3. n * lo <= SumOver(diff, S) /\ SumOver(diff, S) <= n * w
    BY <2>1, <2>2, SumBounds DEF lo
  <2> QED BY <2>3 DEF lo
<1>7. n \in Nat
  BY FS_CardinalityType
<1> DEFINE sp == SumOver(p, S)
           sc == SumOver(c, S)
<1> HIDE DEF n, sp, sc, diff, wp, hc
<1>8. /\ sp \in Int /\ sc \in Int
      /\ n * (-w) <= (2 * w) * sp + (-200) * sc /\ (2 * w) * sp + (-200) * sc <= n * w
  BY <1>2, <1>3, <1>4, <1>5, <1>6 DEF sp, sc
<1>9. (2 * w) * sp = 2 * (w * sp) /\ n * (-w) = -(w * n) /\ n * w = w * n /\ w * sp \in Int /\ w * n \in Int
  BY <1>7, <1>8
<1>10. 2 * (w * sp) <= 200 * sc + w * n /\ 200 * sc - w * n <= 2 * (w * sp)
  BY <1>8, <1>9
<1> QED BY <1>1, <1>7, <1>8, <1>10 DEF n, sp, sc

-----------------------------------------------------------------------------
(* Channels *)

LEMMA ChannelsHold == ASSUME ReportConstants, ReportInv, phase = "done" PROVE ChannelsAgree
<1> DEFINE C == Channels
           rows == ChannelRows
           counts == [ch \in C |-> rows[ch].count]
           percents == [ch \in C |-> rows[ch].percent]
           n == Cardinality(C)
           w == Total
<1>1. /\ IsFiniteSet(C) /\ w \in Nat \ {0} /\ DOMAIN ChannelCounts = C
      /\ IsFiniteSet(LocalDays(read.talks)) /\ DOMAIN DailyCounts = LocalDays(read.talks)
  BY ClassesRead, DaysRead
<1>2. \A ch \in C : rows[ch] = [count |-> ChannelCounts[ch], percent |-> WholePercent(ChannelCounts[ch], w)]
  BY DEF ChannelRows
<1>3. \A ch \in C : /\ counts[ch] = ChannelCounts[ch] /\ counts[ch] \in Int
                    /\ percents[ch] = WholePercent(counts[ch], w)
  <2> SUFFICES ASSUME NEW ch \in C
               PROVE  /\ counts[ch] = ChannelCounts[ch] /\ counts[ch] \in Int
                      /\ percents[ch] = WholePercent(counts[ch], w)
    OBVIOUS
  <2> DEFINE T == {c \in DOMAIN read.talks : read.talks[c].channel = ch}
  <2>1. ChannelCounts[ch] = Cardinality(T)
    BY ClassesRead
  <2>2. IsFiniteSet(T)
    BY TalksRead, FS_Subset
  <2>3. ChannelCounts[ch] \in Int
    <3> HIDE DEF T
    <3> QED BY <2>1, <2>2, FS_CardinalityType
  <2>4. counts[ch] = rows[ch].count /\ percents[ch] = rows[ch].percent
    OBVIOUS
  <2>5. rows[ch] = [count |-> ChannelCounts[ch], percent |-> WholePercent(ChannelCounts[ch], w)]
    BY <1>2
  <2> HIDE DEF rows, counts, percents
  <2> QED BY <2>3, <2>4, <2>5
<1>4. SumOf(counts) = w /\ SumOver(counts, C) = w
  <2>1. ChannelCounts = [ch \in C |-> ChannelCounts[ch]]
    BY DEF ChannelCounts
  <2>2. counts = ChannelCounts
    BY <1>3, <2>1
  <2>3. SumOf(ChannelCounts) = w
    BY VolumeHolds DEF VolumeAddsUp
  <2> QED BY <1>1, <2>2, <2>3, FoldIsSum DEF SumOf
<1>5. SumOf(percents) = SumOver(percents, C)
  <2>1. DOMAIN percents = C
    OBVIOUS
  <2> HIDE DEF percents, C
  <2> QED BY <2>1, FoldIsSum DEF SumOf
<1> DEFINE sum == SumOf(percents)
<1>6. /\ sum \in Int /\ n \in Nat
      /\ 2 * (w * sum) <= 200 * w + w * n /\ 200 * w - w * n <= 2 * (w * sum)
  <2> HIDE DEF counts, percents, C, w
  <2>1. /\ SumOver(percents, C) \in Int /\ Cardinality(C) \in Nat
        /\ 2 * (w * SumOver(percents, C)) <= 200 * SumOver(counts, C) + w * Cardinality(C)
        /\ 200 * SumOver(counts, C) - w * Cardinality(C) <= 2 * (w * SumOver(percents, C))
    BY <1>1, <1>3, SharesAddUp, ZenonT(20)
  <2> QED BY <1>4, <1>5, <2>1
<1>7. 2 * Distance(sum, 100) <= n
  <2> HIDE DEF counts, percents, C, w, sum, n
  <2>1. /\ w * (2 * sum) = 2 * (w * sum) /\ w * (200 + n) = 200 * w + w * n /\ w * (200 - n) = 200 * w - w * n
        /\ w * sum \in Int /\ w * n \in Int
    BY <1>1, <1>6
  <2>2. w * (2 * sum) <= w * (200 + n) /\ w * (200 - n) <= w * (2 * sum)
    BY <1>1, <1>6, <2>1
  <2>3. 2 * sum \in Int /\ 200 + n \in Int /\ 200 - n \in Int
    BY <1>6
  <2>4. 2 * sum <= 200 + n /\ 200 - n <= 2 * sum
    BY <1>1, <2>2, <2>3, LeaveFactorOut
  <2> QED BY <1>6, <2>4 DEF Distance
<1>8. ASSUME ChartSource = "local" PROVE PerDay <= 10 * ChartDays[PeakDay]
  <2> DEFINE days == DOMAIN ChartDays
             d == Cardinality(days)
             peak == ChartDays[PeakDay]
  <2>1. /\ IsFiniteSet(days) /\ days # {} /\ PeakDay \in days
        /\ \A x \in days : ChartDays[x] \in Int /\ ChartDays[x] <= peak
    BY ChartDaysRead
  <2>2. peak \in Int /\ d \in Nat \ {0}
    BY <2>1, FS_CardinalityType, FS_EmptySet
  <2>3. SumOf(ChartDays) = w
    BY <1>8, PeaksAreLargest DEF PeaksHold
  <2> DEFINE f == ChartDays
  <2> HIDE DEF days, peak
  <2>4. SumOver(f, days) = w
    BY <2>3, FoldIsSum DEF SumOf, days
  <2>5. w <= d * peak
    <3>1. \E lo \in Int : \A x \in days : lo <= f[x]
      <4> DEFINE R == {f[x] : x \in days}
                 h == [x \in days |-> f[x]]
      <4>1. R = Range(h) /\ DOMAIN h = days
        BY DEF Range
      <4> HIDE DEF h
      <4>2. IsFiniteSet(R)
        BY <2>1, <4>1, RangeFinite
      <4>3. R \subseteq Int /\ R # {}
        BY <2>1
      <4> HIDE DEF R
      <4>4. Min(R) \in R /\ \A y \in R : Min(R) <= y
        BY <4>2, <4>3, Extremes
      <4>5. Min(R) \in Int
        BY <4>3, <4>4
      <4> USE DEF R
      <4>6. \A x \in days : f[x] \in R
        OBVIOUS
      <4> HIDE DEF R
      <4> QED BY <4>4, <4>5, <4>6
    <3>2. PICK lo \in Int : \A x \in days : lo <= f[x]
      BY <3>1
    <3> HIDE DEF f
    <3>3. \A x \in days : f[x] \in Int /\ lo <= f[x] /\ f[x] <= peak
      BY <2>1, <3>2 DEF f
    <3>4. SumOver(f, days) <= Cardinality(days) * peak
      BY <2>1, <2>2, <3>3, SumBounds
    <3> QED BY <2>4, <3>4
  <2> HIDE DEF d, f, w
  <2>6. 10 * w \in Int /\ 10 * peak \in Int /\ 10 * w <= d * (10 * peak)
    <3>1. d * (10 * peak) = 10 * (d * peak) /\ d * peak \in Int
      BY <2>2
    <3> QED BY <1>1, <2>2, <2>5, <3>1
  <2>7. RoundDiv(10 * w, d) <= 10 * peak
    BY <2>2, <2>6, AverageBelow
  <2> QED BY <2>7 DEF PerDay, d, days, w, peak
<1>9. ChannelsAgree = /\ SumOf(counts) = Total
                      /\ 2 * Distance(sum, 100) <= n
                      /\ ChartSource = "local" => PerDay <= 10 * ChartDays[PeakDay]
  BY DEF ChannelsAgree
<1> HIDE DEF counts, sum, n
<1> QED BY <1>4, <1>7, <1>8, <1>9

-----------------------------------------------------------------------------
(* Referrals *)

\* The labels of the referred conversations, counted.
LEMMA IntentsRead ==
  ASSUME ReportConstants, PagesConstants, ReportInv
  PROVE  /\ IsFiniteSet(LabeledReferred) /\ Cardinality(LabeledReferred) \in Nat
         /\ IsFiniteSet(DOMAIN IntentCounts) /\ DOMAIN IntentCounts \subseteq Range(Slugs)
         /\ \A slug \in DOMAIN IntentCounts : IntentCounts[slug] \in Nat
         /\ SumOver(IntentCounts, DOMAIN IntentCounts) = Cardinality(LabeledReferred)
         /\ DOMAIN IntentCounts = {} <=> LabeledReferred = {}
<1> DEFINE A == LabeledReferred
           class == [c \in A |-> read.metrics[c].intent]
           K == {read.metrics[c].intent : c \in A}
           counts == IntentCounts
<1>1. IsFiniteSet(A)
  <2>1. IsFiniteSet(Known(read.metrics))
    BY RowsRead
  <2>2. A \subseteq Known(read.metrics)
    BY DEF LabeledReferred
  <2> QED BY <2>1, <2>2, FS_Subset
<1>2. Cardinality(A) \in Nat
  BY <1>1, FS_CardinalityType
<1>3. DOMAIN counts = K /\ counts = [slug \in K |-> Cardinality({c \in A : read.metrics[c].intent = slug})]
  BY DEF IntentCounts
<1>4. K \subseteq Range(Slugs)
  <2> SUFFICES ASSUME NEW c \in A PROVE read.metrics[c].intent \in Range(Slugs)
    OBVIOUS
  <2>1. c \in Known(read.metrics) /\ read.metrics[c].intent # "none"
    BY DEF LabeledReferred
  <2>2. read.metrics \in Seq(MetricsRows)
    BY DEF ReportInv, Reading
  <2>3. read.metrics[c] \in MetricsRows /\ read.metrics[c] # NoMetrics
    BY <2>1, <2>2 DEF Known
  <2>4. read.metrics[c] \in Scores
    BY <2>3 DEF MetricsRows
  <2> QED BY <2>1, <2>4 DEF PagesConstants
<1>5. class \in [A -> K] /\ K = Range(class) /\ DOMAIN class = A
  BY DEF Range
<1>6. IsFiniteSet(K)
  <2> HIDE DEF class, K, A
  <2> QED BY <1>1, <1>5, RangeFinite
<1>7. \A k \in K : counts[k] = Cardinality({c \in A : class[c] = k})
  <2> SUFFICES ASSUME NEW k \in K PROVE counts[k] = Cardinality({c \in A : class[c] = k})
    OBVIOUS
  <2>1. {c \in A : class[c] = k} = {c \in A : read.metrics[c].intent = k}
    OBVIOUS
  <2> HIDE DEF counts, class, A
  <2> QED BY <1>3, <2>1
<1>8. \A k \in K : counts[k] \in Nat
  <2> SUFFICES ASSUME NEW k \in K PROVE counts[k] \in Nat
    OBVIOUS
  <2> DEFINE T == {c \in A : class[c] = k}
  <2>1. IsFiniteSet(T)
    BY <1>1, FS_Subset
  <2>2. counts[k] = Cardinality(T)
    BY <1>7
  <2> HIDE DEF T
  <2> QED BY <2>1, <2>2, FS_CardinalityType
<1>9. SumOver(counts, K) = Cardinality(A)
  <2> HIDE DEF counts, class, A, K
  <2> QED BY <1>1, <1>5, <1>6, <1>7, SumOfClasses
<1>10. K = {} <=> A = {}
  OBVIOUS
<1> QED BY <1>1, <1>2, <1>3, <1>4, <1>6, <1>8, <1>9, <1>10

\* The reasons are the most frequent ones, and no more than there are.
LEMMA TopIntentsRead ==
  ASSUME PagesConstants, NEW counts, NEW S, S = DOMAIN counts, IsFiniteSet(S), S \subseteq Range(Slugs),
         \A k \in S : counts[k] \in Nat, NEW limit \in Nat \ {0},
         NEW topics, topics = TopIntents(counts, limit)
  PROVE  /\ Len(topics) \in Nat /\ DOMAIN topics = 1..Len(topics) /\ (topics = <<>> <=> S = {})
         /\ topics = [i \in 1..Len(topics) |-> topics[i]]
         /\ \A i \in DOMAIN topics : topics[i].count \in Nat
                                     /\ topics[i].percent = WholePercent(topics[i].count, SumOf(counts))
         /\ \A i, j \in DOMAIN topics : i < j => topics[i].count >= topics[j].count
         /\ SumOf([i \in DOMAIN topics |-> topics[i].count]) <= SumOver(counts, S)
<1> DEFINE Place(slug) == CHOOSE i \in DOMAIN Slugs : Slugs[i] = slug
           place == [k \in S |-> Place(k)]
           R == {x \in S \X S : \/ counts[x[1]] > counts[x[2]]
                                \/ counts[x[1]] = counts[x[2]] /\ place[x[1]] < place[x[2]]}
           order == Ordered(S, R)
           N == Cardinality(S)
           m == Min({limit, N})
<1>1. \A k \in S : place[k] \in DOMAIN Slugs /\ Slugs[place[k]] = k
  <2> SUFFICES ASSUME NEW k \in S PROVE Place(k) \in DOMAIN Slugs /\ Slugs[Place(k)] = k
    OBVIOUS
  <2>1. \E i \in DOMAIN Slugs : Slugs[i] = k
    BY DEF Range
  <2> QED BY <2>1
<1>2. DOMAIN Slugs \subseteq Int
  BY DEF PagesConstants
<1>3. R = {x \in S \X S : \/ counts[x[1]] > counts[x[2]]
                          \/ counts[x[1]] = counts[x[2]] /\ Place(x[1]) < Place(x[2])}
  <2>1. \A x \in S \X S : x[1] \in S /\ x[2] \in S
    OBVIOUS
  <2>2. \A k \in S : place[k] = Place(k)
    OBVIOUS
  <2> HIDE DEF place, Place
  <2> QED BY <2>1, <2>2
<1>4. StrictOrder(S, R) /\ \A x, y \in S : <<x, y>> \in R => counts[x] >= counts[y] /\ x # y
  <2>1. \A x \in S : counts[x] \in Int /\ place[x] \in Int
    <3> HIDE DEF place
    <3> QED BY <1>1, <1>2
  <2>2. \A x, y \in S : place[x] = place[y] => x = y
    BY <1>1
  <2>3. R = {x \in S \X S : \/ counts[x[1]] > counts[x[2]]
                            \/ counts[x[1]] = counts[x[2]] /\ place[x[1]] < place[x[2]]}
    OBVIOUS
  <2> HIDE DEF place, R
  <2> QED BY <2>1, <2>2, <2>3, RankOrder
<1>5. topics = [i \in 1..Min({limit, Len(order)}) |->
                  [slug |-> order[i], count |-> counts[order[i]],
                   percent |-> WholePercent(counts[order[i]], SumOf(counts))]]
  <2> DEFINE listed == Ordered(DOMAIN counts, {x \in (DOMAIN counts) \X (DOMAIN counts) :
                    \/ counts[x[1]] > counts[x[2]]
                    \/ counts[x[1]] = counts[x[2]] /\ Place(x[1]) < Place(x[2])})
  <2>1. topics = [i \in 1..Min({limit, Len(listed)}) |->
                    [slug |-> listed[i], count |-> counts[listed[i]],
                     percent |-> WholePercent(counts[listed[i]], SumOf(counts))]]
    BY DEF TopIntents
  <2>2. listed = order
    BY <1>3
  <2> HIDE DEF listed, order
  <2> QED BY <2>1, <2>2
<1> HIDE DEF R
<1>6. /\ N \in Nat /\ Len(order) = N /\ DOMAIN order = 1..N /\ order \in Bijection(1..N, S)
      /\ \A i, j \in 1..N : i < j => <<order[i], order[j]>> \in R
  BY <1>4, OrderedLists
<1>7. \A i \in 1..N : order[i] \in S
  BY <1>6 DEF Bijection, Injection
<1> HIDE DEF order
<1>8. N = 0 <=> S = {}
  BY FS_EmptySet
<1> HIDE DEF N
<1>9. m \in Nat /\ m <= N /\ (m = 0 <=> N = 0)
  <2>1. limit \in Int /\ N \in Int
    BY <1>6
  <2>2. m = IF limit <= N THEN limit ELSE N
    BY <2>1, OfTwo
  <2> QED BY <1>6, <2>2
<1> HIDE DEF m
<1>10. topics = [i \in 1..m |->
                  [slug |-> order[i], count |-> counts[order[i]],
                   percent |-> WholePercent(counts[order[i]], SumOf(counts))]]
  BY <1>5, <1>6 DEF m
<1>11. /\ DOMAIN topics = 1..m /\ Len(topics) = m
       /\ \A i \in 1..m : /\ topics[i].count = counts[order[i]]
                          /\ topics[i].percent = WholePercent(counts[order[i]], SumOf(counts))
  BY <1>9, <1>10
<1>12. \A i \in 1..m : i \in 1..N /\ topics[i].count \in Nat
  BY <1>6, <1>7, <1>9, <1>11
<1>13. topics = <<>> <=> m = 0
  <2>1. topics = [i \in 1..m |-> topics[i]]
    BY <1>10
  <2> HIDE DEF m
  <2> QED BY <1>9, <1>11, <2>1
<1>14. \A i, j \in 1..m : i < j => topics[i].count >= topics[j].count
  <2> SUFFICES ASSUME NEW i \in 1..m, NEW j \in 1..m, i < j PROVE topics[i].count >= topics[j].count
    OBVIOUS
  <2>1. <<order[i], order[j]>> \in R
    BY <1>6, <1>12
  <2>2. counts[order[i]] >= counts[order[j]]
    BY <1>4, <1>7, <1>12, <2>1
  <2> QED BY <1>11, <2>2
<1>15. SumOf([i \in DOMAIN topics |-> topics[i].count]) <= SumOver(counts, S)
  <2> DEFINE I == 1..N
             F == 1..m
             L == (m + 1)..N
             g == [i \in I |-> counts[order[i]]]
             shown == [i \in DOMAIN topics |-> topics[i].count]
  <2>1. IsFiniteSet(I) /\ IsFiniteSet(F) /\ IsFiniteSet(L)
    <3>1. 1 \in Int /\ m \in Int /\ m + 1 \in Int /\ N \in Int
      BY <1>6, <1>9
    <3> QED BY <3>1, FS_Interval
  <2>2. I = F \cup L /\ F \cap L = {}
    BY <1>6, <1>9
  <2>3. \A i \in I : g[i] \in Nat /\ g[i] = counts[order[i]]
    BY <1>7
  <2>4. \A i \in F : shown[i] \in Int /\ shown[i] = g[i]
    BY <1>11, <1>12
  <2>5. SumOf(shown) = SumOver(shown, F)
    <3>1. DOMAIN shown = F
      BY <1>11
    <3> HIDE DEF shown, F
    <3> QED BY <3>1, FoldIsSum DEF SumOf
  <2>6. order \in Bijection(I, S)
    BY <1>6
  <2> HIDE DEF I, F, L, g, shown
  <2>7. SumOver(g, I) = SumOver(counts, S)
    BY <2>1, <2>3, <2>6, SumRenamed
  <2>8. SumOver(g, I) = SumOver(g, F) + SumOver(g, L)
    BY <2>1, <2>2, <2>3, SumSplit
  <2>9. SumOver(g, F) = SumOver(shown, F)
    BY <2>1, <2>4, SumEqual
  <2>10. SumOver(g, L) \in Nat /\ SumOver(g, F) \in Nat
    BY <2>1, <2>2, <2>3, SumNat
  <2> QED BY <2>5, <2>7, <2>8, <2>9, <2>10 DEF shown
<1> QED BY <1>8, <1>9, <1>10, <1>11, <1>12, <1>13, <1>14, <1>15

LEMMA ReferralsHold == ASSUME ReportConstants, PagesConstants, ReportInv PROVE ReferralsAgree
<1> DEFINE A == LabeledReferred
           counts == IntentCounts
           S == DOMAIN counts
           topics == TopIntents(counts, 3)
           m == Len(topics)
           w == Cardinality(A)
           basis == ReferredSummary.basis
           shown == [i \in DOMAIN topics |-> topics[i].count]
           percents == [i \in DOMAIN topics |-> topics[i].percent]
           sum == SumOf(percents)
<1>1. /\ IsFiniteSet(A) /\ w \in Nat /\ IsFiniteSet(S) /\ S \subseteq Range(Slugs)
      /\ \A slug \in S : counts[slug] \in Nat
      /\ SumOver(counts, S) = w /\ (S = {} <=> A = {})
  BY IntentsRead
<1>2. SumOf(counts) = w
  BY <1>1, FoldIsSum DEF SumOf
<1>3. /\ m \in Nat /\ DOMAIN topics = 1..m /\ (topics = <<>> <=> S = {})
      /\ \A i \in DOMAIN topics : topics[i].count \in Nat
                                  /\ topics[i].percent = WholePercent(topics[i].count, SumOf(counts))
      /\ \A i, j \in DOMAIN topics : i < j => topics[i].count >= topics[j].count
      /\ SumOf(shown) <= SumOver(counts, S)
  <2> HIDE DEF counts, S, topics
  <2>1. 3 \in Nat \ {0} /\ S = DOMAIN counts /\ topics = TopIntents(counts, 3)
    BY DEF S, topics
  <2>2. IsFiniteSet(S) /\ S \subseteq Range(Slugs) /\ \A k \in S : counts[k] \in Nat
    BY <1>1
  <2> HIDE DEF A, w, basis, percents, sum
  <2> QED BY <2>1, <2>2, TopIntentsRead
<1>4. ReferredSummary.topics = topics /\ basis = IF w < Referred THEN w ELSE Referred
  BY DEF ReferredSummary
<1>5. basis = w /\ w <= Referred /\ Referred \in Nat
  <2>1. w <= Referred
    BY HandlingHolds DEF HandlingAddsUp
  <2>2. Referred \in Nat
    <3> DEFINE T == {c \in DOMAIN read.talks : read.talks[c].referred}
    <3>1. Referred = Cardinality(T) /\ IsFiniteSet(T)
      BY TalksRead, FS_Subset DEF Referred, Count
    <3> QED BY <3>1, FS_CardinalityType
  <2> HIDE DEF basis, w
  <2> QED BY <1>1, <1>4, <2>1, <2>2
<1>6. 2 * (sum - 100) <= m
  <2> HIDE DEF A, w, counts, S, topics, m
  <2>1. CASE m = 0
    <3>1. DOMAIN percents = {} /\ IsFiniteSet(DOMAIN percents)
      BY <1>3, <2>1, FS_EmptySet
    <3>2. SumOver(percents, DOMAIN percents) = 0
      <4> HIDE DEF percents
      <4> QED BY <3>1, SumTakeOut
    <3>3. sum = 0
      <4> HIDE DEF percents
      <4> QED BY <3>2, FoldIsSum DEF SumOf
    <3> QED BY <2>1, <3>3
  <2>2. CASE m > 0
    <3> DEFINE I == 1..m
    <3>1. w \in Nat \ {0}
      <4>1. A # {}
        BY <1>1, <1>3, <2>2
      <4> QED BY <1>1, <4>1, FS_EmptySet DEF w
    <3>2. IsFiniteSet(I) /\ Cardinality(I) = m
      <4>1. 1 \in Int /\ m \in Int
        BY <1>3
      <4>2. IsFiniteSet(I) /\ Cardinality(I) = IF 1 > m THEN 0 ELSE m - 1 + 1
        BY <4>1, FS_Interval
      <4> QED BY <1>3, <2>2, <4>2
    <3>3. \A i \in I : shown[i] \in Int /\ percents[i] = WholePercent(shown[i], w)
      BY <1>2, <1>3
    <3>4. SumOf(percents) = SumOver(percents, I) /\ SumOf(shown) = SumOver(shown, I)
      <4>1. DOMAIN percents = I /\ DOMAIN shown = I
        BY <1>3
      <4> HIDE DEF percents, shown, I
      <4> QED BY <4>1, FoldIsSum DEF SumOf
    <3> HIDE DEF percents, shown, I
    <3> DEFINE sc == SumOver(shown, I)
    <3>5. /\ SumOver(percents, I) \in Int /\ sc \in Int
          /\ 2 * (w * SumOver(percents, I)) <= 200 * sc + w * Cardinality(I)
      BY <3>1, <3>2, <3>3, SharesAddUp
    <3>6. sc <= w
      BY <1>1, <1>3, <3>4
    <3> HIDE DEF sc
    <3>7. sum \in Int /\ 2 * (w * sum) <= 200 * w + w * m
      <4>1. w * m \in Int
        BY <1>3, <3>1
      <4> QED BY <3>1, <3>2, <3>4, <3>5, <3>6, <4>1
    <3> HIDE DEF sum
    <3>8. w * (2 * sum) = 2 * (w * sum) /\ w * (200 + m) = 200 * w + w * m
      BY <1>3, <3>1, <3>7
    <3>9. 2 * sum \in Int /\ 200 + m \in Int /\ w * (2 * sum) <= w * (200 + m)
      BY <1>3, <3>7, <3>8
    <3>10. 2 * sum <= 200 + m
      BY <3>1, <3>9, LeaveFactorOut
    <3> QED BY <1>3, <3>7, <3>10
  <2> QED BY <1>3, <2>1, <2>2
<1>7. ASSUME basis = Referred, NEW c \in DOMAIN read.talks, read.talks[c].referred PROVE c \in A
  <2> DEFINE T == {d \in DOMAIN read.talks : read.talks[d].referred}
  <2>1. Referred = Cardinality(T) /\ IsFiniteSet(T)
    BY TalksRead, FS_Subset DEF Referred, Count
  <2>2. A \subseteq T
    BY DEF LabeledReferred
  <2>3. Cardinality(A) = Cardinality(T)
    BY <1>5, <1>7, <2>1
  <2>4. c \in T
    BY <1>7
  <2> HIDE DEF A, T
  <2>5. A = T
    BY <2>1, <2>2, <2>3, FS_Subset
  <2> QED BY <2>4, <2>5
<1>8. ReferralsAgree =
        /\ (topics = <<>>) = (A = {})
        /\ \A i, j \in DOMAIN topics : i < j => topics[i].count >= topics[j].count
        /\ SumOf(shown) <= basis
        /\ 2 * (sum - 100) <= m
        /\ basis = Referred => \A c \in DOMAIN read.talks : read.talks[c].referred => c \in A
  <2> HIDE DEF topics
  <2> QED BY <1>4 DEF ReferralsAgree
<1> HIDE DEF topics, A, basis, sum, shown, m, w, counts, S
<1>9. SumOf(shown) <= basis
  BY <1>1, <1>3, <1>5
<1>10. (topics = <<>>) = (A = {})
  BY <1>1, <1>3
<1> QED BY <1>3, <1>6, <1>7, <1>8, <1>9, <1>10

-----------------------------------------------------------------------------
(* The pages of the knowledge gap *)

\* The questions of the rows have keys.
LEMMA OccurrencesAreKeys ==
  ASSUME ReportConstants, ReportInv, RowsAsked
  PROVE  Range(Occurrences) \subseteq Range(Keys)
<1> SUFFICES ASSUME NEW i \in DOMAIN read.rows PROVE RowKey(read.rows[i]) \in Range(Keys)
  BY DEF Occurrences, Range
<1> DEFINE ask == read.rows[i]
<1>1. Asked(ask)
  BY DEF RowsAsked, Range
<1>2. talks \in Seq(Talks)
  BY DEF ReportInv
<1>3. talks[ask[1]] \in Talks
  BY <1>1, <1>2 DEF Asked
<1>4. talks[ask[1]].asks \in Seq(Range(Keys))
  BY <1>3 DEF ReportConstants
<1> DEFINE s == talks[ask[1]].asks
<1>5. s \in Seq(Range(Keys)) /\ ask[2] \in DOMAIN s
  BY <1>1, <1>4 DEF Asked
<1> HIDE DEF s
<1>6. s[ask[2]] \in Range(Keys)
  BY <1>5
<1> QED BY <1>6 DEF RowKey, s

\* The real questions differ, are not nonsense, and are no more than the rows
\* without nonsense.
LEMMA RealQuestionsRead ==
  ASSUME ReportConstants, PagesConstants, ReportInv, RowsAsked
  PROVE  /\ Len(RealQuestions) \in Nat /\ DOMAIN RealQuestions = 1..Len(RealQuestions)
         /\ RealQuestions = <<>> <=> Len(RealQuestions) = 0
         /\ \A i \in DOMAIN RealQuestions : /\ RealQuestions[i] \in Range(Keys) /\ RealQuestions[i] # Blank
                                            /\ RealQuestions[i] \notin NonsenseKeys
         /\ \A i, j \in DOMAIN RealQuestions : RealQuestions[i] = RealQuestions[j] => i = j
         /\ Cardinality(NonsenseRows) \in Nat
         /\ Len(RealQuestions) <= Len(Occurrences) - Cardinality(NonsenseRows)
<1> DEFINE keys == UniqueKeys
           NK == NonsenseKeys
           P == {i \in DOMAIN keys : keys[i] \notin NK}
           real == Keep(keys, P)
           shown == RealQuestions
           L == Len(shown)
           N == Cardinality(P)
           X == Range(Occurrences) \ NK
           D == DOMAIN Occurrences
           rest == D \ NonsenseRows
<1>1. /\ Len(keys) \in Nat /\ DOMAIN keys = 1..Len(keys) /\ Range(keys) = Range(Occurrences)
      /\ \A i, j \in DOMAIN keys : keys[i] = keys[j] => i = j
  BY UniqueKeysRead
<1>2. IsFiniteSet(P) /\ P \subseteq Int /\ P \subseteq DOMAIN keys
  <2>1. 1 \in Int /\ Len(keys) \in Int
    BY <1>1
  <2>2. IsFiniteSet(1..Len(keys))
    BY <2>1, FS_Interval
  <2>3. IsFiniteSet(P)
    BY <1>1, <2>2, FS_Subset
  <2> QED BY <1>1, <2>3
<1>3. shown = SubSeq(real, 1, Min({Display, Len(real)}))
  BY DEF RealQuestions, NonsenseKeys
<1> HIDE DEF keys, NK
<1>4. N \in Nat /\ DOMAIN real = 1..N /\ Len(real) = N
  <2> HIDE DEF P
  <2> QED BY <1>2, KeepLists
<1>5. PICK b \in Bijection(1..N, P) : \A i \in 1..N : real[i] = keys[b[i]]
  <2> HIDE DEF P
  <2> QED BY <1>2, KeepLists, ZenonT(20)
<1>6. (\A i \in 1..N : b[i] \in P) /\ (\A i, j \in 1..N : b[i] = b[j] => i = j)
  <2> DEFINE I == 1..N
  <2>1. b \in Bijection(I, P)
    BY <1>5
  <2> HIDE DEF I, P
  <2>2. b \in [I -> P] /\ \A i, j \in I : b[i] = b[j] => i = j
    BY ONLY <2>1, BijectionFacts
  <2> QED BY <2>2 DEF I
<1>7. \A i \in 1..N : real[i] \in X
  <2> SUFFICES ASSUME NEW i \in 1..N PROVE keys[b[i]] \in X
    BY <1>5
  <2>1. b[i] \in DOMAIN keys /\ keys[b[i]] \notin NK
    BY <1>6
  <2> QED BY <1>1, <2>1 DEF Range
<1>8. \A i, j \in 1..N : real[i] = real[j] => i = j
  <2> SUFFICES ASSUME NEW i \in 1..N, NEW j \in 1..N, real[i] = real[j] PROVE i = j
    OBVIOUS
  <2>1. b[i] \in DOMAIN keys /\ b[j] \in DOMAIN keys /\ keys[b[i]] = keys[b[j]]
    BY <1>5, <1>6
  <2> HIDE DEF P, N
  <2> QED BY <1>1, <1>6, <2>1
<1> HIDE DEF P, N
<1>9. real \in Seq(X) /\ Display \in Nat
  <2>1. real = [i \in 1..N |-> real[i]]
    <3>1. real = [i \in DOMAIN real |-> real[i]]
      BY DEF Keep
    <3> QED BY <1>4, <3>1
  <2> HIDE DEF real
  <2> QED BY <1>4, <1>7, <2>1 DEF PagesConstants
<1> HIDE DEF real, X
<1> DEFINE m == IF Display <= Len(real) THEN Display ELSE Len(real)
<1>10. /\ Min({Display, Len(real)}) = m /\ m \in Nat
       /\ SubSeq(real, 1, m) \in Seq(X) /\ Len(SubSeq(real, 1, m)) = m
       /\ DOMAIN SubSeq(real, 1, m) = 1..m
       /\ \A i \in 1..m : SubSeq(real, 1, m)[i] = real[i]
  BY <1>9, FirstOf
<1>11. m <= N
  BY <1>4, <1>9
<1> HIDE DEF m, shown
<1>12. L = m /\ DOMAIN shown = 1..m /\ shown \in Seq(X) /\ \A i \in 1..m : shown[i] = real[i]
  BY <1>3, <1>10
<1>13. \A i \in 1..m : shown[i] \in X
  BY <1>4, <1>7, <1>10, <1>11, <1>12
<1>14. \A i, j \in 1..m : shown[i] = shown[j] => i = j
  BY <1>4, <1>8, <1>10, <1>11, <1>12
<1>15. \A k \in X : k \in Range(Keys) /\ k # Blank /\ k \notin NK
  <2>1. Range(Occurrences) \subseteq Range(Keys)
    BY OccurrencesAreKeys
  <2> QED BY <2>1 DEF X, PagesConstants, Blank
<1>16. shown = <<>> <=> L = 0
  BY <1>10, <1>12
<1>17. /\ IsFiniteSet(D) /\ Cardinality(D) = Len(Occurrences) /\ Len(Occurrences) \in Nat
       /\ NonsenseRows = {i \in D : Occurrences[i] \in NK}
  BY OccurrencesRead DEF NonsenseRows, NK
<1>18. IsFiniteSet(NonsenseRows) /\ IsFiniteSet(rest) /\ rest \cap NonsenseRows = {}
       /\ rest \cup NonsenseRows = D
  BY <1>17, FS_Subset
<1>19. /\ Cardinality(rest) + Cardinality(NonsenseRows) = Len(Occurrences)
       /\ Cardinality(rest) \in Nat /\ Cardinality(NonsenseRows) \in Nat
  <2> HIDE DEF rest, D
  <2> QED BY <1>17, <1>18, ApartUnion, FS_CardinalityType
<1>20. L <= Cardinality(rest)
  <2> DEFINE f == [i \in rest |-> Occurrences[i]]
  <2>1. X = Range(f) /\ DOMAIN f = rest
    BY <1>17 DEF X, Range
  <2> HIDE DEF f, rest
  <2>2. IsFiniteSet(X) /\ Cardinality(X) <= Cardinality(rest)
    BY <1>18, <2>1, RangeFinite
  <2> DEFINE I == 1..m
             g == [i \in I |-> shown[i]]
  <2>3. g \in Injection(I, X)
    BY <1>13, <1>14 DEF Injection, IsInjective
  <2>4. Cardinality(I) = m
    <3>1. 1 \in Int /\ m \in Int
      BY <1>10
    <3>2. Cardinality(I) = IF 1 > m THEN 0 ELSE m - 1 + 1
      BY <3>1, FS_Interval
    <3> QED BY <1>10, <3>2
  <2> HIDE DEF I, g
  <2>5. Cardinality(I) <= Cardinality(X)
    BY <2>2, <2>3, FS_Injection
  <2>6. Cardinality(X) \in Nat
    BY <2>2, FS_CardinalityType
  <2> QED BY <1>10, <1>12, <1>19, <2>2, <2>4, <2>5, <2>6
<1> HIDE DEF L, rest, D
<1>21. L <= Len(Occurrences) - Cardinality(NonsenseRows)
  <2> DEFINE x == Cardinality(NonsenseRows)
             r == Cardinality(rest)
             n == Len(Occurrences)
  <2>1. r + x = n /\ r \in Int /\ x \in Int /\ n \in Int /\ L <= r /\ L \in Int
    BY <1>10, <1>12, <1>17, <1>19, <1>20, SMTT(20)
  <2> HIDE DEF x, r, n
  <2>2. L <= n - x
    BY <2>1
  <2> QED BY <2>2 DEF n, x
<1> QED BY <1>10, <1>12, <1>13, <1>14, <1>15, <1>16, <1>19, <1>21 DEF L, shown, NK

\* More real questions are counted than shown, also when they are scaled.
LEMMA RealCounted ==
  ASSUME NEW T \in Nat, NEW n \in Nat \ {0}, NEW x \in 0..n, T > n
  PROVE  n - x <= T - RoundDiv(T * x, n)
<1> DEFINE tx == T * x
           y == T - (n - x)
<1>1. tx \in Int /\ y \in Int /\ n * y \in Int
  OBVIOUS
<1>2. tx <= n * y
  <2> DEFINE a == T - n
             c == n - x
  <2>1. a \in Nat /\ c \in Nat
    OBVIOUS
  <2>2. T * x = T * n - T * c
    OBVIOUS
  <2>3. n * y = n * T - n * c
    OBVIOUS
  <2>4. a * c = T * c - n * c /\ T * c \in Int /\ n * c \in Int /\ T * n \in Int /\ T * n = n * T
    OBVIOUS
  <2>5. a * c >= 0
    BY <2>1
  <2> QED BY <2>2, <2>3, <2>4, <2>5
<1> HIDE DEF tx, y
<1>3. RoundDiv(tx, n) \in Int /\ RoundDiv(tx, n) <= y
  BY <1>1, <1>2, AverageBelow
<1> QED BY <1>3 DEF tx, y

\* What the report says of the gap.
LEMMA GapRead ==
  ASSUME ReportConstants, ReportInv
  PROVE  /\ Len(Occurrences) - Cardinality(NonsenseRows) <= GapReport.substantive \/ Occurrences = <<>>
         /\ GapReport.substantive \in Nat /\ GapReport.nonsense \in Nat /\ GapReport.total \in Nat
         /\ TotalUnanswered <= GapReport.total /\ TotalUnanswered \in Nat
         /\ Len(Occurrences) <= TotalUnanswered => GapReport.total = TotalUnanswered
<1> DEFINE n == Len(Occurrences)
           x == Cardinality(NonsenseRows)
           T == TotalUnanswered
           scaled == RoundDiv(T * x, n)
           gap == GapReport
<1>1. n \in Nat /\ (Occurrences = <<>> <=> n = 0) /\ T \in Nat
  BY OccurrencesRead, BreakdownCounts
<1>2. x \in 0..n
  <2>1. IsFiniteSet(DOMAIN Occurrences) /\ Cardinality(DOMAIN Occurrences) = n
    BY OccurrencesRead
  <2>2. NonsenseRows \subseteq DOMAIN Occurrences
    BY DEF NonsenseRows
  <2>3. x \in Nat /\ x <= n
    BY <2>1, <2>2, FS_Subset, FS_CardinalityType
  <2> QED BY <1>1, <2>3
<1>3. gap = IF n = 0 THEN [total |-> T, nonsense |-> 0, substantive |-> 0]
            ELSE IF T > n THEN [total |-> T, nonsense |-> scaled, substantive |-> T - scaled]
            ELSE [total |-> n, nonsense |-> x, substantive |-> n - x]
  BY DEF GapReport
<1> HIDE DEF gap, x, T, n
<1>4. CASE n = 0
  <2>1. gap.total = T /\ gap.nonsense = 0 /\ gap.substantive = 0
    BY <1>3, <1>4
  <2> QED BY <1>1, <1>4, <2>1 DEF gap, n, x, T
<1>5. CASE n > 0 /\ T > n
  <2>1. gap.total = T /\ gap.nonsense = scaled /\ gap.substantive = T - scaled
    BY <1>1, <1>3, <1>5
  <2>2. n \in Nat \ {0}
    BY <1>1, <1>5
  <2>3. scaled \in 0..T /\ n - x <= T - scaled
    BY <1>1, <1>2, <1>5, <2>2, ShareOfTotal, RealCounted
  <2> HIDE DEF scaled
  <2>4. gap.substantive \in Nat /\ gap.nonsense \in Nat /\ gap.total \in Nat /\ T <= gap.total
        /\ n - x <= gap.substantive
    BY <1>1, <2>1, <2>3
  <2> QED BY <1>1, <1>5, <2>1, <2>4 DEF gap, n, x, T
<1>6. CASE n > 0 /\ ~(T > n)
  <2>1. gap.total = n /\ gap.nonsense = x /\ gap.substantive = n - x
    BY <1>1, <1>3, <1>6
  <2>2. gap.substantive \in Nat /\ gap.nonsense \in Nat /\ gap.total \in Nat /\ T <= gap.total
        /\ n - x <= gap.substantive /\ (n <= T => gap.total = T)
    BY <1>1, <1>2, <1>6, <2>1
  <2> QED BY <1>1, <2>2 DEF gap, n, x, T
<1> QED BY <1>1, <1>4, <1>5, <1>6

\* The cells of both pages are the real questions one after the other.
LEMMA CellsRead ==
  ASSUME ReportConstants, PagesConstants, ReportInv, RowsAsked, NEW cells,
         cells = QuestionGrid(0, FirstPage) \o QuestionGrid(FirstPage, SecondPage)
  PROVE  /\ DOMAIN cells = 1..(FirstPage + SecondPage)
         /\ \A i \in DOMAIN cells :
               cells[i] = IF i <= Len(RealQuestions) THEN RealQuestions[i] ELSE Blank
<1> DEFINE real == RealQuestions
           L == Len(real)
           F == FirstPage
           S == SecondPage
           first == QuestionGrid(0, F)
           second == QuestionGrid(F, S)
<1>1. L \in Nat /\ F \in Nat \ {0} /\ S \in Nat \ {0}
  BY RealQuestionsRead DEF PagesConstants
<1>2. first = [i \in 1..F |-> IF 0 + i <= L THEN real[0 + i] ELSE Blank]
  BY DEF QuestionGrid
<1>3. second = [i \in 1..S |-> IF F + i <= L THEN real[F + i] ELSE Blank]
  BY DEF QuestionGrid
<1> HIDE DEF real, L, F, S, first, second
<1> DEFINE V == {IF i <= L THEN real[i] ELSE Blank : i \in Nat}
<1>4. first \in Seq(V) /\ Len(first) = F /\ \A i \in 1..F : first[i] = IF i <= L THEN real[i] ELSE Blank
  <2>1. \A i \in 1..F : 0 + i = i /\ i \in Nat
    BY <1>1
  <2>2. \A i \in 1..F : first[i] = IF i <= L THEN real[i] ELSE Blank
    BY <1>2, <2>1
  <2>3. first \in [1..F -> V]
    BY <1>2, <2>1, <2>2
  <2> HIDE DEF V
  <2> QED BY <1>1, <1>2, <2>2, <2>3
<1>5. second \in Seq(V) /\ Len(second) = S
      /\ \A i \in 1..S : second[i] = IF F + i <= L THEN real[F + i] ELSE Blank
  <2>1. \A i \in 1..S : F + i \in Nat
    BY <1>1
  <2>2. \A i \in 1..S : second[i] = IF F + i <= L THEN real[F + i] ELSE Blank
    BY <1>3
  <2>3. second \in [1..S -> V]
    BY <1>3, <2>1
  <2> HIDE DEF V
  <2>4. second \in Seq(V) /\ Len(second) = S
    BY <1>1, <2>3
  <2> QED BY <2>2, <2>4
<1> HIDE DEF V
<1>6. cells = first \o second
  BY DEF first, second, F, S
<1>7. /\ DOMAIN cells = 1..(F + S)
      /\ \A i \in 1..(F + S) : cells[i] = IF i <= F THEN first[i] ELSE second[i - F]
  <2>1. /\ cells \in Seq(V) /\ Len(cells) = Len(first) + Len(second)
        /\ \A i \in 1..(Len(first) + Len(second)) :
              cells[i] = IF i <= Len(first) THEN first[i] ELSE second[i - Len(first)]
    <3>1. first \in Seq(V) /\ second \in Seq(V)
      BY <1>4, <1>5
    <3>2. /\ first \o second \in Seq(V) /\ Len(first \o second) = Len(first) + Len(second)
          /\ \A i \in 1..(Len(first) + Len(second)) :
                (first \o second)[i] = IF i <= Len(first) THEN first[i] ELSE second[i - Len(first)]
      BY <3>1, ConcatProperties
    <3> QED BY <1>6, <3>2, Zenon
  <2>2. DOMAIN cells = 1..Len(cells)
    BY <2>1
  <2> QED BY <1>4, <1>5, <2>1, <2>2
<1>8. ASSUME NEW i \in 1..(F + S) PROVE cells[i] = IF i <= L THEN real[i] ELSE Blank
  <2>1. CASE i <= F
    BY <1>1, <1>4, <1>7, <2>1
  <2>2. CASE ~(i <= F)
    <3>1. i - F \in 1..S /\ F + (i - F) = i
      BY <1>1, <2>2
    <3> QED BY <1>5, <1>7, <2>2, <3>1
  <2> QED BY <2>1, <2>2
<1> QED BY <1>7, <1>8 DEF real, L, F, S

LEMMA QuestionPagesHold == ASSUME ReportConstants, PagesConstants, ReportInv, RowsAsked PROVE QuestionPagesAgree
<1> DEFINE cells == QuestionGrid(0, FirstPage) \o QuestionGrid(FirstPage, SecondPage)
           shown == {i \in DOMAIN cells : cells[i] # Blank}
           real == RealQuestions
           L == Len(real)
           M == FirstPage + SecondPage
<1>1. /\ L \in Nat /\ DOMAIN real = 1..L /\ (real = <<>> <=> L = 0)
      /\ \A i \in 1..L : real[i] # Blank /\ real[i] \notin NonsenseKeys
      /\ \A i, j \in 1..L : real[i] = real[j] => i = j
      /\ Cardinality(NonsenseRows) \in Nat
      /\ L <= Len(Occurrences) - Cardinality(NonsenseRows)
  BY RealQuestionsRead
<1>2. /\ DOMAIN cells = 1..M
      /\ \A i \in 1..M : cells[i] = IF i <= L THEN real[i] ELSE Blank
  BY CellsRead
<1>3. M \in Nat \ {0}
  BY DEF PagesConstants
<1>4. GapInsight.example = IF real = <<>> THEN Blank ELSE real[1]
  BY DEF GapInsight
<1> HIDE DEF cells, real, L, M
<1>5. shown = {i \in 1..M : i <= L}
  BY <1>1, <1>2, <1>3
<1>6. \A i, j \in shown : i # j => cells[i] # cells[j]
  BY <1>1, <1>2, <1>3, <1>5
<1>7. \A i \in shown : cells[i] \notin NonsenseKeys /\ 1..i \subseteq shown
  BY <1>1, <1>2, <1>3, <1>5
<1>8. Cardinality(shown) <= GapReport.substantive
  <2>1. shown \subseteq 1..L
    BY <1>1, <1>3, <1>5
  <2>2. IsFiniteSet(1..L) /\ Cardinality(1..L) = L
    <3>1. 1 \in Int /\ L \in Int
      BY <1>1
    <3>2. IsFiniteSet(1..L) /\ Cardinality(1..L) = IF 1 > L THEN 0 ELSE L - 1 + 1
      BY <3>1, FS_Interval
    <3> QED BY <1>1, <3>2
  <2> HIDE DEF shown
  <2>3. Cardinality(shown) <= L /\ Cardinality(shown) \in Nat
    BY <2>1, <2>2, FS_Subset, FS_CardinalityType
  <2>4. L <= GapReport.substantive /\ GapReport.substantive \in Nat
    <3>1. Len(Occurrences) \in Nat /\ (Occurrences = <<>> => Len(Occurrences) = 0)
      BY OccurrencesRead
    <3> QED BY <1>1, <3>1, GapRead
  <2> QED BY <1>1, <2>3, <2>4
<1>9. GapInsight.example = cells[1]
  BY <1>1, <1>2, <1>3, <1>4
<1>10. QuestionPagesAgree =
         /\ \A i, j \in shown : i # j => cells[i] # cells[j]
         /\ \A i \in shown : cells[i] \notin NonsenseKeys /\ 1..i \subseteq shown
         /\ Cardinality(shown) <= GapReport.substantive
         /\ GapInsight.example = cells[1]
  BY DEF QuestionPagesAgree, cells
<1> QED BY <1>6, <1>7, <1>8, <1>9, <1>10

-----------------------------------------------------------------------------
(* The text about answered questions *)

LEMMA AnsweredTextHolds ==
  ASSUME ReportConstants, PagesConstants, ReportInv
  PROVE  AnsweredTextAgrees
<1> DEFINE ranked == AnsweredRanked
           n == Len(ranked)
           shown == RankedShown
           grid == AnsweredGrid
           R == Ranked
           m == IF R <= n THEN R ELSE n
           f == [i \in DOMAIN shown |-> shown[i][2]]
           g == [i \in DOMAIN grid |-> grid[i][2]]
           h == [i \in DOMAIN ranked |-> ranked[i][2]]
<1>1. /\ n \in Nat /\ DOMAIN ranked = 1..n /\ R \in Nat \ {0}
      /\ \A i \in 1..n : ranked[i][2] \in Nat
      /\ \A i, j \in 1..n : i < j => ranked[i][2] >= ranked[j][2]
      /\ SumOf(h) = Cardinality(AnsweredAsks)
  BY RankingRead DEF PagesConstants
<1>2. ranked \in Seq({ranked[i] : i \in 1..n})
  <2>1. ranked = [i \in DOMAIN ranked |-> ranked[i]]
    BY DEF AnsweredRanked
  <2> HIDE DEF ranked, n
  <2> DEFINE X == {ranked[i] : i \in 1..n}
  <2>2. ranked \in [1..n -> X]
    BY <1>1, <2>1
  <2> HIDE DEF X
  <2>3. ranked \in Seq(X)
    BY <1>1, <2>2
  <2> QED BY <2>3 DEF X
<1>3. shown = SubSeq(ranked, 1, Min({R, n}))
  BY DEF RankedShown
<1> HIDE DEF ranked, shown
<1>4. /\ m \in Nat /\ m <= R /\ m <= n /\ Len(shown) = m /\ DOMAIN shown = 1..m
      /\ \A i \in 1..m : shown[i] = ranked[i]
  <2> DEFINE X == {ranked[i] : i \in 1..n}
  <2> HIDE DEF X
  <2>1. ranked \in Seq(X) /\ R \in Nat
    BY <1>1, <1>2 DEF X
  <2>2. /\ Min({R, n}) = m /\ m \in Nat /\ Len(SubSeq(ranked, 1, m)) = m
        /\ DOMAIN SubSeq(ranked, 1, m) = 1..m
        /\ \A i \in 1..m : SubSeq(ranked, 1, m)[i] = ranked[i]
    BY <2>1, FirstOf
  <2>3. m <= R /\ m <= n
    BY <1>1
  <2> HIDE DEF m
  <2> QED BY <1>3, <2>2, <2>3
<1>5. grid = [i \in 1..R |-> IF i <= Len(shown) THEN shown[i] ELSE <<Blank, 0>>]
  BY DEF AnsweredGrid, shown
<1> HIDE DEF n, m, R, grid
<1>6. /\ DOMAIN grid = 1..R
      /\ \A i \in 1..R : grid[i][2] = IF i <= m THEN ranked[i][2] ELSE 0
  <2>1. ASSUME NEW i \in 1..R PROVE grid[i][2] = IF i <= m THEN ranked[i][2] ELSE 0
    <3>1. CASE i <= m
      <4>1. i \in 1..m
        BY <1>1, <1>4, <3>1
      <4> QED BY <1>4, <1>5, <3>1, <4>1
    <3>2. CASE ~(i <= m)
      BY <1>4, <1>5, <3>2
    <3> QED BY <3>1, <3>2
  <2> QED BY <1>5, <2>1
<1>7. /\ DOMAIN f = 1..m /\ \A i \in 1..m : f[i] = ranked[i][2] /\ f[i] \in Int
      /\ DOMAIN g = 1..R /\ \A i \in 1..R : g[i] = (IF i <= m THEN ranked[i][2] ELSE 0) /\ g[i] \in Int
      /\ DOMAIN h = 1..n /\ \A i \in 1..n : h[i] = ranked[i][2] /\ h[i] \in Int
  <2>1. \A i \in 1..m : i \in 1..n
    BY <1>1, <1>4
  <2>2. \A i \in 1..R : i <= m => i \in 1..n
    BY <1>1, <1>4
  <2>3. DOMAIN f = 1..m /\ DOMAIN g = 1..R /\ DOMAIN h = 1..n
    BY <1>1, <1>4, <1>6
  <2>4. \A i \in 1..m : f[i] = ranked[i][2] /\ f[i] \in Int
    BY <1>1, <1>4, <2>1
  <2>5. \A i \in 1..R : g[i] = IF i <= m THEN ranked[i][2] ELSE 0
    BY <1>6
  <2>6. \A i \in 1..R : g[i] \in Int
    <3> HIDE DEF g
    <3> QED BY <1>1, <2>2, <2>5
  <2>7. \A i \in 1..n : h[i] = ranked[i][2] /\ h[i] \in Int
    BY <1>1
  <2> QED BY <2>3, <2>4, <2>5, <2>6, <2>7
<1> HIDE DEF f, g, h
<1>8. IsFiniteSet(1..m) /\ IsFiniteSet((m + 1)..R)
  <2>1. 1 \in Int /\ m \in Int /\ m + 1 \in Int /\ R \in Int
    BY <1>1, <1>4
  <2> QED BY <2>1, FS_Interval
<1>9. SumOf(f) = SumOver(f, 1..m) /\ SumOf(g) = SumOver(g, 1..R) /\ SumOf(h) = SumOver(h, 1..n)
  BY <1>7, FoldIsSum DEF SumOf
<1>10. SumOf(f) = SumOf(g)
  <2>1. /\ (1..m) \cap ((m + 1)..R) = {} /\ (1..m) \cup ((m + 1)..R) = 1..R
    BY <1>1, <1>4
  <2>2. SumOver(g, 1..R) = SumOver(g, 1..m) + SumOver(g, (m + 1)..R)
    <3> DEFINE A == 1..m
               B == (m + 1)..R
    <3>1. \A i \in A \cup B : g[i] \in Int
      BY <1>7, <2>1
    <3> HIDE DEF A, B
    <3>2. IsFiniteSet(A) /\ IsFiniteSet(B) /\ A \cap B = {} /\ A \cup B = 1..R
      BY <1>8, <2>1 DEF A, B
    <3>3. SumOver(g, A \cup B) = SumOver(g, A) + SumOver(g, B)
      BY <3>1, <3>2, SumSplit
    <3> QED BY <3>2, <3>3 DEF A, B
  <2>3. SumOver(g, (m + 1)..R) = 0
    <3>1. \A i \in (m + 1)..R : g[i] = 0
      BY <1>1, <1>4, <1>7
    <3> QED BY <1>8, <3>1, SumOfZeros
  <2>4. SumOver(f, 1..m) = SumOver(g, 1..m) /\ SumOver(f, 1..m) \in Int
    <3>1. \A i \in 1..m : i \in 1..R /\ i <= m
      BY <1>1, <1>4
    <3>2. \A i \in 1..m : f[i] \in Int /\ f[i] = g[i]
      BY <1>7, <3>1
    <3>3. SumOver(f, 1..m) = SumOver(g, 1..m)
      BY <1>8, <3>2, SumEqual
    <3>4. SumOver(f, 1..m) \in Int
      BY <1>8, <3>2, SumTakeOut
    <3> QED BY <3>3, <3>4
  <2> QED BY <1>9, <2>2, <2>3, <2>4
<1>11. ASSUME shown # <<>> PROVE \A i \in DOMAIN grid : grid[i][2] <= shown[1][2]
  <2>1. m > 0
    <3>1. m = 0 => shown = <<>>
      <4>1. shown \in Seq({ranked[i] : i \in 1..n})
        <5> DEFINE X == {ranked[i] : i \in 1..n}
        <5> HIDE DEF X
        <5>1. ranked \in Seq(X) /\ R \in Nat
          BY <1>1, <1>2 DEF X
        <5>2. Min({R, n}) = m /\ SubSeq(ranked, 1, m) \in Seq(X)
          BY <5>1, FirstOf DEF m, n
        <5> QED BY <1>3, <5>2 DEF X
      <4> DEFINE X == {ranked[i] : i \in 1..n}
      <4> HIDE DEF X
      <4>2. shown \in Seq(X)
        BY <4>1 DEF X
      <4> QED BY <1>4, <4>2
    <3> QED BY <1>4, <1>11, <3>1
  <2>2. shown[1] = ranked[1] /\ 1 \in 1..n
    BY <1>1, <1>4, <2>1
  <2>3. ASSUME NEW i \in 1..R PROVE grid[i][2] <= ranked[1][2]
    <3>1. CASE i <= m
      <4>1. i \in 1..n /\ (i = 1 \/ 1 < i)
        BY <1>1, <1>4, <3>1
      <4>2. ranked[1][2] >= ranked[i][2] /\ ranked[1][2] \in Nat /\ ranked[i][2] \in Nat
        BY <1>1, <2>2, <4>1
      <4> QED BY <1>6, <3>1, <4>2
    <3>2. CASE ~(i <= m)
      BY <1>1, <1>6, <2>2, <3>2
    <3> QED BY <3>1, <3>2
  <2> QED BY <1>6, <2>2, <2>3
<1>12. n <= R => SumOf(f) = Cardinality(AnsweredAsks)
  <2> SUFFICES ASSUME n <= R PROVE SumOf(f) = Cardinality(AnsweredAsks)
    OBVIOUS
  <2>1. m = n
    BY <1>1 DEF m
  <2>2. SumOver(f, 1..m) = SumOver(h, 1..m)
    <3>1. \A i \in 1..m : f[i] \in Int /\ f[i] = h[i]
      BY <1>7, <2>1
    <3> QED BY <1>8, <3>1, SumEqual
  <2> QED BY <1>1, <1>9, <2>1, <2>2
<1>13. AnsweredInsight.occurrences = SumOf(f) /\ AnsweredInsight.top = shown[1]
  BY DEF AnsweredInsight, f, shown
<1> QED BY <1>10, <1>11, <1>12, <1>13 DEF AnsweredTextAgrees, g, grid, shown, n, ranked, R

-----------------------------------------------------------------------------
(* The text about the knowledge gap *)

\* Two parts make a thousand, as far as rounding allows.
LEMMA TwoShares ==
  ASSUME NEW a \in Nat, NEW b \in Nat, a + b > 0
  PROVE  Distance(RoundDiv(1000 * a, a + b) + RoundDiv(1000 * b, a + b), 1000) <= 1
<1> DEFINE t == a + b
           p == RoundDiv(1000 * a, t)
           q == RoundDiv(1000 * b, t)
           s == p + q - 1000
<1>1. t \in Nat \ {0} /\ 1000 * a \in Int /\ 1000 * b \in Int
  OBVIOUS
<1>2. p \in Int /\ q \in Int
      /\ 2 * (t * p) <= 2 * (1000 * a) + t /\ 2 * (1000 * a) - t <= 2 * (t * p)
      /\ 2 * (t * q) <= 2 * (1000 * b) + t /\ 2 * (1000 * b) - t <= 2 * (t * q)
  <2> DEFINE x == 1000 * a
             y == 1000 * b
  <2>1. t \in Nat \ {0} /\ x \in Int /\ y \in Int
    BY <1>1
  <2> HIDE DEF t, x, y
  <2>2. /\ RoundDiv(x, t) \in Int /\ 2 * (t * RoundDiv(x, t)) <= 2 * x + t
        /\ 2 * x - t <= 2 * (t * RoundDiv(x, t))
    BY <2>1, Rounded
  <2>3. /\ RoundDiv(y, t) \in Int /\ 2 * (t * RoundDiv(y, t)) <= 2 * y + t
        /\ 2 * y - t <= 2 * (t * RoundDiv(y, t))
    BY <2>1, Rounded
  <2> QED BY <2>2, <2>3 DEF x, y
<1>3. 1000 * a + 1000 * b = 1000 * t
  OBVIOUS
<1> HIDE DEF t, p, q
<1>4. t * s = t * p + t * q - 1000 * t /\ t * p \in Int /\ t * q \in Int /\ s \in Int
  BY <1>1, <1>2
<1>5. t * s <= t * 1 /\ t * (-1) <= t * s
  BY <1>1, <1>2, <1>3, <1>4
<1>6. s <= 1 /\ -1 <= s
  <2> HIDE DEF s
  <2>1. s \in Int /\ 1 \in Int /\ -1 \in Int
    BY <1>4
  <2> QED BY <1>1, <1>5, <2>1, LeaveFactorOut
<1> QED BY <1>2, <1>6 DEF Distance, p, q, t

\* The largest of three parts has at least a third of a hundred percent.
LEMMA LargestThird ==
  ASSUME NEW n \in Nat, NEW T \in Nat \ {0}, T <= 3 * n
  PROVE  3 * WholePercent(n, T) >= 99
<1> DEFINE x == 100 * n
           p == RoundDiv(x, T)
<1>1. x \in Int
  OBVIOUS
<1> HIDE DEF x
<1>2. p \in Int /\ 2 * x - T <= 2 * (T * p)
  BY <1>1, Rounded
<1> HIDE DEF p
<1>3. T * 197 <= T * (6 * p)
  <2>1. T * (6 * p) = 6 * (T * p) /\ T * p \in Int
    BY <1>2
  <2> QED BY <1>2, <2>1 DEF x
<1>4. 197 <= 6 * p
  <2>1. 197 \in Int /\ 6 * p \in Int
    BY <1>2
  <2> DEFINE y == 6 * p
             c == 197
  <2> HIDE DEF y, c
  <2>2. c <= y
    BY <1>3, <2>1, LeaveFactorOut DEF y, c
  <2> QED BY <2>2 DEF y, c
<1> QED BY <1>2, <1>4 DEF WholePercent, p, x

\* The category that is named has the largest count.
LEMMA InsightRead ==
  ASSUME ReportConstants, ReportInv
  PROVE  /\ GapInsight.count \in Nat /\ GapInsight.count <= TotalUnanswered
         /\ TotalUnanswered <= 3 * GapInsight.count
         /\ TotalUnanswered > 0 => GapInsight.percent = WholePercent(GapInsight.count, TotalUnanswered)
<1> DEFINE f == UnansweredBreakdown
           T == TotalUnanswered
           largest == {i \in DOMAIN Categories : f[Categories[i]] = MaxValue(f)}
           category == Categories[Min(largest)]
           n == f[category]
<1>1. /\ IsFiniteSet(DOMAIN f) /\ DOMAIN f = UnansweredKinds
      /\ \A kind \in UnansweredKinds : f[kind] \in Nat
      /\ T \in Nat /\ T = f["no_reply"] + f["weak_answer"] + f["not_answered"]
  BY BreakdownCounts
<1>2. UnansweredKinds = {"no_reply", "weak_answer", "not_answered"} /\ UnansweredKinds # {}
  BY DEF UnansweredKinds
<1>3. /\ DOMAIN Categories = 1..3 /\ Categories[1] = "weak_answer" /\ Categories[2] = "no_reply"
      /\ Categories[3] = "not_answered"
  BY DEF Categories
<1>4. GapInsight.count = n /\ GapInsight.percent = WholePercent(n, Max({T, 1}))
  BY DEF GapInsight
<1> HIDE DEF f, T
<1>5. /\ MaxValue(f) \in Int /\ \A kind \in UnansweredKinds : f[kind] <= MaxValue(f)
      /\ \E kind \in UnansweredKinds : f[kind] = MaxValue(f)
  <2>1. DOMAIN f # {} /\ \A kind \in DOMAIN f : f[kind] \in Int
    BY <1>1, <1>2
  <2> QED BY <1>1, <2>1, LargestValue
<1>6. largest # {} /\ largest \subseteq 1..3
  <2>1. PICK kind \in UnansweredKinds : f[kind] = MaxValue(f)
    BY <1>5
  <2>2. \E i \in 1..3 : Categories[i] = kind
    BY <1>2, <1>3
  <2> QED BY <1>3, <2>1, <2>2
<1>7. Min(largest) \in largest
  <2>1. largest \subseteq Nat
    BY <1>6
  <2> HIDE DEF largest
  <2> QED BY <1>6, <2>1, LeastElement
<1>8. n = MaxValue(f) /\ category \in UnansweredKinds
  <2>1. Min(largest) \in 1..3 /\ f[Categories[Min(largest)]] = MaxValue(f)
    BY <1>6, <1>7
  <2> HIDE DEF largest
  <2> QED BY <1>2, <1>3, <2>1
<1> HIDE DEF category
<1>9. n \in Nat /\ n <= T /\ T <= 3 * n
  <2>1. f["no_reply"] \in Nat /\ f["weak_answer"] \in Nat /\ f["not_answered"] \in Nat
    BY <1>1, <1>2
  <2>2. f["no_reply"] <= n /\ f["weak_answer"] <= n /\ f["not_answered"] <= n
    BY <1>2, <1>5, <1>8
  <2>3. n = f["no_reply"] \/ n = f["weak_answer"] \/ n = f["not_answered"]
    BY <1>2, <1>8
  <2> QED BY <1>1, <2>1, <2>2, <2>3
<1>10. T > 0 => Max({T, 1}) = T
  <2>1. T \in Int /\ 1 \in Int
    BY <1>1
  <2>2. Max({T, 1}) = IF T >= 1 THEN T ELSE 1
    BY <2>1, OfTwo
  <2> QED BY <1>1, <2>2
<1> QED BY <1>4, <1>9, <1>10 DEF T

LEMMA GapTextHolds ==
  ASSUME ReportConstants, PagesConstants, ReportInv, MetricsKnown, phase = "done"
  PROVE  GapTextAgrees
<1> DEFINE info == GapInfo
           gap == GapReport
<1>1. /\ info.nonsense = Pct(gap.nonsense, gap.total) /\ info.substantive = Pct(gap.substantive, gap.total)
      /\ info.total = gap.total /\ info.questions = QuestionTotal
      /\ info.unanswered[1] = TotalUnanswered /\ info.unanswered[2] = OverviewQuestions
  BY DEF GapInfo
<1> HIDE DEF info
<1>2. /\ gap.substantive \in Nat /\ gap.nonsense \in Nat /\ gap.total \in Nat
      /\ TotalUnanswered <= gap.total /\ TotalUnanswered \in Nat
      /\ Len(Occurrences) <= TotalUnanswered => gap.total = TotalUnanswered
  BY GapRead
<1>3. Occurrences # <<>> => Distance(info.nonsense + info.substantive, 1000) <= 1
  <2> SUFFICES ASSUME Occurrences # <<>> PROVE Distance(info.nonsense + info.substantive, 1000) <= 1
    OBVIOUS
  <2>1. gap.nonsense + gap.substantive = gap.total /\ gap.total >= Len(Occurrences)
    BY GapHolds DEF GapAddsUp
  <2>2. Len(Occurrences) \in Nat /\ Len(Occurrences) # 0
    BY OccurrencesRead
  <2> DEFINE a == gap.nonsense
             b == gap.substantive
  <2>3. a \in Nat /\ b \in Nat /\ gap.total = a + b /\ a + b > 0
    BY <1>2, <2>1, <2>2
  <2>4. ~(gap.total <= 0)
    BY <2>3
  <2>5. info.nonsense = RoundDiv(1000 * a, a + b) /\ info.substantive = RoundDiv(1000 * b, a + b)
    BY <1>1, <2>3, <2>4 DEF Pct
  <2> HIDE DEF a, b
  <2> QED BY <2>3, <2>5, TwoShares
<1>4. writes = 0 /\ Len(Occurrences) <= TotalUnanswered =>
         info.total * info.unanswered[2] = info.unanswered[1] * info.questions
  <2> SUFFICES ASSUME writes = 0, Len(Occurrences) <= TotalUnanswered
               PROVE  info.total * info.unanswered[2] = info.unanswered[1] * info.questions
    OBVIOUS
  <2>1. read.overview = read.metrics
    BY DEF MetricsKnown
  <2>2. OverviewQuestions = QuestionTotal
    BY <2>1 DEF OverviewQuestions, QuestionTotal, Overview, Rated
  <2>3. info.total = info.unanswered[1]
    BY <1>1, <1>2
  <2> QED BY <1>1, <2>2, <2>3
<1>5. GapInsight.count <= info.total
  <2>1. GapInsight.count \in Nat /\ GapInsight.count <= TotalUnanswered
    BY InsightRead
  <2> QED BY <1>1, <1>2, <2>1
<1>6. TotalUnanswered > 0 => 3 * GapInsight.percent >= 99
  <2> SUFFICES ASSUME TotalUnanswered > 0 PROVE 3 * GapInsight.percent >= 99
    OBVIOUS
  <2> DEFINE n == GapInsight.count
             T == TotalUnanswered
  <2>1. n \in Nat /\ T \in Nat \ {0} /\ T <= 3 * n /\ GapInsight.percent = WholePercent(n, T)
    BY <1>2, InsightRead
  <2> HIDE DEF n, T
  <2> QED BY <2>1, LargestThird
<1> QED BY <1>3, <1>4, <1>5, <1>6 DEF GapTextAgrees, info

-----------------------------------------------------------------------------
(* Value *)

\* A metric is a count, or there is none.
LEMMA MetricCounts ==
  ASSUME NEW metric \in Metric
  PROVE  MetricTotal(metric) \in Nat \cup {NoFigure}
<1> DEFINE f == metric.points
<1>1. f \in Seq(Int) /\ metric.given \in Nat \cup {NoFigure}
  BY DEF Metric
<1> HIDE DEF f
<1>2. IsFiniteSet(DOMAIN f) /\ \A i \in DOMAIN f : f[i] \in Int
  <2>1. Len(f) \in Nat /\ DOMAIN f = 1..Len(f)
    BY <1>1
  <2>2. 1 \in Int /\ Len(f) \in Int
    BY <2>1
  <2>3. IsFiniteSet(1..Len(f))
    BY <2>2, FS_Interval
  <2> QED BY <1>1, <2>1, <2>3
<1>3. SumOf(f) \in Int
  <2>1. SumOver(f, DOMAIN f) \in Int
    BY <1>2, SumTakeOut
  <2> QED BY <2>1, FoldIsSum DEF SumOf
<1> QED BY <1>1, <1>3 DEF MetricTotal, NoFigure, f

LEMMA ValuesRead ==
  ASSUME PagesConstants, ValueOK, value # Unread
  PROVE  /\ value.conversations \in Metric /\ value.hours \in Metric
         /\ value.cost \in Metric /\ value.assisted \in Metric
<1>1. value \in Values \/ value = NoValue
  BY DEF ValueOK
<1>2. NoMetric \in Metric
  <2>1. <<>> \in Seq(Int)
    OBVIOUS
  <2> QED BY <2>1 DEF NoMetric, Metric
<1>3. CASE value \in Values
  <2>1. value \in [conversations : Metric, hours : Metric, cost : Metric, assisted : Metric]
    BY <1>3 DEF PagesConstants
  <2> HIDE DEF Metric
  <2> QED BY <2>1
<1>4. CASE value = NoValue
  BY <1>2, <1>4 DEF NoValue
<1> QED BY <1>1, <1>3, <1>4

LEMMA ValueHolds == ASSUME PagesConstants, ValueOK, value # Unread PROVE ValueAgrees
<1> DEFINE cost == MetricTotal(value.cost)
           assisted == MetricTotal(value.assisted)
<1>1. cost \in Nat \cup {-1} /\ assisted \in Nat \cup {-1}
  BY ValuesRead, MetricCounts DEF NoFigure
<1>2. TotalValue = IF cost = -1 /\ assisted = -1 THEN -1 ELSE Max({cost, 0}) + Max({assisted, 0})
  BY DEF TotalValue, NoFigure
<1> HIDE DEF cost, assisted
<1>3. /\ Max({cost, 0}) = IF cost >= 0 THEN cost ELSE 0
      /\ Max({assisted, 0}) = IF assisted >= 0 THEN assisted ELSE 0
  <2>1. cost \in Int /\ assisted \in Int /\ 0 \in Int
    BY <1>1
  <2> QED BY <2>1, OfTwo
<1>4. TotalValue >= cost /\ TotalValue >= assisted
  BY <1>1, <1>2, <1>3
<1>5. value = NoValue => StatsConversations = Total
  <2> SUFFICES ASSUME value = NoValue PROVE StatsConversations = Total
    OBVIOUS
  <2>1. SumOf(<<>>) = 0
    <3>1. DOMAIN <<>> = {}
      OBVIOUS
    <3>2. SumOver(<<>>, {}) = 0
      BY FS_EmptySet, SumTakeOut
    <3> QED BY <3>1, <3>2, FoldIsSum DEF SumOf
  <2>2. MetricTotal(NoMetric) = NoFigure
    BY <2>1 DEF MetricTotal, NoMetric
  <2> QED BY <2>2 DEF StatsConversations, NoValue
<1> QED BY <1>4, <1>5 DEF ValueAgrees, cost, assisted

\* A quotient that is not negative.
LEMMA WholePart ==
  ASSUME NEW a \in Nat, NEW b \in Nat \ {0}
  PROVE  /\ a \div b \in Nat /\ a % b \in 0..(b - 1) /\ a = b * (a \div b) + (a % b)
         /\ RoundDiv(a, b) \in Nat /\ RoundDiv(a, b) \in {a \div b, a \div b + 1}
<1> DEFINE q == a \div b
           r == a % b
<1>1. q \in Int /\ r \in 0..(b - 1) /\ a = b * q + r
  BY Division
<1>2. RoundDiv(a, b) = q \/ RoundDiv(a, b) = q + 1
  BY DEF RoundDiv
<1> HIDE DEF q, r
<1>3. q \in Nat
  <2>1. b * q \in Int /\ b * 0 = 0 /\ b * q > -b
    BY <1>1
  <2>2. b * (-1) <= b * q
    <3>1. b * (-1) = -b
      OBVIOUS
    <3> QED BY <2>1, <3>1
  <2>3. -1 <= q
    <3>1. -1 \in Int
      OBVIOUS
    <3> QED BY <1>1, <2>2, <3>1, LeaveFactorOut
  <2>4. q # -1
    <3>1. b * (-1) = -b
      OBVIOUS
    <3> QED BY <2>1, <3>1
  <2> QED BY <1>1, <2>3, <2>4
<1> QED BY <1>1, <1>2, <1>3 DEF q, r

LEMMA Quotient ==
  ASSUME NEW a \in Nat, NEW b \in Nat \ {0}, NEW q, q = a \div b, NEW r, r = a % b
  PROVE  q \in Nat /\ r \in 0..(b - 1) /\ a = b * q + r /\ RoundDiv(a, b) \in Nat /\ RoundDiv(a, b) \in {q, q + 1}
BY WholePart

\* Hours are written to a twentieth of an hour.
LEMMA HoursNear ==
  ASSUME NEW h \in Nat
  PROVE  /\ HoursWritten(h) \in Nat
         /\ HoursWritten(h) - h <= 4 /\ h - HoursWritten(h) <= 4
<1> DEFINE w == RoundDiv(h, 100)
<1>1. w \in Nat
  <2>1. 100 \in Nat \ {0}
    OBVIOUS
  <2> QED BY <2>1, WholePart
<1>2. HoursWritten(h) = IF Distance(h, 100 * w) < 5 THEN 100 * w ELSE h
  BY DEF HoursWritten
<1> HIDE DEF w
<1> QED BY <1>1, <1>2 DEF Distance

\* The minutes are near the quotient, but for one just below a whole number.
LEMMA MinutesNear ==
  ASSUME NEW m \in Nat, NEW K \in Nat \ {0}, NEW O, O = 100 * K,
         NEW M, M = MinutesWritten(m, O), NEW rem, rem = m % O, NEW product, product = K * M
  PROVE  /\ M \in Int /\ product \in Int
         /\ 20 * rem > 1900 * K \/ (10 * product - m <= 5 * K /\ m - 10 * product <= 5 * K)
         /\ m - 10 * product <= 100 * K
<1> DEFINE q == m \div O
           r == RoundDiv(m, O)
           fine == RoundDiv(10 * m, O)
           x == 10 * m
<1>1. O \in Nat \ {0} /\ O = 100 * K /\ x \in Int /\ x = 10 * m
  OBVIOUS
<1>2. M = IF 20 * Distance(m, O * r) < O THEN 10 * q ELSE fine
  BY DEF MinutesWritten
<1> HIDE DEF x
<1>3. /\ q \in Nat /\ rem \in 0..(O - 1) /\ m = O * q + rem
      /\ r \in Nat /\ r \in {q, q + 1}
  <2> HIDE DEF q, r, fine
  <2>1. m \in Nat /\ O \in Nat \ {0} /\ q = m \div O /\ rem = m % O
    BY <1>1 DEF q
  <2>2. q \in Nat /\ rem \in 0..(O - 1) /\ m = O * q + rem
    BY ONLY <2>1, Quotient
  <2>3. RoundDiv(m, O) \in {q, q + 1}
    BY ONLY <2>1, Quotient
  <2>4. RoundDiv(m, O) \in Nat
    BY <2>2, <2>3
  <2> QED BY <2>2, <2>3, <2>4 DEF r
<1>4. fine \in Int /\ 2 * (O * fine) <= 2 * x + O /\ 2 * x - O <= 2 * (O * fine)
  <2>1. RoundDiv(x, O) \in Int /\ 2 * (O * RoundDiv(x, O)) <= 2 * x + O /\ 2 * x - O <= 2 * (O * RoundDiv(x, O))
    BY <1>1, Rounded
  <2> QED BY <2>1 DEF x
<1> HIDE DEF q, r, fine
<1>5. CASE 20 * Distance(m, O * r) < O
  <2>1. M = 10 * q
    BY <1>2, <1>5
  <2> DEFINE Oq == O * q
  <2>2. 10 * (K * M) = Oq /\ Oq \in Int
    <3>1. q \in Nat
      BY <1>3
    <3>2. K * (10 * q) = 10 * (K * q) /\ K * q \in Int /\ (100 * K) * q = 100 * (K * q)
      BY ONLY <3>1, K \in Nat \ {0}
    <3>3. K * M = 10 * (K * q) /\ O * q = 100 * (K * q)
      BY <2>1, <3>2
    <3> QED BY <3>2, <3>3
  <2>3. M \in Int
    BY <1>3, <2>1
  <2>4. O * r = Oq \/ O * r = Oq + O
    BY <1>1, <1>3
  <2>5. m = Oq + rem
    BY <1>3
  <2> HIDE DEF Oq
  <2>6. 20 * rem < O \/ 20 * rem > 19 * O
    <3>1. CASE O * r = Oq
      BY <1>1, <1>3, <1>5, <2>2, <2>5, <3>1 DEF Distance
    <3>2. CASE O * r = Oq + O
      BY <1>1, <1>3, <1>5, <2>2, <2>5, <3>2 DEF Distance
    <3> QED BY <2>4, <3>1, <3>2
  <2> DEFINE y == 10 * (K * M)
  <2>7. y = Oq
    BY <2>2
  <2> HIDE DEF y
  <2>8. /\ 20 * rem > 1900 * K \/ (y - m <= 5 * K /\ m - y <= 5 * K)
        /\ m - y <= 100 * K /\ y \in Int
    BY <1>1, <1>3, <2>2, <2>5, <2>6, <2>7
  <2>9. product \in Int /\ y = 10 * product
    <3>1. K * M \in Int
      BY <2>3
    <3> QED BY <3>1 DEF y
  <2> QED BY <2>3, <2>8, <2>9
<1>6. CASE ~(20 * Distance(m, O * r) < O)
  <2>1. M = fine /\ M \in Int
    BY <1>2, <1>4, <1>6
  <2>2. O * M = 100 * (K * M) /\ K * M \in Int
    BY <1>1, <2>1
  <2> DEFINE y == K * M
  <2> HIDE DEF y
  <2>3. 2 * (100 * y) <= 20 * m + 100 * K /\ 20 * m - 100 * K <= 2 * (100 * y) /\ y \in Int
    BY <1>1, <1>4, <2>1, <2>2 DEF y
  <2>4. 10 * y - m <= 5 * K /\ m - 10 * y <= 5 * K /\ m - 10 * y <= 100 * K /\ 10 * y \in Int
    BY <2>3
  <2>5. product = y
    BY DEF y
  <2> QED BY <2>1, <2>3, <2>4, <2>5
<1> QED BY <1>5, <1>6

\* The rate is near the quotient, unless its cents are rounded to a hundred.
LEMMA RateNear ==
  ASSUME NEW C \in Nat, NEW H \in Nat \ {0}, NEW R, R = EuroWritten(C, H), ~(200 * (C % H) >= 199 * H)
  PROVE  R \in Nat /\ 2 * (H * R) - 200 * C <= H /\ 200 * C - 2 * (H * R) <= H
<1> DEFINE q == C \div H
           rem == C % H
           x == 100 * rem
           cents == RoundDiv(x, H)
<1>1. q \in Nat /\ rem \in 0..(H - 1) /\ C = H * q + rem
  BY WholePart
<1>2. R = 100 * q + (IF cents = 100 THEN 10 ELSE cents)
  BY DEF EuroWritten
<1>3. 200 * rem < 199 * H
  BY <1>1
<1> HIDE DEF q, rem
<1>4. x \in Nat /\ x = 100 * rem
  BY <1>1
<1> HIDE DEF x
<1>5. cents \in Nat /\ 2 * (H * cents) <= 2 * x + H /\ 2 * x - H <= 2 * (H * cents)
  <2> HIDE DEF cents
  <2>1. RoundDiv(x, H) \in Nat
    BY <1>4, WholePart
  <2>2. 2 * (H * RoundDiv(x, H)) <= 2 * x + H /\ 2 * x - H <= 2 * (H * RoundDiv(x, H))
    <3>1. x \in Int /\ H \in Nat \ {0}
      BY <1>4
    <3> QED BY <3>1, Rounded, Zenon
  <2> QED BY <2>1, <2>2 DEF cents
<1> HIDE DEF cents
<1>6. cents # 100
  <2>1. H * 100 = 100 * H
    OBVIOUS
  <2>2. 2 * (H * cents) < 200 * H
    BY <1>1, <1>3, <1>4, <1>5
  <2> QED BY <2>1, <2>2
<1>7. R = 100 * q + cents /\ R \in Nat
  BY <1>1, <1>2, <1>5, <1>6
<1> DEFINE Hq == H * q
           Hc == H * cents
<1>8. H * R = 100 * Hq + Hc /\ Hq \in Int /\ Hc \in Int
  BY <1>1, <1>5, <1>7
<1> DEFINE y == H * R
<1>9. C = Hq + rem
  BY <1>1
<1>10. 2 * Hc <= 2 * x + H /\ 2 * x - H <= 2 * Hc
  BY <1>5
<1>11. y = 100 * Hq + Hc
  BY <1>8
<1> HIDE DEF Hq, Hc, y
<1>12. 2 * y - 200 * C <= H /\ 200 * C - 2 * y <= H
  BY <1>1, <1>4, <1>8, <1>9, <1>10, <1>11
<1> QED BY <1>7, <1>12 DEF y

\* Rounded hours at a rate are near the hours themselves.
LEMMA HoursAtRate ==
  ASSUME NEW w \in Nat, NEW h \in Nat, NEW R \in Nat, NEW C \in Nat,
         w - h <= 4, h - w <= 4,
         2 * (h * R) - 200 * C <= h, 200 * C - 2 * (h * R) <= h
  PROVE  2 * Distance(w * R, 100 * C) <= h + 8 * R
<1> DEFINE wR == w * R
           hR == h * R
<1>1. wR \in Int /\ hR \in Int
  OBVIOUS
<1>2. wR - hR <= 4 * R /\ hR - wR <= 4 * R
  <2>1. PICK d \in -4..4 : w = h + d
    <3>1. w - h \in -4..4 /\ w = h + (w - h)
      OBVIOUS
    <3> QED BY <3>1
  <2>2. wR = hR + d * R
    BY <2>1
  <2>3. d * R <= 4 * R /\ -(d * R) <= 4 * R /\ d * R \in Int
    BY <2>1
  <2> HIDE DEF wR, hR
  <2> QED BY <1>1, <2>2, <2>3
<1>3. 2 * hR - 200 * C <= h /\ 200 * C - 2 * hR <= h
  OBVIOUS
<1> HIDE DEF wR, hR
<1>4. 2 * Distance(wR, 100 * C) <= h + 8 * R
  BY <1>1, <1>2, <1>3 DEF Distance
<1> QED BY <1>4 DEF wR

\* The conversations that count as handled.
LEMMA HandledRead ==
  ASSUME ReportConstants, ReportInv, MetricTotal(value.hours) \in Nat
  PROVE  Handled \in Nat \ {0} /\ (Resolved > 0 => Handled = Total - Referred - OtherHandling)
<1> DEFINE yes == {c \in DOMAIN read.talks : read.talks[c].resolved = "yes" /\ ~read.talks[c].referred}
           out == {c \in DOMAIN read.talks : read.talks[c].referred}
<1>1. Resolved = Cardinality(yes) /\ Referred = Cardinality(out)
  BY DEF Resolved, Referred, Count
<1>2. IsFiniteSet(DOMAIN read.talks) /\ Total \in Nat
  BY TalksRead
<1>3. IsFiniteSet(yes) /\ IsFiniteSet(out)
  BY <1>2, FS_Subset
<1>4. Resolved \in Nat /\ Referred \in Nat
  <2> HIDE DEF yes, out
  <2> QED BY <1>1, <1>3, FS_CardinalityType
<1>5. OtherHandling \in Int
  <2> DEFINE x == Total - Resolved - Referred
  <2>1. x \in Int /\ 0 \in Int
    BY <1>2, <1>4
  <2>2. OtherHandling = Max({x, 0})
    BY DEF OtherHandling
  <2> HIDE DEF x
  <2> QED BY <2>1, <2>2, OfTwo
<1>6. Resolved + Referred + OtherHandling = Total
  BY HandlingHolds DEF HandlingAddsUp
<1> DEFINE h == MetricTotal(value.hours)
           w == RoundDiv(12 * h, 100)
<1>7. Handled = IF Resolved > 0 THEN Resolved ELSE Max({1, w})
  BY DEF Handled
<1>8. Max({1, w}) \in Nat \ {0}
  <2> DEFINE x == 12 * h
             n == 100
  <2>1. x \in Nat /\ n \in Nat \ {0}
    OBVIOUS
  <2> HIDE DEF x, n
  <2>2. RoundDiv(x, n) \in Nat
    BY <2>1, WholePart
  <2>3. w \in Nat
    BY <2>2 DEF x, n
  <2> HIDE DEF w
  <2>4. w \in Int /\ 1 \in Int
    BY <2>3
  <2>5. Max({1, w}) = IF 1 >= w THEN 1 ELSE w
    BY <2>4, OfTwo
  <2> QED BY <2>3, <2>5
<1> HIDE DEF w
<1> QED BY <1>2, <1>4, <1>5, <1>6, <1>7, <1>8

LEMMA SupportTextHolds ==
  ASSUME ReportConstants, PagesConstants, ReportInv, ValueOK, value # Unread
  PROVE  SupportTextAgrees
<1> DEFINE H == MetricTotal(value.hours)
           C == MetricTotal(value.cost)
           K == Handled
           w == HoursWritten(H)
           m == 60 * H
           M == MinutesWritten(m, 100 * K)
           R == EuroWritten(C, H)
           rem == m % (100 * K)
           carried == 200 * (C % H) >= 199 * H
           y == K * M
<1> SUFFICES ASSUME HasSavings
             PROVE  /\ ~(20 * rem > 19 * 100 * K) => Distance(10 * K * M, 60 * w) <= 5 * K + 240
                    /\ ~carried => 2 * Distance(w * R, 100 * C) <= H + 8 * R
                    /\ 20 * rem > 19 * 100 * K => 60 * w - 10 * K * M <= 100 * K + 240
                    /\ Resolved > 0 => K = Total - Referred - OtherHandling
  <2>1. /\ SupportText.handled = K /\ SupportText.hours = w
        /\ SupportText.minutes = M /\ SupportText.rate = R
    BY DEF SupportText
  <2> HIDE DEF H, C, K, w, m, M, R
  <2> QED BY <2>1 DEF SupportTextAgrees, H, C, m
<1>1. H \in Nat \ {0} /\ C \in Nat
  <2>1. H \in Nat \cup {-1} /\ C \in Nat \cup {-1}
    BY ValuesRead, MetricCounts DEF NoFigure
  <2>2. H > 0 /\ C # -1
    BY DEF HasSavings, NoFigure
  <2> HIDE DEF H, C
  <2> QED BY <2>1, <2>2
<1>2. K \in Nat \ {0} /\ (Resolved > 0 => K = Total - Referred - OtherHandling)
  BY <1>1, HandledRead
<1> HIDE DEF H, C, K
<1>3. m \in Nat /\ m = 60 * H
  BY <1>1
<1>4. w \in Nat /\ w - H <= 4 /\ H - w <= 4
  BY <1>1, HoursNear
<1> HIDE DEF m, w
<1>5. /\ M \in Int /\ y \in Int
      /\ 20 * rem > 1900 * K \/ (10 * y - m <= 5 * K /\ m - 10 * y <= 5 * K)
      /\ m - 10 * y <= 100 * K
  <2> DEFINE O == 100 * K
  <2> HIDE DEF M, rem, y, O
  <2>1. O = 100 * K /\ M = MinutesWritten(m, O) /\ rem = m % O /\ y = K * M
    BY DEF M, rem, y, O
  <2> QED BY <1>2, <1>3, <2>1, MinutesNear
<1> HIDE DEF M, rem
<1>6. 10 * K * M = 10 * y /\ 19 * 100 * K = 1900 * K
  BY <1>2, <1>5
<1> DEFINE z == 10 * y
<1>7. /\ 10 * K * M = z /\ z \in Int
      /\ 20 * rem > 1900 * K \/ (z - m <= 5 * K /\ m - z <= 5 * K)
      /\ m - z <= 100 * K
  BY <1>5, <1>6
<1> HIDE DEF y, z
<1>8. ~(20 * rem > 19 * 100 * K) => Distance(10 * K * M, 60 * w) <= 5 * K + 240
  <2> SUFFICES ASSUME ~(20 * rem > 19 * 100 * K) PROVE Distance(10 * K * M, 60 * w) <= 5 * K + 240
    OBVIOUS
  <2>1. z - m <= 5 * K /\ m - z <= 5 * K
    BY <1>6, <1>7
  <2>2. Distance(z, 60 * w) <= 5 * K + 240
    BY <1>1, <1>2, <1>3, <1>4, <1>7, <2>1 DEF Distance
  <2> QED BY <1>7, <2>2
<1>9. 60 * w - 10 * K * M <= 100 * K + 240
  <2>1. 60 * w - z <= 100 * K + 240
    BY <1>1, <1>2, <1>3, <1>4, <1>7
  <2> QED BY <1>7, <2>1
<1>10. ~carried => 2 * Distance(w * R, 100 * C) <= H + 8 * R
  <2> SUFFICES ASSUME ~carried PROVE 2 * Distance(w * R, 100 * C) <= H + 8 * R
    OBVIOUS
  <2>1. R \in Nat /\ 2 * (H * R) - 200 * C <= H /\ 200 * C - 2 * (H * R) <= H
    BY <1>1, RateNear
  <2> HIDE DEF R
  <2>2. H \in Nat
    BY <1>1
  <2> QED BY <1>1, <1>4, <2>1, <2>2, HoursAtRate
<1> QED BY <1>2, <1>8, <1>9, <1>10

\* Every page of a finished report agrees with itself.
LEMMA PagesHold == ASSUME ReportConstants, PagesConstants, PagesInv PROVE PagesAgree
<1> SUFFICES ASSUME phase = "done", value # Unread
             PROVE  /\ ChannelsAgree /\ ReferralsAgree /\ QuestionPagesAgree /\ GapTextAgrees
                    /\ AnsweredTextAgrees /\ SupportTextAgrees /\ ValueAgrees
  BY DEF PagesAgree
<1>1. ReportInv /\ MetricsKnown /\ RowsAsked /\ ValueOK
  BY DEF PagesInv
<1>2. ChannelsAgree /\ ReferralsAgree
  BY <1>1, ChannelsHold, ReferralsHold
<1>3. QuestionPagesAgree /\ GapTextAgrees
  BY <1>1, QuestionPagesHold, GapTextHolds
<1>4. AnsweredTextAgrees /\ SupportTextAgrees /\ ValueAgrees
  BY <1>1, AnsweredTextHolds, SupportTextHolds, ValueHolds
<1> QED BY <1>2, <1>3, <1>4

LEMMA PagesBegin == ASSUME PagesInit PROVE PagesInv
<1>1. ReportInv /\ ReportInit /\ value = Unread
  BY ReportBegins DEF PagesInit
<1>2. phase = "idle" /\ asked = <<>> /\ read = Nothing
  BY <1>1 DEF ReportInit
<1>3. RowsAsked
  <2>1. Range(asked) = {} /\ Range(read.rows) = {}
    BY <1>2 DEF Nothing, Range
  <2> QED BY <2>1 DEF RowsAsked
<1> QED BY <1>1, <1>2, <1>3 DEF PagesInv, MetricsKnown, ValueOK

\* The figures of a finished report are consistent with each other, and each of its
\* pages with what it prints, whatever the jobs commit while it reads, for any
\* conversations, rows and answers.
THEOREM AgentReportAgrees == ASSUME ReportConstants, PagesConstants PROVE PagesSpec => []ReportAgrees
<1>1. PagesInit => PagesInv
  BY PagesBegin
<1>2. PagesInv /\ [PagesNext]_pagesVars => PagesInv'
  BY PagesStep
<1>3. PagesInv => ReportAgrees
  <2> SUFFICES ASSUME PagesInv PROVE FiguresAddUp /\ PagesAgree
    BY DEF ReportAgrees
  <2>1. ReportInv
    BY DEF PagesInv
  <2> QED BY <2>1, FiguresHold, PagesHold
<1> QED BY <1>1, <1>2, <1>3, PTL DEF PagesSpec

=============================================================================
