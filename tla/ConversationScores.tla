------------------------- MODULE ConversationScores -------------------------
(***************************************************************************)
(* One conversation, from its messages to its figures: the sentiment pass  *)
(* that scores the member messages chunk by chunk through a classifier     *)
(* that may fail (sentiment_service.py, ml/model_registry.py,              *)
(* ml/hf_text_classification.py), and what MetricsService and the intent   *)
(* labels compute from the messages and their scores (metrics_service.py,  *)
(* ml/intent_labels.py).  Messages arrive in any order of their time       *)
(* stamps, while a pass runs too.  A message's id is its place in history. *)
(***************************************************************************)
EXTENDS Builtins, Functions

CONSTANTS
    Times,         \* time stamps a message may carry
    Contents,      \* member texts: [blank, raw, emotion]
    MaxMessages,   \* bound on the messages of the conversation
    ChunkSize,     \* SENTIMENT_CHUNK_SIZE
    ClientRetries,    \* hf_inference_max_retries
    MaxSentimentJobs,     \* bound on the sentiment jobs
    MaxFailures,     \* bound on the classifier's failures
    Rankings,      \* answers of the zero-shot model: sequences of <<slug, score>>
    Threshold, ComplaintMin, ComplaintMargin   \* of resolve_intent

VARIABLES
    history,   \* the messages, in the order they were stored
    scores,      \* sentiment_analyses: message id -> [stars, label] or NoRow
    pass,      \* the running job: its queue, how far it is, the client's attempt
    passes, failures,
    spoilt     \* some batch was given up and stored as neutral

scoreVars == <<history, scores, pass, passes, failures, spoilt>>

NoRow == [stars |-> 0, label |-> "none"]
Neutral == [stars |-> 3, label |-> "NEUTRAL"]
Idle == [running |-> FALSE, redo |-> FALSE, pending |-> <<>>, done |-> 0, attempt |-> 0]
Emotions == {"none", "negative", "positive", "lift"}

ScoresInit ==
    /\ history = <<>>
    /\ scores = <<>>
    /\ pass = Idle
    /\ passes = 0
    /\ failures = 0
    /\ spoilt = FALSE

\* What the theorems assume: stars are 1 to 5; a ranking has each slug once.
ScoresConstants ==
    /\ Times \subseteq Nat
    /\ Contents \subseteq [blank : BOOLEAN, raw : 1..5, emotion : Emotions]
    /\ ChunkSize \in Nat \ {0}
    /\ {MaxMessages, ClientRetries, MaxSentimentJobs, MaxFailures} \subseteq Nat
    /\ {Threshold, ComplaintMin, ComplaintMargin} \subseteq Int
    /\ \A ranked \in Rankings :
           /\ ranked \in Seq(STRING \X Int)
           /\ \A i, j \in DOMAIN ranked : i # j => ranked[i][1] # ranked[j][1]

-----------------------------------------------------------------------------
(* Scores of one text *)

StarsToLabel(stars) ==
    IF stars >= 4 THEN "POSITIVE" ELSE IF stars <= 2 THEN "NEGATIVE" ELSE "NEUTRAL"

\* The top emotion nudges the stars of the polarity model by one.  Emotions
\* below EMOTION_SCORE_MIN are "none"; "lift" are those that raise neutral too.
AdjustStars(stars, emotion) ==
    LET lowered == emotion = "negative" /\ stars >= 3
        raised == \/ emotion = "lift" /\ stars <= 3
                  \/ emotion = "positive" /\ stars <= 2
        adjusted == IF lowered THEN stars - 1 ELSE IF raised THEN stars + 1 ELSE stars
    IN  Max({1, Min({5, adjusted})})

ComposeResult(text) ==
    LET stars == AdjustStars(text.raw, text.emotion)
    IN  [stars |-> stars, label |-> StarsToLabel(stars)]

AnalyseBatchUnplaced(texts) ==
    LET cleaned == SelectSeq(texts, LAMBDA t : ~t.blank)
    IN  [i \in DOMAIN texts |->
            IF i \in DOMAIN cleaned THEN ComposeResult(cleaned[i]) ELSE Neutral]

\* The texts that are not blank go to the models in one batch; each answer goes
\* back to the place its text had.  Blank texts keep the empty result.
AnalyseBatch(texts) ==
    LET cleaned == InOrder({i \in DOMAIN texts : ~texts[i].blank})
        answers == [k \in DOMAIN cleaned |-> ComposeResult(texts[cleaned[k]])]
        Place(i) == CHOOSE k \in DOMAIN cleaned : cleaned[k] = i
    IN  [i \in DOMAIN texts |-> IF texts[i].blank THEN Neutral ELSE answers[Place(i)]]

-----------------------------------------------------------------------------
(* Messages and the sentiment pass *)

AgentText == [blank |-> FALSE, raw |-> 3, emotion |-> "none"]

StoreMessage(agent, at, text) ==
    /\ Len(history) < MaxMessages
    /\ history' = Append(history, [agent |-> agent, at |-> at, text |-> text])
    /\ scores' = Append(scores, NoRow)
    /\ UNCHANGED <<pass, passes, failures, spoilt>>

\* What a job will score: member texts that are not blank, unless they already
\* have a row and the job does not analyse again.
PendingMessages(redo) ==
    InOrder({m \in DOMAIN history : /\ ~history[m].agent
                                    /\ ~history[m].text.blank
                                    /\ redo \/ scores[m] = NoRow})

\* An empty queue completes at once.
StartPass(redo) ==
    /\ ~pass.running
    /\ passes < MaxSentimentJobs
    /\ passes' = passes + 1
    /\ PendingMessages(redo) # <<>>
    /\ pass' = [Idle EXCEPT !.running = TRUE, !.redo = redo, !.pending = PendingMessages(redo)]
    /\ UNCHANGED <<history, scores, failures, spoilt>>

Chunk == SubSeq(pass.pending, pass.done + 1, Min({pass.done + ChunkSize, Len(pass.pending)}))

\* ON CONFLICT (message_id) DO UPDATE when the job analyses again, else DO NOTHING.
Upsert(results) ==
    LET Placed(m) == {k \in DOMAIN Chunk : Chunk[k] = m}
    IN  [m \in DOMAIN scores |->
            IF Placed(m) = {} \/ (scores[m] # NoRow /\ ~pass.redo) THEN scores[m]
            ELSE results[CHOOSE k \in Placed(m) : TRUE]]

Advance == [pass EXCEPT !.done = @ + Len(Chunk), !.attempt = 0,
                        !.running = pass.done + Len(Chunk) < Len(pass.pending)]

AnalyseChunk ==
    /\ pass.running
    /\ scores' = Upsert(AnalyseBatch([k \in DOMAIN Chunk |-> history[Chunk[k]].text]))
    /\ pass' = Advance
    /\ UNCHANGED <<history, passes, failures, spoilt>>

\* The client tries a busy or unreachable endpoint again, ClientRetries times.
Retry ==
    /\ pass.running
    /\ failures < MaxFailures
    /\ failures' = failures + 1
    /\ pass.attempt < ClientRetries
    /\ pass' = [pass EXCEPT !.attempt = @ + 1]
    /\ UNCHANGED <<history, scores, passes, spoilt>>

\* The last attempt failed, or the answer was an error that is not retried: the
\* batch is logged and every text of it is stored as neutral.
GiveUp ==
    /\ pass.running
    /\ failures < MaxFailures
    /\ failures' = failures + 1
    /\ scores' = Upsert([k \in DOMAIN Chunk |-> Neutral])
    /\ spoilt' = TRUE
    /\ pass' = Advance
    /\ UNCHANGED <<history, passes>>

\* The cancel flag is looked at before each chunk.
CancelPass ==
    /\ pass.running
    /\ pass.attempt = 0
    /\ pass' = Idle
    /\ UNCHANGED <<history, scores, passes, failures, spoilt>>

ScoresNext ==
    \/ \E at \in Times : StoreMessage(TRUE, at, AgentText)
    \/ \E at \in Times, text \in Contents : StoreMessage(FALSE, at, text)
    \/ \E redo \in BOOLEAN : StartPass(redo)
    \/ AnalyseChunk
    \/ Retry
    \/ GiveUp
    \/ CancelPass

ScoresSpec == ScoresInit /\ [][ScoresNext]_scoreVars

-----------------------------------------------------------------------------
(* The figures of MetricsService *)

ByTime(messages) ==
    {x \in messages \X messages : \/ history[x[1]].at < history[x[2]].at
                                  \/ history[x[1]].at = history[x[2]].at /\ x[1] < x[2]}

OrderedMessages == Ordered(DOMAIN history, ByTime(DOMAIN history))

MemberMessages ==
    LET members == {m \in DOMAIN history : ~history[m].agent} IN Ordered(members, ByTime(members))

StarsOf(m) == IF scores[m] = NoRow THEN 3 ELSE scores[m].stars

Trajectory(start, end, stars) ==
    CASE end - start >= 1 \/ (start <= 2 /\ end >= 4) -> "improving"
      [] end - start <= -1 \/ (start >= 4 /\ end <= 2) -> "worsening"
      [] OTHER -> IF \A s \in stars : s >= 4 THEN "stable_positive"
                  ELSE IF \A s \in stars : s <= 2 THEN "stable_negative"
                  ELSE IF stars = {3} THEN "stable_neutral" ELSE "mixed"

\* The average is kept as a sum.
SentimentArc ==
    LET stars == [k \in DOMAIN MemberMessages |-> StarsOf(MemberMessages[k])]
        n == Len(stars)
    IN  [start |-> stars[1], end |-> stars[n], sum |-> SumOf(stars),
         low |-> Min(Range(stars)), high |-> Max(Range(stars)),
         trajectory |-> Trajectory(stars[1], stars[n], Range(stars))]

\* The first agent message after place k of the ordered messages, 0 if none.
NextAgent(k) ==
    LET later == {j \in (k + 1)..Len(OrderedMessages) : history[OrderedMessages[j]].agent}
    IN  IF later = {} THEN 0 ELSE OrderedMessages[Min(later)]

\* One gap per member message that an agent message follows; negative ones are dropped.
ResponseGaps ==
    LET Gap(k) == history[NextAgent(k)].at - history[OrderedMessages[k]].at
        answered == {k \in DOMAIN OrderedMessages :
                        /\ ~history[OrderedMessages[k]].agent
                        /\ NextAgent(k) # 0
                        /\ Gap(k) >= 0}
        places == InOrder(answered)
    IN  [i \in DOMAIN places |-> Gap(places[i])]

UnansweredMembers ==
    Cardinality({k \in DOMAIN OrderedMessages :
                    ~history[OrderedMessages[k]].agent /\ NextAgent(k) = 0})

\* statistics.median, doubled so that it stays an integer.
TwiceMedian(s) ==
    LET sorted == Sorted(s)
        n == Len(s)
    IN  IF n % 2 = 1 THEN 2 * sorted[(n + 1) \div 2] ELSE sorted[n \div 2] + sorted[n \div 2 + 1]

-----------------------------------------------------------------------------
(* Intent labels *)

ResolveIntent(ranked, stars) ==
    LET top == ranked[1]
        complaint == top[1] = "complaint"
    IN  IF ranked = <<>> THEN "general" ELSE
        CASE complaint /\ stars \in 1..2 -> "complaint"
          [] complaint /\ stars \notin 1..2 /\ top[2] < ComplaintMin ->
                IF Len(ranked) > 1 /\ top[2] - ranked[2][2] <= ComplaintMargin THEN ranked[2][1] ELSE "general"
          [] OTHER -> IF top[2] < Threshold THEN "general" ELSE top[1]

\* Stars of the first member message, 0 when it has no row (it may be blank).
FirstStars == scores[MemberMessages[1]].stars

-----------------------------------------------------------------------------
(* Properties *)

\* Types of the messages, the scores and the running pass.
ScoresTypeOK ==
    /\ \A m \in DOMAIN history : history[m].at \in Times /\ history[m].agent \in BOOLEAN
    /\ DOMAIN scores = DOMAIN history
    /\ \A m \in DOMAIN scores : scores[m].stars \in 0..5
    /\ pass.done \in 0..Len(pass.pending) /\ pass.attempt \in 0..ClientRetries
    /\ passes \in 0..MaxSentimentJobs /\ failures \in 0..MaxFailures /\ spoilt \in BOOLEAN

\* A row holds the score of its own message's text, or neutral when a batch was
\* given up: chunks, retries, messages stored meanwhile and the places of the
\* batch's answers never move a score to another message.
RowsAreOwn ==
    /\ \A m \in DOMAIN scores : scores[m] # NoRow =>
            /\ ~history[m].agent /\ ~history[m].text.blank
            /\ scores[m] = ComposeResult(history[m].text) \/ (spoilt /\ scores[m] = Neutral)
    /\ LET texts == [m \in DOMAIN history |-> history[m].text]
       IN  \A m \in DOMAIN texts :
               AnalyseBatch(texts)[m] = IF texts[m].blank THEN Neutral ELSE ComposeResult(texts[m])

\* A pass that ran to its end leaves a row for every message of its queue.
PassCoversQueue ==
    \A k \in 1..pass.done : scores[pass.pending[k]] # NoRow

\* The stars of a text lie within one of the model's, in the scale, in the
\* label's band.
StarsInBand ==
    \A m \in DOMAIN history :
        LET text == history[m].text
            result == ComposeResult(text)
        IN  /\ result.stars \in 1..5
            /\ result.stars - text.raw \in -1..1
            /\ (result.label = "POSITIVE") = (result.stars > 3)
            /\ (result.label = "NEGATIVE") = (result.stars < 3)

\* When an agent message answers a member message, by time alone.
AnswerDelays(m) ==
    {history[a].at - history[m].at :
        a \in {a \in DOMAIN history : /\ history[a].agent
                                      /\ \/ history[a].at > history[m].at
                                         \/ history[a].at = history[m].at /\ a > m}}

\* Every member message is counted once, as answered after the shortest delay or
\* as unanswered, whatever order the messages were stored in; the median lies
\* between the extremes.
GapsMatchAnswers ==
    LET members == {m \in DOMAIN history : ~history[m].agent}
        answered == {m \in members : AnswerDelays(m) # {}}
        gaps == ResponseGaps
    IN  /\ Len(gaps) + UnansweredMembers = Cardinality(members)
        /\ \A d \in Times : Cardinality({i \in DOMAIN gaps : gaps[i] = d})
                              = Cardinality({m \in answered : Min(AnswerDelays(m)) = d})
        /\ gaps # <<>> => TwiceMedian(gaps) \in (2 * Min(Range(gaps)))..(2 * Max(Range(gaps)))

\* The arc of the stars: its ends and its average lie between its low and high
\* point, and its trajectory says which way the ends lie or, when they are
\* level, which band all the stars share.
ArcMatchesStars ==
    MemberMessages # <<>> =>
        LET arc == SentimentArc
            n == Len(MemberMessages)
        IN  /\ {arc.start, arc.end} \subseteq arc.low..arc.high
            /\ arc.sum \in (n * arc.low)..(n * arc.high)
            /\ (arc.trajectory = "improving") = (arc.end > arc.start)
            /\ (arc.trajectory = "worsening") = (arc.end < arc.start)
            /\ (arc.trajectory = "stable_positive") = (arc.end = arc.start /\ arc.low >= 4)
            /\ (arc.trajectory = "stable_negative") = (arc.end = arc.start /\ arc.high <= 2)
            /\ (arc.trajectory = "stable_neutral") = (arc.low = 3 /\ arc.high = 3)

\* An intent is the best label or, for a doubtful complaint, the next one;
\* complaint is given to a member who is not known to be unhappy only on a sure
\* answer, and is never taken from an unhappy one.
IntentsJustified ==
    MemberMessages # <<>> =>
        \A ranked \in Rankings :
            LET intent == ResolveIntent(ranked, FirstStars)
                sure == ranked # <<>> /\ ranked[1][2] >= Max({Threshold, ComplaintMin})
            IN  /\ intent # "general" => \E k \in 1..Min({2, Len(ranked)}) : ranked[k][1] = intent
                /\ intent = "complaint" /\ FirstStars \notin 1..2 => sure
                /\ ranked # <<>> /\ ranked[1][1] = "complaint" /\ FirstStars \in 1..2
                        => intent = "complaint"

\* The scores and figures of a conversation follow from its messages alone.
ScoresMatchTexts ==
    /\ RowsAreOwn
    /\ PassCoversQueue
    /\ StarsInBand
    /\ GapsMatchAnswers
    /\ ArcMatchesStars
    /\ IntentsJustified

=============================================================================
