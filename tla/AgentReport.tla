---------------------------- MODULE AgentReport ----------------------------
(***************************************************************************)
(* The report of one agent (ReportService.build_context with               *)
(* utils/report_data.py, utils/unanswered_report.py,                       *)
(* InsightsService.get_overview).  It reads conversations, metrics and     *)
(* unanswered questions in separate statements, and the jobs of the agent  *)
(* go on committing between them: the figures of one report can come from  *)
(* different moments.  Percentages are tenths, averages keep their sums;   *)
(* the layout of the pages is left out.                                    *)
(***************************************************************************)
EXTENDS Builtins, Functions

CONSTANTS
    Talks,       \* conversations: [start, channel, resolved, referred, asks]
    Scores,      \* metrics rows: [response, trajectory, kinds, members, intent, stars]
    Silly,       \* question keys the heuristics call nonsense
    Jokes,       \* question keys the model calls nonsense
    Answers,     \* what the dashboard may answer for the days: sequences of points [at, value]
    Offset,      \* hours from the stored time zone to Europe/Amsterdam
    Keys,        \* question keys, in the order of their texts
    HfMax,       \* report_nonsense_hf_max_questions
    MaxTalks, MaxRows, MaxWrites

VARIABLES
    talks,    \* conversations, their id is their place
    metrics,  \* conversation id -> metrics row or NoMetrics
    asked,    \* unanswered_questions: a sequence of <<conversation, ask>>
    writes,   \* commits of the jobs since the report began
    phase,    \* what the report reads next
    read,     \* what it has read
    stats     \* the dashboard's counts of the days, NoStats when it gave none

reportVars == <<talks, metrics, asked, writes, phase, read, stats>>

NoMetrics == [response |-> -1]
NoFigure == -1
NoStats == <<>>
Nothing == [talks |-> <<>>, metrics |-> <<>>, asked |-> {}, rows |-> <<>>, overview |-> <<>>]

UnansweredKinds == {"no_reply", "weak_answer", "not_answered"}

\* What the theorems assume: stars are 1 to 5, hours count from 0, and every
\* question has its place in the order of their texts.
ReportConstants ==
    /\ Talks \subseteq [start : Nat, channel : STRING, resolved : STRING, referred : BOOLEAN,
                        asks : Seq(Range(Keys))]
    /\ Scores \subseteq [response : Int, trajectory : STRING, members : Nat, intent : STRING, stars : Seq(1..5),
                         kinds : [UnansweredKinds -> Nat]]
    /\ Keys \in Seq(Range(Keys)) /\ \A i, j \in DOMAIN Keys : Keys[i] = Keys[j] => i = j
    /\ Answers \subseteq Seq([at : Int, value : Int])
    /\ {Offset, HfMax, MaxTalks, MaxRows, MaxWrites} \subseteq Nat

ReportInit ==
    /\ talks = <<>>
    /\ metrics = <<>>
    /\ asked = <<>>
    /\ writes = 0
    /\ phase = "idle"
    /\ read = Nothing
    /\ stats = NoStats

-----------------------------------------------------------------------------
(* The jobs of the agent *)

\* Jobs commit at any time; their commits during a report are bounded.
JobCommits ==
    /\ phase # "done"
    /\ phase # "idle" => writes < MaxWrites
    /\ writes' = IF phase = "idle" THEN 0 ELSE writes + 1
    /\ UNCHANGED <<phase, read, stats>>

StoreTalk(t) ==
    /\ JobCommits
    /\ Len(talks) < MaxTalks
    /\ talks' = Append(talks, t)
    /\ metrics' = Append(metrics, NoMetrics)
    /\ UNCHANGED asked

StoreMetrics(c, s) ==
    /\ JobCommits
    /\ metrics[c] # s
    /\ metrics' = [metrics EXCEPT ![c] = s]
    /\ UNCHANGED <<talks, asked>>

StoreRow(c, k) ==
    /\ JobCommits
    /\ Len(asked) < MaxRows
    /\ \A i \in DOMAIN asked : asked[i] # <<c, k>>
    /\ asked' = Append(asked, <<c, k>>)
    /\ UNCHANGED <<talks, metrics>>

-----------------------------------------------------------------------------
(* The statements of one report *)

ReadTalks ==
    /\ phase = "idle"
    /\ talks # <<>>
    /\ read' = [Nothing EXCEPT !.talks = talks]
    /\ phase' = "metrics"
    /\ UNCHANGED <<talks, metrics, asked, writes, stats>>

ReadMetrics ==
    /\ phase = "metrics"
    /\ read' = [read EXCEPT !.metrics = metrics]
    /\ phase' = "ids"
    /\ UNCHANGED <<talks, metrics, asked, writes, stats>>

ReadUnansweredIds ==
    /\ phase = "ids"
    /\ read' = [read EXCEPT !.asked = Range(asked)]
    /\ phase' = "rows"
    /\ UNCHANGED <<talks, metrics, asked, writes, stats>>

\* The latest rows come first.
ReadUnansweredRows ==
    /\ phase = "rows"
    /\ read' = [read EXCEPT !.rows = Reverse(asked)]
    /\ phase' = "overview"
    /\ UNCHANGED <<talks, metrics, asked, writes, stats>>

\* The session keeps the metrics rows it has read: get_overview sees those as
\* they were and finds the new ones.
ReadOverview ==
    /\ phase = "overview"
    /\ read' = [read EXCEPT !.overview = [c \in DOMAIN metrics |->
                    IF c \in DOMAIN read.metrics /\ read.metrics[c] # NoMetrics
                    THEN read.metrics[c] ELSE metrics[c]]]
    /\ phase' = "stats"
    /\ UNCHANGED <<talks, metrics, asked, writes, stats>>

Day(start) == start \div 24

LocalDays(ts) == {Day(ts[c].start) : c \in DOMAIN ts}

\* daily_counts_from_momants_stats: points without a time or a count are left out.
DashboardDays(points) ==
    LET usable == {i \in DOMAIN points : points[i].at # NoFigure /\ points[i].value # NoFigure}
        On(d) == {i \in usable : Day(points[i].at) = d}
    IN  [d \in {Day(points[i].at) : i \in usable} |->
            FoldFunction(+, 0, [i \in On(d) |-> points[i].value])]

\* The dashboard is asked only when the conversations cover less than two days.
ReadStats(points) ==
    /\ phase = "stats"
    /\ Cardinality(LocalDays(read.talks)) >= 2 => points = <<>>
    /\ stats' = DashboardDays(points)
    /\ phase' = "done"
    /\ UNCHANGED <<talks, metrics, asked, writes, read>>

ReportNext ==
    \/ \E t \in Talks : StoreTalk(t)
    \/ \E c \in DOMAIN talks, s \in Scores : StoreMetrics(c, s)
    \/ \E c \in DOMAIN talks : \E k \in DOMAIN talks[c].asks : StoreRow(c, k)
    \/ ReadTalks
    \/ ReadMetrics
    \/ ReadUnansweredIds
    \/ ReadUnansweredRows
    \/ ReadOverview
    \/ \E points \in Answers \cup {<<>>} : ReadStats(points)

ReportSpec == ReportInit /\ [][ReportNext]_reportVars

-----------------------------------------------------------------------------
(* Helpers *)

\* Tenths of a percent.
Pct(part, whole) == IF whole <= 0 THEN -1 ELSE RoundDiv(1000 * part, whole)

Known(ms) == {c \in DOMAIN ms : ms[c] # NoMetrics}

-----------------------------------------------------------------------------
(* Volume: days, hours, time buckets, channels *)

Total == Len(read.talks)

Count(Test(_)) == Cardinality({c \in DOMAIN read.talks : Test(read.talks[c])})

DailyCounts == [d \in LocalDays(read.talks) |-> Count(LAMBDA t : Day(t.start) = d)]

HourCounts ==
    [h \in {t.start % 24 : t \in Range(read.talks)} |-> Count(LAMBDA t : t.start % 24 = h)]

TimeBuckets == {"kantooruren", "na_kantooruren", "nacht", "weekend"}

\* Days start on a Monday; the bucket uses local time, the day and hour do not.
TimeBucket(start) ==
    LET hour == (start + Offset) % 24
    IN  IF Day(start + Offset) % 7 >= 5 THEN "weekend"
        ELSE IF hour \in 9..16 THEN "kantooruren"
        ELSE IF hour \in 17..21 THEN "na_kantooruren"
        ELSE "nacht"

BucketCounts == [b \in TimeBuckets |-> Count(LAMBDA t : TimeBucket(t.start) = b)]

OutsideOffice == SumOf([b \in TimeBuckets \ {"kantooruren"} |-> BucketCounts[b]])

Channels == {t.channel : t \in Range(read.talks)}

ChannelCounts == [ch \in Channels |-> Count(LAMBDA t : t.channel = ch)]

DailyByChannel ==
    [ch \in Channels |-> [d \in LocalDays(read.talks) |->
        Count(LAMBDA t : t.channel = ch /\ Day(t.start) = d)]]

\* apply_momants_stats_fallback: the source is named when its days were used.
ChartDays == IF stats = NoStats THEN DailyCounts ELSE stats
ChartSource == IF stats = NoStats THEN "local" ELSE "momants"

MaxValue(f) == Max({f[x] : x \in DOMAIN f})
PeakDay == CHOOSE d \in DOMAIN ChartDays : ChartDays[d] = MaxValue(ChartDays)

\* hourly_conversation_averages, in tenths.
HourAverage(h) == RoundDiv(10 * HourCounts[h], Max({1, Cardinality(DOMAIN DailyCounts)}))
PeakHour == CHOOSE h \in DOMAIN HourCounts :
                \A other \in DOMAIN HourCounts : HourAverage(other) <= HourAverage(h)

-----------------------------------------------------------------------------
(* Handling, overview and arc *)

Referred == Count(LAMBDA t : t.referred)
Resolved == Count(LAMBDA t : t.resolved = "yes" /\ ~t.referred)
OtherHandling == Max({Total - Resolved - Referred, 0})

LabeledReferred ==
    {c \in Known(read.metrics) \cap DOMAIN read.talks :
        read.talks[c].referred /\ read.metrics[c].intent # "none"}

Overview == read.overview
Rated == Known(Overview)
ResponseTimes == Sorted([c \in {c \in Rated : Overview[c].response >= 0} |-> Overview[c].response])
AtShare(s, percent) == s[(Len(s) * percent) \div 100 + 1]

Share(trajectory) ==
    Pct(Cardinality({c \in Rated : Overview[c].trajectory = trajectory}), Cardinality(Rated))

UnansweredBreakdown == [kind \in UnansweredKinds |-> SumOf([c \in Rated |-> Overview[c].kinds[kind]])]
TotalUnanswered == SumOf(UnansweredBreakdown)

MaxIndex == 3

\* aggregate_sentiment_arc, each point as <<sum, count>>: an index without
\* values repeats the one before, the first is 3 stars.
AggregateArc ==
    LET Here(i) == {c \in Known(read.metrics) : Len(read.metrics[c].stars) >= i}
        Point(i) == <<SumOf([c \in Here(i) |-> read.metrics[c].stars[i]]), Cardinality(Here(i))>>
        Filled(i) == {j \in 1..i : Here(j) # {}}
    IN  [i \in 1..MaxIndex |-> IF Filled(i) = {} THEN <<3, 1>> ELSE Point(Max(Filled(i)))]

-----------------------------------------------------------------------------
(* Questions *)

KeyOf(ask) == read.talks[ask[1]].asks[ask[2]]
RowKey(ask) == talks[ask[1]].asks[ask[2]]

\* _rank_answered_questions: questions without a row, grouped by key; of the
\* groups of one size the first by their texts come first.
AnsweredAsks ==
    {ask \in UNION {{c} \X DOMAIN read.talks[c].asks : c \in DOMAIN read.talks} : ask \notin read.asked}
AnsweredRanked ==
    LET keys == {KeyOf(ask) : ask \in AnsweredAsks}
        Size(k) == Cardinality({ask \in AnsweredAsks : KeyOf(ask) = k})
        Place(k) == CHOOSE i \in DOMAIN Keys : Keys[i] = k
        order == Ordered(keys, {x \in keys \X keys :
                    \/ Size(x[1]) > Size(x[2])
                    \/ Size(x[1]) = Size(x[2]) /\ Place(x[1]) < Place(x[2])})
    IN  [i \in DOMAIN order |-> <<order[i], Size(order[i])>>]

Occurrences == [i \in DOMAIN read.rows |-> RowKey(read.rows[i])]

\* One question per key, in the order of the rows.
UniqueKeys ==
    Keep(Occurrences, {i \in DOMAIN Occurrences : \A j \in 1..(i - 1) : Occurrences[j] # Occurrences[i]})

\* The heuristics decide first; of the rest the model sees at most HfMax, and
\* what it does not see counts as a real question.
NonsenseAmong(keys) ==
    LET pending == Keep(keys, {i \in DOMAIN keys : keys[i] \notin Silly})
        seen == SubSeq(pending, 1, Min({HfMax, Len(pending)}))
    IN  (Range(keys) \cap Silly) \cup (Range(seen) \cap Jokes)

NonsenseKeys == NonsenseAmong(UniqueKeys)

NonsenseRows ==
    LET rows == Occurrences
        keys == NonsenseKeys
    IN  {i \in DOMAIN rows : rows[i] \in keys}

GapReportUnscaled ==
    LET classified == Len(Occurrences)
        nonsense == Cardinality(NonsenseRows)
    IN  [total |-> TotalUnanswered, nonsense |-> nonsense, substantive |-> classified - nonsense]

\* prepare_knowledge_gap_report: the total comes from the counts of the metrics,
\* the questions from the rows.  A larger total is split in the ratio of the
\* rows, a smaller one gives way to the rows.
GapReport ==
    LET classified == Len(Occurrences)
        nonsense == Cardinality(NonsenseRows)
        scaled == RoundDiv(TotalUnanswered * nonsense, classified)
    IN  IF classified = 0
        THEN [total |-> TotalUnanswered, nonsense |-> 0, substantive |-> 0]
        ELSE IF TotalUnanswered > classified
        THEN [total |-> TotalUnanswered, nonsense |-> scaled, substantive |-> TotalUnanswered - scaled]
        ELSE [total |-> classified, nonsense |-> nonsense, substantive |-> classified - nonsense]

-----------------------------------------------------------------------------
(* Properties *)

ReportTypeOK ==
    /\ Len(metrics) = Len(talks)
    /\ \A t \in Range(talks) : t \in Talks
    /\ \A m \in Range(metrics) : m \in Scores \cup {NoMetrics}
    /\ Range(asked) \subseteq UNION {{c} \X DOMAIN talks[c].asks : c \in DOMAIN talks}
    /\ phase \in {"idle", "metrics", "ids", "rows", "overview", "stats", "done"}
    /\ writes \in 0..MaxWrites
    /\ stats \in {DashboardDays(points) : points \in Answers} \cup {NoStats}

\* Every conversation is counted once in the days, the hours, the time buckets
\* and the channels, and each day of the channels adds up to the day.
VolumeAddsUp ==
    /\ SumOf(DailyCounts) = Total
    /\ SumOf(HourCounts) = Total
    /\ BucketCounts["kantooruren"] + OutsideOffice = Total
    /\ SumOf(ChannelCounts) = Total
    /\ \A d \in DOMAIN DailyCounts :
           SumOf([ch \in Channels |-> DailyByChannel[ch][d]]) = DailyCounts[d]

\* The peaks are the largest of their charts; a chart of local days never shows
\* more than the report's total, and the dashboard's days replace at most one
\* local day.  No hour beats the peak hour, chosen by rounded averages, by more
\* than a tenth of a conversation a day.
PeaksHold ==
    /\ LET days == ChartDays
           highest == days[PeakDay]
       IN  \A d \in DOMAIN days : days[d] <= highest
    /\ ChartSource = "local" => SumOf(ChartDays) = Total
    /\ ChartSource = "momants" => Cardinality(DOMAIN DailyCounts) = 1
    /\ LET hours == HourCounts
           highest == hours[PeakHour]
       IN  \A h \in DOMAIN hours : 10 * (hours[h] - highest) <= Cardinality(DOMAIN DailyCounts)

\* Each conversation is handled in exactly one way, and the labels counted for
\* the referred ones are of referred conversations.
HandlingAddsUp ==
    /\ Resolved + Referred + OtherHandling = Total
    /\ Cardinality(LabeledReferred) <= Referred

\* The response figures are times of the agent's conversations, in order, and at
\* least 95 of 100 conversations answer within the p95.
OverviewInRange ==
    LET times == ResponseTimes
        n == Len(times)
    IN  /\ n > 0 =>
            /\ AtShare(times, 50) <= AtShare(times, 95)
            /\ 100 * Cardinality({i \in 1..n : times[i] <= AtShare(times, 95)}) >= 95 * n
            /\ 2 * Cardinality({i \in 1..n : times[i] <= AtShare(times, 50)}) >= n
        /\ Rated # {} => Share("improving") + Share("worsening") + Share("mixed") <= 1001
        /\ \A i \in 1..MaxIndex :
               AggregateArc[i][1] \in AggregateArc[i][2]..(5 * AggregateArc[i][2])

\* The knowledge gap splits its total into nonsense and real questions without a
\* rest, never shows fewer questions than it has rows, and calls a question
\* nonsense only if the heuristics or the model did, whatever the jobs commit
\* between the counts and the rows.
GapAddsUp ==
    LET gap == GapReport
    IN  /\ Occurrences # <<>> => gap.nonsense + gap.substantive = gap.total
        /\ gap.total >= Len(Occurrences)
        /\ gap.nonsense >= 0 /\ gap.substantive >= 0
        /\ NonsenseKeys \subseteq Silly \cup Jokes
        /\ Silly \cap Range(Occurrences) \subseteq NonsenseKeys
        /\ gap.nonsense > 0 => NonsenseKeys # {}

\* The answered questions are ranked by how often they occur; each question of
\* the conversations is among them or has a row that the report knew of.
RankingAddsUp ==
    LET ranked == AnsweredRanked
    IN  /\ SumOf([i \in DOMAIN ranked |-> ranked[i][2]]) = Cardinality(AnsweredAsks)
        /\ \A i, j \in DOMAIN ranked : i < j =>
               ranked[i][2] >= ranked[j][2] /\ ranked[i][1] # ranked[j][1]
        /\ \A i \in DOMAIN read.rows : read.rows[i] \in AnsweredAsks => writes > 0

\* The figures of a finished report are consistent with each other.
FiguresAddUp ==
    phase = "done" =>
        /\ VolumeAddsUp
        /\ PeaksHold
        /\ HandlingAddsUp
        /\ OverviewInRange
        /\ GapAddsUp
        /\ RankingAddsUp

=============================================================================
