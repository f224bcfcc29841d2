----------------------------- MODULE ReportPages -----------------------------
(***************************************************************************)
(* What the pages of an agent's report print of its figures: the cells of  *)
(* the pages with questions, the explanations of the knowledge gap, the    *)
(* reasons for referrals, the channels, and the sums behind the support    *)
(* hours, for which the dashboard is asked once more (ReportService.       *)
(* build_context with utils/unanswered_report.py, utils/report_data.py and *)
(* utils/report_format.py).  Hours are hundredths, money is cents; wording *)
(* and layout are left out.                                                *)
(***************************************************************************)
EXTENDS AgentReport

CONSTANTS
    Values,      \* what the dashboard may answer for the whole period: records of metrics
    Slugs,       \* intents in the order of their names
    FirstPage,   \* KNOWLEDGE_GAP_PAGE1_COUNT
    SecondPage,  \* KNOWLEDGE_GAP_PAGE2_COUNT
    Display,     \* real questions kept for display
    Ranked       \* answered questions kept, and cells for them

VARIABLE value   \* the dashboard's answer for the whole period, or Unread

pagesVars == <<reportVars, value>>

\* What the theorems assume: hours and money are not negative, the
\* intents have their places, and a blank cell is not a question.
Metric == [given : Nat \cup {NoFigure}, points : Seq(Int)]
PagesConstants ==
    /\ Values \subseteq [conversations : Metric, hours : Metric, cost : Metric, assisted : Metric]
    /\ Slugs \in Seq(STRING) /\ \A i, j \in DOMAIN Slugs : Slugs[i] = Slugs[j] => i = j
    /\ \A s \in Scores : s.intent # "none" => s.intent \in Range(Slugs)
    /\ "blank" \notin Range(Keys)
    /\ {FirstPage, SecondPage, Display, Ranked} \subseteq Nat \ {0}

NoMetric == [given |-> NoFigure, points |-> <<>>]
NoValue == [conversations |-> NoMetric, hours |-> NoMetric, cost |-> NoMetric, assisted |-> NoMetric]
Unread == <<>>

PagesInit == ReportInit /\ value = Unread

\* fetch_momants_report_stats, after everything else: a call that fails leaves
\* every figure out.
FetchValue(answer) ==
    /\ phase = "done" /\ value = Unread
    /\ value' = answer
    /\ UNCHANGED reportVars

PagesNext ==
    \/ ReportNext /\ UNCHANGED value
    \/ \E answer \in Values \cup {NoValue} : FetchValue(answer)

PagesSpec == PagesInit /\ [][PagesNext]_pagesVars

-----------------------------------------------------------------------------
(* Channels and days *)

WholePercent(part, whole) == RoundDiv(100 * part, whole)

\* build_channel_fragments: a row and a pill for each channel in use.
ChannelRows ==
    LET counts == ChannelCounts
    IN  [ch \in Channels |-> [count |-> counts[ch], percent |-> WholePercent(counts[ch], Total)]]

\* avg_conversations_per_day, in tenths: the days may be the dashboard's.
PerDay == RoundDiv(10 * Total, Cardinality(DOMAIN ChartDays))

-----------------------------------------------------------------------------
(* Why conversations are referred *)

IntentCounts ==
    [slug \in {read.metrics[c].intent : c \in LabeledReferred} |->
        Cardinality({c \in LabeledReferred : read.metrics[c].intent = slug})]

\* top_intents: the most frequent first, of equally frequent ones by name.
TopIntents(counts, limit) ==
    LET Place(slug) == CHOOSE i \in DOMAIN Slugs : Slugs[i] = slug
        order == Ordered(DOMAIN counts, {x \in (DOMAIN counts) \X (DOMAIN counts) :
                    \/ counts[x[1]] > counts[x[2]]
                    \/ counts[x[1]] = counts[x[2]] /\ Place(x[1]) < Place(x[2])})
    IN  [i \in 1..Min({limit, Len(order)}) |->
            [slug |-> order[i], count |-> counts[order[i]],
             percent |-> WholePercent(counts[order[i]], SumOf(counts))]]

\* build_referred_intent_summary: three reasons, and on how many of the referred
\* conversations they rest, unless on all.
ReferredSummary ==
    [topics |-> TopIntents(IntentCounts, 3),
     basis |-> IF Cardinality(LabeledReferred) < Referred THEN Cardinality(LabeledReferred) ELSE Referred]

-----------------------------------------------------------------------------
(* The knowledge gap *)

\* substantive_questions, one per key, as far as they are kept for display.
RealQuestions ==
    LET keys == UniqueKeys
        nonsense == NonsenseAmong(keys)
        real == Keep(keys, {i \in DOMAIN keys : keys[i] \notin nonsense})
    IN  SubSeq(real, 1, Min({Display, Len(real)}))

\* render_question_grid with fill_slots: cells without a question stay blank.
Blank == "blank"
QuestionGrid(start, count) ==
    LET real == RealQuestions
    IN  [i \in 1..count |-> IF start + i <= Len(real) THEN real[start + i] ELSE Blank]

\* The questions that build_context counts for the explanation, and those of
\* the overview, which unanswered_pct is a share of.
QuestionTotal == SumOf([c \in Known(read.metrics) |-> read.metrics[c].members])
OverviewQuestions == SumOf([c \in Rated |-> Overview[c].members])

\* build_knowledge_gap_info_html: unanswered_pct is kept as part and whole.
GapInfo ==
    [unanswered |-> <<TotalUnanswered, OverviewQuestions>>,
     total |-> GapReport.total, questions |-> QuestionTotal,
     nonsense |-> Pct(GapReport.nonsense, GapReport.total),
     substantive |-> Pct(GapReport.substantive, GapReport.total)]

Categories == <<"weak_answer", "no_reply", "not_answered">>

\* build_knowledge_gap_insight: of the categories with the largest count the
\* first; its example is the first real question.
GapInsight ==
    LET largest == {i \in DOMAIN Categories : UnansweredBreakdown[Categories[i]] = MaxValue(UnansweredBreakdown)}
        category == Categories[Min(largest)]
    IN  [category |-> category, count |-> UnansweredBreakdown[category],
         percent |-> WholePercent(UnansweredBreakdown[category], Max({TotalUnanswered, 1})),
         example |-> IF RealQuestions = <<>> THEN Blank ELSE RealQuestions[1]]

-----------------------------------------------------------------------------
(* Answered questions *)

\* What is ranked, as far as it is kept.
RankedShown == LET ranked == AnsweredRanked IN SubSeq(ranked, 1, Min({Ranked, Len(ranked)}))

\* _render_answered_questions
AnsweredGrid ==
    LET shown == RankedShown
    IN  [i \in 1..Ranked |-> IF i <= Len(shown) THEN shown[i] ELSE <<Blank, 0>>]

\* _build_answered_questions_insight
AnsweredInsight ==
    LET shown == RankedShown
    IN  [top |-> shown[1], unique |-> Len(shown),
         occurrences |-> SumOf([i \in DOMAIN shown |-> shown[i][2]])]

-----------------------------------------------------------------------------
(* Value *)

\* _metric_total: the total that is given, or else the sum of the points.
MetricTotal(metric) ==
    IF metric.given # NoFigure THEN metric.given
    ELSE IF SumOf(metric.points) > 0 THEN SumOf(metric.points) ELSE NoFigure

Distance(a, b) == IF a <= b THEN b - a ELSE a - b

\* The cover's conversations: the dashboard's, if it knows of any.
StatsConversations ==
    LET total == MetricTotal(value.conversations)
    IN  IF total \in {NoFigure, 0} THEN Total ELSE total

\* total_value_creation
TotalValue ==
    LET cost == MetricTotal(value.cost)
        assisted == MetricTotal(value.assisted)
    IN  IF cost = NoFigure /\ assisted = NoFigure THEN NoFigure
        ELSE Max({cost, 0}) + Max({assisted, 0})

HasSavings == MetricTotal(value.hours) > 0 /\ MetricTotal(value.cost) # NoFigure

\* compute_support_savings_breakdown: without a resolved conversation a dozen
\* are taken for an hour.
Handled ==
    IF Resolved > 0 THEN Resolved ELSE Max({1, RoundDiv(12 * MetricTotal(value.hours), 100)})

\* format_support_hours: hours close to a whole number are written as that.
HoursWritten(hours) ==
    LET whole == RoundDiv(hours, 100)
    IN  IF Distance(hours, 100 * whole) < 5 THEN 100 * whole ELSE hours

\* The minutes for a conversation, in tenths.  Those close to a whole number are
\* cut off by int(), also when they are below it.
MinutesWritten(minutes, of) ==
    IF 20 * Distance(minutes, of * RoundDiv(minutes, of)) < of
    THEN 10 * (minutes \div of)
    ELSE RoundDiv(10 * minutes, of)

\* format_eur of amount / of, in cents.  The cents behind the comma are rounded
\* on their own: a hundred of them are written "100", which reads as ten.
EuroWritten(amount, of) ==
    LET cents == RoundDiv(100 * (amount % of), of)
    IN  100 * (amount \div of) + (IF cents = 100 THEN 10 ELSE cents)

\* format_support_savings_calc_detail and build_support_hours_explanation_html
SupportText ==
    LET hours == MetricTotal(value.hours)
        cost == MetricTotal(value.cost)
    IN  [handled |-> Handled, hours |-> HoursWritten(hours), cost |-> cost,
         minutes |-> MinutesWritten(60 * hours, 100 * Handled), rate |-> EuroWritten(cost, hours)]

-----------------------------------------------------------------------------
(* Properties *)

PagesTypeOK == ReportTypeOK /\ value \in Values \cup {NoValue, Unread}

\* The channels share the conversations without a rest, and no average per day is
\* above the peak day that stands beside it, as long as both are of local days.
ChannelsAgree ==
    LET rows == ChannelRows
        sum == SumOf([ch \in Channels |-> rows[ch].percent])
    IN  /\ SumOf([ch \in Channels |-> rows[ch].count]) = Total
        /\ 2 * Distance(sum, 100) <= Cardinality(Channels)
        /\ ChartSource = "local" => PerDay <= 10 * ChartDays[PeakDay]

\* The reasons are of referred conversations, the most frequent first, their
\* percentages never add up to more than a hundred, as far as rounding allows,
\* and the remark on their basis is missing only if every referred one has a label.
ReferralsAgree ==
    LET topics == ReferredSummary.topics
        percents == SumOf([i \in DOMAIN topics |-> topics[i].percent])
    IN  /\ (topics = <<>>) = (LabeledReferred = {})
        /\ \A i, j \in DOMAIN topics : i < j => topics[i].count >= topics[j].count
        /\ SumOf([i \in DOMAIN topics |-> topics[i].count]) <= ReferredSummary.basis
        /\ 2 * (percents - 100) <= Len(topics)
        /\ ReferredSummary.basis = Referred =>
               \A c \in DOMAIN read.talks : read.talks[c].referred => c \in LabeledReferred

\* The two pages show different real questions and go on where the first one ends;
\* never more of them than the number of real questions printed beside them, which
\* is scaled from other counts; the example in the text is the first cell.
QuestionPagesAgree ==
    LET cells == QuestionGrid(0, FirstPage) \o QuestionGrid(FirstPage, SecondPage)
        shown == {i \in DOMAIN cells : cells[i] # Blank}
        nonsense == NonsenseKeys
    IN  /\ \A i, j \in shown : i # j => cells[i] # cells[j]
        /\ \A i \in shown : cells[i] \notin nonsense /\ 1..i \subseteq shown
        /\ Cardinality(shown) <= GapReport.substantive
        /\ GapInsight.example = cells[1]

\* Nonsense and real questions are a hundred percent together.  "T questions, p
\* percent of Q" is true of the counts, unless a job committed between the two
\* reads that T, p and Q come from, or there are more rows than the counts say.
\* The category that is named as the largest has at least a third of all and is
\* part of the total, though not only of the real questions, as its text says.
GapTextAgrees ==
    LET info == GapInfo
    IN  /\ Occurrences # <<>> => Distance(info.nonsense + info.substantive, 1000) <= 1
        /\ writes = 0 /\ Len(Occurrences) <= TotalUnanswered =>
               info.total * info.unanswered[2] = info.unanswered[1] * info.questions
        /\ GapInsight.count <= info.total
        /\ TotalUnanswered > 0 => 3 * GapInsight.percent >= 99

\* The text about the answered questions counts what the cells show, and that is
\* all there is, unless there are more different questions than cells.
AnsweredTextAgrees ==
    LET grid == AnsweredGrid
        insight == AnsweredInsight
    IN  RankedShown # <<>> =>
        /\ insight.occurrences = SumOf([i \in DOMAIN grid |-> grid[i][2]])
        /\ \A i \in DOMAIN grid : grid[i][2] <= insight.top[2]
        /\ Len(AnsweredRanked) <= Ranked => insight.occurrences = Cardinality(AnsweredAsks)

\* "H conversations x M minutes / 60 = T hours" holds to a twentieth of a minute
\* for each conversation, and "T hours x R = C" to half a cent for each hour, and
\* what the rounding of T adds to both; but for minutes just below a whole number,
\* of which int() leaves the whole number before, and for a rate whose cents round
\* to a hundred.  The conversations are those that were resolved, if there are any.
SupportTextAgrees ==
    LET hours == MetricTotal(value.hours)
        cost == MetricTotal(value.cost)
        text == SupportText
        cutOff == 20 * ((60 * hours) % (100 * text.handled)) > 19 * 100 * text.handled
        carried == 200 * (cost % hours) >= 199 * hours
    IN  HasSavings =>
        /\ ~cutOff => Distance(10 * text.handled * text.minutes, 60 * text.hours) <= 5 * text.handled + 240
        /\ ~carried => 2 * Distance(text.hours * text.rate, 100 * cost) <= hours + 8 * text.rate
        /\ cutOff => 60 * text.hours - 10 * text.handled * text.minutes <= 100 * text.handled + 240
        /\ Resolved > 0 => text.handled = Total - Referred - OtherHandling

\* The total value is never below one of the two values it is made of.
ValueAgrees ==
    /\ TotalValue >= MetricTotal(value.cost) /\ TotalValue >= MetricTotal(value.assisted)
    /\ value = NoValue => StatsConversations = Total

\* What a finished report prints agrees with itself, page by page.
PagesAgree ==
    phase = "done" /\ value # Unread =>
        /\ ChannelsAgree
        /\ ReferralsAgree
        /\ QuestionPagesAgree
        /\ GapTextAgrees
        /\ AnsweredTextAgrees
        /\ SupportTextAgrees
        /\ ValueAgrees

\* A report agrees with itself: its figures, and what its pages print of them.
ReportAgrees == FiguresAddUp /\ PagesAgree

=============================================================================
