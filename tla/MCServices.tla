----------------------------- MODULE MCServices ------------------------------
(***************************************************************************)
(* Small instances of eight components that share no state, checked in one  *)
(* run: each behaviour chooses a part, and only that component moves.      *)
(* JobAdmission comes with its instance of four callers.                   *)
(***************************************************************************)
EXTENDS MCJobAdmission, RequestPacing, UnansweredRows, TopQuestions, AgentWeek,
        ConversationScores, ReportPages, ReportCharts

CONSTANTS
  w1, w2, c1, c2, c3   \* processes and conversations of UnansweredRows

VARIABLE part
-------------------------------------------------------------------------------
\* The theorems about the parts without an ASSUME hold of these instances.
ASSUME PacingAssumption == PacingConstants
ASSUME RowsAssumption == RowsConstants
ASSUME TopAssumption == TopConstants
ASSUME WeekAssumption == WeekConstants
ASSUME ScoresAssumption == ScoresConstants
ASSUME ReportAssumption == ReportConstants
ASSUME PagesAssumption == PagesConstants
ASSUME ChartsAssumption == ChartsConstants

(* Two processes, each with an ingest and an insights job: one on a batch  *)
(* of three conversations, of which the second has the messages, one on    *)
(* that conversation; the models score a question the one way or the other. *)
MCOrder == <<c1, c2, c3>>
MCScopes == [w \in {w1, w2} |-> IF w = w1 THEN {{c1, c2, c3}} ELSE {{c2}}]
MCVerdicts == {<<"weak_answer", "answered">>, <<"answered", "not_answered">>}
MCLengths == [c \in {c1, c2, c3} |-> IF c = c2 THEN 2 ELSE 0]

(* Two overlapping passes over three conversations; two of the three texts   *)
(* read the same.                                                           *)
MCKey == [t \in {"a", "A", "b"} |-> IF t = "A" THEN "a" ELSE t]

(* Two attempts on a week of two conversations: a question with a reply and  *)
(* one without, and a question with a reply.                                *)
Said(agent, ask) == [agent |-> agent, ask |-> ask]
MCTalk == << <<Said(FALSE, "a"), Said(TRUE, Absent), Said(FALSE, "A")>>,
             <<Said(FALSE, "b"), Said(TRUE, Absent)>> >>

(* Three messages, chunks of two, two passes, two failures; rankings around *)
(* each threshold.                                                          *)
Text(blank, raw, emotion) == [blank |-> blank, raw |-> raw, emotion |-> emotion]

MCContents == {Text(TRUE, 3, "none"), Text(FALSE, 1, "negative"), Text(FALSE, 3, "lift"),
               Text(FALSE, 5, "positive")}
MCRankings == {<<>>, << <<"complaint", 5>>, <<"order", 4>> >>, << <<"complaint", 4>>, <<"order", 1>> >>,
               << <<"complaint", 8>> >>, << <<"order", 2>>, <<"complaint", 1>> >>,
               << <<"order", 6>>, <<"complaint", 5>> >>}

(* Conversations in office hours, at night and in the weekend; a question   *)
(* asked twice, a silly one and a joke.                                     *)
Conversation(start, channel, resolved, referred, asks) ==
  [start |-> start, channel |-> channel, resolved |-> resolved, referred |-> referred, asks |-> asks]

Score(response, trajectory, silent, weak, members, intent, stars) ==
  [response |-> response, trajectory |-> trajectory, members |-> members, intent |-> intent, stars |-> stars,
   kinds |-> [no_reply |-> silent, weak_answer |-> weak, not_answered |-> 0]]

\* Points without a time or a count.
Point(hour, number) == [at |-> hour, value |-> number]

\* Minutes just below a whole number when nothing is resolved, a rate whose cents
\* round to a hundred, and a total that is only a sum of points.
Figure(given, points) == [given |-> given, points |-> points]

Saved(saved, cost, conversations) ==
  [conversations |-> conversations, hours |-> Figure(saved, <<>>), cost |-> Figure(cost, <<>>),
   assisted |-> Figure(-1, <<>>)]

MCTalks == {Conversation(8, "chat", "yes", FALSE, <<"q", "q">>),
            Conversation(119, "whatsapp", "yes", TRUE, <<"j">>),
            Conversation(30, "chat", "no", FALSE, <<"s", "q">>)}
MCScores == {Score(5, "improving", 1, 0, 2, "none", <<2, 5>>), Score(60, "worsening", 2, 1, 4, "order", <<4>>)}
MCAnswers == {<<Point(3, 4), Point(-1, 5), Point(10, 3), Point(30, 9)>>, <<Point(3, -1)>>}
MCKeys == <<"j", "q", "s">>
MCValues == {Saved(58, 1450, Figure(-1, <<4, 5>>)), Saved(300, 7499, Figure(0, <<>>))}
MCSlugs == <<"order">>

(* Quiet, uneven and crowded channels, a channel that starts late, a spike;  *)
(* long enough for the labels of the days to come too close.                *)
OnDay(whatsapp, chat, instagram) ==
  [ch \in {"whatsapp", "chat", "instagram"} |-> [h \in {2, 10, 19} |->
     CASE ch = "whatsapp" /\ h = 10 -> whatsapp
       [] ch = "chat" /\ h = 19 -> chat
       [] ch = "instagram" /\ h = 2 -> instagram
       [] OTHER -> 0]]

MCPatterns ==
  {<<OnDay(1, 0, 0)>>,
   <<OnDay(3, 1, 0), OnDay(1, 40, 2)>>,
   <<OnDay(300, 1, 2), OnDay(0, 7, 0), OnDay(2, 2, 2), OnDay(1, 1, 0)>>,
   <<OnDay(1, 1, 1), OnDay(3, 1, 0), OnDay(1, 40, 2), OnDay(0, 0, 9), OnDay(1001, 1000, 2)>>}
\* No answer; the day of the report among others, alone, or not; no conversations.
Answer(days, place) == [counts |-> days, place |-> place]

MCDashboards == {Answer(<<>>, 0), Answer(<<3, 0, 12>>, 2), Answer(<<7>>, 1), Answer(<<5, 5>>, 0),
                 Answer([d \in 1..30 |-> 0], 0)}
MCBucketAt == [d \in 1..5 |-> [h \in {2, 10, 19} |->
                 IF d = 4 THEN "weekend" ELSE IF h = 10 THEN "kantooruren"
                 ELSE IF h = 19 THEN "na_kantooruren" ELSE "nacht"]]

-------------------------------------------------------------------------------
Parts == {"admission", "pacing", "unanswered", "scores", "report", "top", "week", "charts"}

ServicesInit ==
  /\ part \in Parts
  /\ verdict = <<"weak_answer", "answered">>
  /\ Init /\ PacingInit /\ RowsInit /\ ScoresInit /\ PagesInit
  /\ TopInit /\ WeekInit /\ ChartsInit
  /\ part # "charts" => pattern = <<OnDay(1, 0, 0)>> /\ dashboard = Answer(<<>>, 0)

\* Only part p moves.
Only(p) ==
  /\ part = p /\ part' = p
  /\ p # "admission" => UNCHANGED vars
  /\ p # "pacing" => UNCHANGED pacingVars
  /\ p # "unanswered" => UNCHANGED unansweredVars
  /\ p # "scores" => UNCHANGED scoreVars
  /\ p # "report" => UNCHANGED pagesVars
  /\ p # "top" => UNCHANGED topVars
  /\ p # "week" => UNCHANGED weekVars
  /\ p # "charts" => UNCHANGED chartVars

servicesVars == <<part, vars, pacingVars, unansweredVars, scoreVars, pagesVars,
                  topVars, weekVars, chartVars>>

\* Admission never stops; the bounds of the other parts may stop them.
ServicesNext ==
  \/ Only("admission") /\ Next
  \/ Only("pacing") /\ PacingNext
  \/ Only("unanswered") /\ RowsNext
  \/ Only("scores") /\ ScoresNext
  \/ Only("report") /\ PagesNext
  \/ Only("top") /\ TopNext
  \/ Only("week") /\ WeekNext
  \/ Only("charts") /\ AddDay
  \/ part # "admission" /\ UNCHANGED servicesVars

ServicesSpec == ServicesInit /\ [][ServicesNext]_servicesVars
-------------------------------------------------------------------------------
(* The properties of the parts *)

\* The type invariants of the components.
PartsTypeOK ==
  CASE part = "admission" -> TypeOK
    [] part = "pacing" -> PacingTypeOK
    [] part = "unanswered" -> RowsTypeOK
    [] part = "scores" -> ScoresTypeOK
    [] part = "report" -> PagesTypeOK
    [] part = "top" -> TopTypeOK
    [] part = "week" -> WeekTypeOK
    [] part = "charts" -> ChartsTypeOK
===============================================================================
