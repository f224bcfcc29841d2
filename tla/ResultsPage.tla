----------------------------- MODULE ResultsPage -----------------------------
(***************************************************************************)
(* The page with the results of an agent (ResultsPage.vue): the selected   *)
(* agent, the list of its conversations, its insights, one conversation    *)
(* that is open, a review sample and the gaps of its report.  Every        *)
(* handler awaits requests, the others go on meanwhile, and an answer is   *)
(* put where its handler says, whatever has been selected since.  A        *)
(* request is answered when its answer arrives, from the Redis cache if it *)
(* has one (api/cache_read.py), from the database if not.  The three       *)
(* requests of the insights and their keys stand as one.  What pipelines   *)
(* and other clients do to the same keys meanwhile is in CacheWarming.     *)
(* Messages to the user are left out, but for the warning that hides the   *)
(* page.                                                                   *)
(***************************************************************************)
EXTENDS Integers, FiniteSets, SequencesExt

CONSTANTS
  Convs,      \* conversations
  AgentOf,    \* AgentOf[c] : the agent of conversation c
  SampleSize, \* conversations in a review sample
  MaxClicks,  \* bound: what the user does
  MaxFaults,  \* bound: requests that fail
  MaxFlows,   \* bound: handlers under way at the same time
  None

ASSUME ResultsAssumption ==
  /\ AgentOf \in [Convs -> Range(AgentOf)]
  /\ None \notin Convs \cup Range(AgentOf) /\ \A S \in SUBSET Convs : None # S

VARIABLES
  stored,       \* conversations in the database
  analysed,     \* agents with insights in the database
  cache,        \* what Redis keeps of an agent's answers, by kind and agent, or None
  sel,          \* agentId
  flows,        \* handlers under way, each at one request: [kind, key, stage, act]
  list,         \* conversations, as a set
  insights,     \* overview, clusters and unanswered questions: [agent, rows], or None
  selectedId,
  open,         \* what selectedConversation, stats and selectedTimeline are of, or None
  review,       \* reviewSample
  gaps,         \* the agent that reportMissing is about, or None
  listLoading,
  warning,      \* cacheWarning
  clicks, faults,
  \* history
  failed,       \* what failed when it was loaded last: of "list", "insights", "select"
  raced,        \* loads overlapped that write to the same place for different things
  strayed,      \* the gaps or the sample may be those of an agent selected before
  outdated         \* conversations deleted, or without their insights, since their agent's
                \* cache was last cleared for all of its data

pageVars == <<stored, analysed, sel, flows, list, insights, selectedId, open, review, gaps,
              listLoading, warning, clicks, faults, failed, raced, strayed, cache, outdated>>
cacheVars == <<cache, outdated>>

Agents == Range(AgentOf)
Owned(a) == {c \in Convs : AgentOf[c] = a}
\* The conversations the insights of an agent are about.
Analysed(a) == IF a \in analysed THEN stored \cap Owned(a) ELSE {}
\* Keys conversations:{agent}:list, insights:{agent}:* and conversations:{agent}:review_sample:*.
CacheKinds == {"list", "insights", "review"}
\* What selectConversation fills, one after the other.
Stages == <<"conversation", "stats", "timeline">>
Closed == [p \in Range(Stages) |-> None]
\* Handlers that are about a conversation, and those about an agent.
ConvKinds == {"select", "deleteOne"}
AgentKinds == {"list", "insights", "deleteAll", "deleteInsights", "review", "report"}
Flows == [kind : ConvKinds \cup AgentKinds, key : Convs \cup Agents, stage : 1..3, act : BOOLEAN]

Flow(kind, key, act) == [kind |-> kind, key |-> key, stage |-> 1, act |-> act]
UnderWay(kinds) == \E i \in DOMAIN flows : flows[i].kind \in kinds
\* actionLoading: the flag of the handlers that disable the buttons.
Acting == \E i \in DOMAIN flows : flows[i].act

\* onMounted loads the agent of the last visit.  The cache may be as an earlier
\* visit left it, before conversations were deleted.
ResultsInit ==
  /\ stored \in SUBSET Convs
  /\ analysed = {AgentOf[c] : c \in stored}
  /\ sel \in Agents \cup {None}
  /\ flows = IF sel = None THEN <<>> ELSE <<Flow("list", sel, FALSE), Flow("insights", sel, FALSE)>>
  /\ list = {} /\ insights = None /\ selectedId = None /\ open = Closed
  /\ review = {} /\ gaps = None
  /\ listLoading = (sel # None) /\ warning = FALSE
  /\ clicks = 0 /\ faults = 0
  /\ failed = {} /\ raced = FALSE /\ strayed = FALSE
  /\ outdated \in SUBSET (Convs \ stored)
  /\ \E visited \in BOOLEAN :
       cache = [kind \in CacheKinds |-> [a \in Agents |->
                  IF visited /\ kind # "review" THEN (stored \cup outdated) \cap Owned(a) ELSE None]]
-------------------------------------------------------------------------------
(* What the user does *)

Click == clicks < MaxClicks /\ clicks' = clicks + 1
Visible == sel # None /\ ~warning

\* loadAll(), begun in the middle of rest.
LoadAll(rest, a, act) ==
  /\ flows' = rest \o <<Flow("list", a, act), Flow("insights", a, act)>>
  /\ listLoading' = TRUE /\ warning' = FALSE

\* watch(agentId).  What is shown stays until the answers are there; the sample
\* and the gaps stay for good.
SelectAgent(a) ==
  /\ Click /\ a # sel
  /\ sel' = a
  /\ LoadAll(flows, a, FALSE)
  /\ raced' = (raced \/ flows # <<>>)
  /\ strayed' = (strayed \/ review # {} \/ gaps # None)
  /\ UNCHANGED <<cacheVars, stored, analysed, list, insights, selectedId, open, review, gaps, faults, failed>>

Refresh ==
  /\ Click /\ sel # None /\ ~Acting /\ ~listLoading
  /\ LoadAll(flows, sel, FALSE)
  /\ raced' = (raced \/ UnderWay({"select"}))
  /\ UNCHANGED <<cacheVars, stored, analysed, sel, list, insights, selectedId, open, review, gaps, faults,
                 failed, strayed>>

\* selectConversation, from the list, the unanswered questions or the sample.
SelectConversation(c) ==
  /\ Click /\ Visible
  /\ c \in (IF listLoading THEN {} ELSE list) \cup review
            \cup (IF insights = None THEN {} ELSE insights.rows)
  /\ selectedId' = c
  /\ flows' = Append(flows, Flow("select", c, FALSE))
  /\ raced' = (raced \/ \E i \in DOMAIN flows :
                  \/ flows[i].kind \in {"select", "deleteOne", "deleteAll"}
                  \/ flows[i].kind = "list" /\ (flows[i].key # AgentOf[c] \/ c \notin stored))
  /\ UNCHANGED <<cacheVars, stored, analysed, sel, list, insights, open, review, gaps, listLoading, warning,
                 faults, failed, strayed>>

\* A button of which actionLoading disables the others.
Press(kind, key) ==
  /\ Click /\ ~Acting
  /\ flows' = Append(flows, Flow(kind, key, TRUE))
  /\ raced' = (raced \/ (kind \in {"deleteOne", "deleteAll", "deleteInsights"} /\ flows # <<>>))
  /\ UNCHANGED <<cacheVars, stored, analysed, sel, selectedId, open, listLoading, warning, faults, failed, list>>

DeleteSelectedConversation ==
  /\ Visible /\ open["conversation"] # None /\ selectedId # None
  /\ Press("deleteOne", selectedId)
  /\ UNCHANGED <<insights, review, gaps, strayed>>

DeleteAllAgentData ==
  /\ sel # None /\ Press("deleteAll", sel)
  /\ UNCHANGED <<insights, review, gaps, strayed>>

DeleteInsightsOnly ==
  /\ sel # None /\ Press("deleteInsights", sel)
  /\ insights' = None
  /\ UNCHANGED <<review, gaps, strayed>>

LoadReviewSample ==
  /\ Visible /\ Press("review", sel)
  /\ review' = {}
  /\ strayed' = (strayed /\ gaps # None)
  /\ UNCHANGED <<insights, gaps>>

\* previewReport, downloadReportPdf
Report ==
  /\ sel # None /\ Press("report", sel)
  /\ gaps' = None
  /\ strayed' = (strayed /\ review # {})
  /\ UNCHANGED <<insights, review>>
-------------------------------------------------------------------------------
(* What the answers do *)

Ends(i) == flows' = RemoveAt(flows, i)

\* get_or_compute: what the cache has, or else a fresh answer, which the cache may
\* take.  An entry may be gone at any time (its TTL, an error of Redis): as one
\* that is there need not be found, it may as well stay.
Read(kind, a, fresh, got) ==
  \/ got # None /\ got = cache[kind][a] /\ cache' = cache
  \/ got \in fresh /\ cache' \in {cache, [cache EXCEPT ![kind][a] = got]}

\* Mutant: a selection that is not in the new list stays open.
AnswerListKeepingOpen(i) ==
  /\ flows[i].kind = "list"
  /\ \E got \in SUBSET Convs :
       Read("list", flows[i].key, {stored \cap Owned(flows[i].key)}, got) /\ list' = got
  /\ selectedId' = IF selectedId \in list' THEN selectedId ELSE None
  /\ listLoading' = FALSE
  /\ failed' = IF selectedId' = None THEN failed \ {"list", "select"} ELSE failed \ {"list"}
  /\ Ends(i)
  /\ UNCHANGED <<stored, analysed, sel, insights, open, review, gaps, warning, clicks, faults, raced,
                 strayed, outdated>>

\* A selection that is not in the new list is dropped.
AnswerList(i) ==
  /\ flows[i].kind = "list"
  /\ \E got \in SUBSET Convs :
       Read("list", flows[i].key, {stored \cap Owned(flows[i].key)}, got) /\ list' = got
  /\ IF selectedId # None /\ selectedId \notin list'
     THEN selectedId' = None /\ open' = Closed
     ELSE UNCHANGED <<selectedId, open>>
  /\ listLoading' = FALSE
  /\ failed' = IF selectedId' = None THEN failed \ {"list", "select"} ELSE failed \ {"list"}
  /\ Ends(i)
  /\ UNCHANGED <<stored, analysed, sel, insights, review, gaps, warning, clicks, faults, raced, strayed,
                 outdated>>

AnswerInsights(i) ==
  /\ flows[i].kind = "insights"
  /\ \E got \in SUBSET Convs :
       /\ Read("insights", flows[i].key, {Analysed(flows[i].key)}, got)
       /\ insights' = [agent |-> flows[i].key, rows |-> got]
  /\ failed' = failed \ {"insights"}
  /\ Ends(i)
  /\ UNCHANGED <<stored, analysed, sel, list, selectedId, open, review, gaps, listLoading, warning,
                 clicks, faults, raced, strayed, outdated>>

\* The three requests of selectConversation, one after the other; the answers to
\* the earlier ones are shown by then.  Nothing clears the three keys of a
\* conversation: one that is gone may be answered as well as not be found.
AnswerSelect(i) ==
  /\ flows[i].kind = "select"
  /\ open' = [open EXCEPT ![Stages[flows[i].stage]] = flows[i].key]
  /\ IF flows[i].stage = 3
     THEN failed' = failed \ {"select"} /\ Ends(i)
     ELSE failed' = failed /\ flows' = [flows EXCEPT ![i].stage = @ + 1]
  /\ UNCHANGED <<stored, analysed, sel, list, insights, selectedId, review, gaps, listLoading, warning,
                 clicks, faults, raced, strayed, cacheVars>>

\* The server has deleted the conversation, and no key of the cache; the page
\* closes it, whatever is open by now, and loads the rest anew.
AnswerDeleteOne(i) ==
  /\ flows[i].kind = "deleteOne" /\ flows[i].key \in stored
  /\ stored' = stored \ {flows[i].key}
  /\ outdated' = outdated \cup {flows[i].key}
  /\ selectedId' = None /\ open' = Closed
  /\ failed' = failed \ {"select"}
  /\ LoadAll(RemoveAt(flows, i), sel, TRUE)
  /\ UNCHANGED <<analysed, sel, list, insights, review, gaps, clicks, faults, raced, strayed, cache>>

\* clear_agent_cache: the keys of the insights, and those of the conversations; an
\* error of Redis leaves either.  What is outdated afterwards is whole or part.
ClearCache(a, whole, part) ==
  \E kinds \in {CacheKinds, {"insights"}, {"list", "review"}, {}} :
    /\ cache' = [kind \in CacheKinds |->
                   IF kind \in kinds THEN [cache[kind] EXCEPT ![a] = None] ELSE cache[kind]]
    /\ IF kinds = CacheKinds
       THEN outdated' = whole /\ faults' = faults
       ELSE outdated' = part /\ faults < MaxFaults /\ faults' = faults + 1

\* clearResultsState.
AnswerDeleteAll(i) ==
  /\ flows[i].kind = "deleteAll"
  /\ stored' = stored \ Owned(flows[i].key)
  /\ analysed' = analysed \ {flows[i].key}
  /\ ClearCache(flows[i].key, outdated \ Owned(flows[i].key), outdated \cup Owned(flows[i].key))
  /\ list' = {} /\ insights' = None /\ selectedId' = None /\ open' = Closed /\ review' = {}
  /\ strayed' = (strayed /\ gaps # None)
  /\ failed' = {}
  /\ Ends(i)
  /\ UNCHANGED <<sel, gaps, listLoading, warning, clicks, raced>>

AnswerDeleteInsights(i) ==
  /\ flows[i].kind = "deleteInsights"
  /\ analysed' = analysed \ {flows[i].key}
  /\ ClearCache(flows[i].key, outdated, outdated \cup Owned(flows[i].key))
  /\ flows' = Append(RemoveAt(flows, i), Flow("insights", sel, TRUE))
  /\ UNCHANGED <<stored, sel, list, insights, selectedId, open, review, gaps, listLoading, warning,
                 clicks, failed, raced, strayed>>

\* get_random_sample; the same one as long as the cache has it.
Samples(S) == {T \in SUBSET S : Cardinality(T) = Min({SampleSize, Cardinality(S)})}

AnswerReview(i) ==
  /\ flows[i].kind = "review"
  /\ \E got \in SUBSET Convs :
       /\ Read("review", flows[i].key, Samples(stored \cap Owned(flows[i].key)), got)
       /\ review' = got
  /\ Ends(i)
  /\ UNCHANGED <<stored, analysed, sel, list, insights, selectedId, open, gaps, listLoading, warning,
                 clicks, faults, failed, raced, strayed, outdated>>

AnswerReport(i) ==
  /\ flows[i].kind = "report"
  /\ gaps' = flows[i].key
  /\ Ends(i)
  /\ UNCHANGED <<stored, analysed, sel, list, insights, selectedId, open, review, listLoading, warning,
                 clicks, faults, failed, raced, strayed, cacheVars>>
-------------------------------------------------------------------------------
(* Requests that fail *)

\* A request fails by a fault, or because its conversation is gone.
Fails(i) ==
  IF flows[i].kind \in {"select", "deleteOne"} /\ flows[i].key \notin stored
  THEN faults' = faults
  ELSE faults < MaxFaults /\ faults' = faults + 1

\* The three loads tell a 503 apart: the page warns, and hides what it shows.
NotReady(i) ==
  /\ flows[i].kind \in {"list", "insights", "select"}
  /\ faults < MaxFaults /\ faults' = faults + 1
  /\ warning' = TRUE
  /\ insights' = IF flows[i].kind = "insights" THEN None ELSE insights
  /\ open' = IF flows[i].kind = "select" THEN Closed ELSE open
  /\ listLoading' = (listLoading /\ flows[i].kind # "list")
  /\ failed' = IF flows[i].kind = "select" THEN failed \ {"select"} ELSE failed \cup {flows[i].kind}
  /\ Ends(i)
  /\ UNCHANGED <<cacheVars, stored, analysed, sel, list, selectedId, review, gaps, clicks, raced, strayed>>

\* Any other failure of a load empties the list, and leaves the rest.
LoadFails(i) ==
  /\ flows[i].kind \in {"list", "insights", "select"}
  /\ Fails(i)
  /\ list' = IF flows[i].kind = "list" THEN {} ELSE list
  /\ listLoading' = (listLoading /\ flows[i].kind # "list")
  /\ failed' = failed \cup {flows[i].kind}
  /\ Ends(i)
  /\ UNCHANGED <<cacheVars, stored, analysed, sel, insights, selectedId, open, review, gaps, warning, clicks,
                 raced, strayed>>

\* A button's request fails, without effect: the insights stay cleared.
ActionFails(i) ==
  /\ flows[i].kind \notin {"list", "insights", "select"}
  /\ Fails(i)
  /\ failed' = IF flows[i].kind = "deleteInsights" THEN failed \cup {"insights"} ELSE failed
  /\ Ends(i)
  /\ UNCHANGED <<cacheVars, stored, analysed, sel, list, insights, selectedId, open, review, gaps, listLoading,
                 warning, clicks, raced, strayed>>

User ==
  \/ \E a \in Agents : SelectAgent(a)
  \/ Refresh
  \/ \E c \in Convs : SelectConversation(c)
  \/ DeleteSelectedConversation \/ DeleteAllAgentData \/ DeleteInsightsOnly
  \/ LoadReviewSample \/ Report

Answer(i) ==
  \/ AnswerList(i) \/ AnswerInsights(i) \/ AnswerSelect(i)
  \/ AnswerDeleteOne(i) \/ AnswerDeleteAll(i) \/ AnswerDeleteInsights(i)
  \/ AnswerReview(i) \/ AnswerReport(i)
  \/ NotReady(i) \/ LoadFails(i) \/ ActionFails(i)

ResultsNext ==
  \/ Len(flows) < MaxFlows /\ User
  \/ \E i \in DOMAIN flows : Answer(i)

ResultsSpec == ResultsInit /\ [][ResultsNext]_pageVars
-------------------------------------------------------------------------------
(* Properties *)

ResultsTypeOK ==
  /\ stored \subseteq Convs /\ analysed \subseteq Agents /\ sel \in Agents \cup {None}
  /\ flows \in Seq(Flows)
  /\ \A i \in DOMAIN flows : flows[i].key \in (IF flows[i].kind \in ConvKinds THEN Convs ELSE Agents)
  /\ list \subseteq Convs /\ review \subseteq Convs
  /\ selectedId \in Convs \cup {None} /\ open \in [Range(Stages) -> Convs \cup {None}]
  /\ gaps \in Agents \cup {None}
  /\ cache \in [CacheKinds -> [Agents -> {None} \cup SUBSET Convs]] /\ outdated \subseteq Convs

\* What is open is the selected conversation, all of it, and so is what a click
\* on Delete deletes.
OpenIsSelected ==
  ~UnderWay({"select"}) /\ "select" \notin failed =>
    /\ open["conversation"] \in {None, selectedId}
    /\ open["stats"] = open["conversation"] /\ open["timeline"] = open["conversation"]

\* A list and insights of an agent lack nothing that is stored, and have only
\* outdated conversations besides.
ListOf(a, rows) ==
  stored \cap Owned(a) \subseteq rows /\ rows \subseteq (stored \cup outdated) \cap Owned(a)
InsightsOf(a, rows) == Analysed(a) \subseteq rows /\ rows \subseteq (Analysed(a) \cup outdated) \cap Owned(a)

\* A page at rest shows the conversations and insights of the selected agent as
\* they are stored, but for what failed when it was loaded last, and for what was
\* deleted since the agent's cache was last cleared: DELETE of one conversation
\* clears nothing.
ShowsStored ==
  flows = <<>> /\ sel # None /\ ~warning =>
    /\ ListOf(sel, list) \/ "list" \in failed
    /\ \/ \E rows \in SUBSET Convs : insights = [agent |-> sel, rows |-> rows] /\ InsightsOf(sel, rows)
       \/ insights = None /\ sel \notin analysed
       \/ "insights" \in failed
    /\ ~strayed => review \subseteq Owned(sel) /\ gaps \in {None, sel}

\* The page's variables have their types and, unless loads have raced, it shows
\* what is selected and stored.
ResultsHonest ==
  /\ ResultsTypeOK
  /\ ~raced => OpenIsSelected /\ ShowsStored
===============================================================================
