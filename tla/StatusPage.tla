------------------------------ MODULE StatusPage ------------------------------
(***************************************************************************)
(* One visit of the page that starts and watches analyses (RunPage.vue,    *)
(* composables/usePipelineRunner.js): the selected agent, the polls of its *)
(* status, the two timers and the log.                                     *)
(*                                                                         *)
(* A load is six requests that are awaited together; two of them stand for *)
(* the rest here, the latest jobs with the run state and the running jobs, *)
(* each answered from the server's state at a moment of its own.  Loads    *)
(* overlap, and what they bring is shown in the order in which they end.   *)
(***************************************************************************)
EXTENDS Integers, FiniteSets

CONSTANTS
  Choices,      \* the agents to select
  MaxRuns,      \* bound: ingest jobs of an agent
  Slots,        \* bound: loads under way at the same time
  MaxClicks,    \* bound: what the user does
  MaxFailures,  \* bound: requests that fail
  None

ASSUME PageAssumption ==
  /\ None \notin Choices
  /\ MaxRuns \in Nat /\ MaxClicks \in Nat /\ MaxFailures \in Nat

VARIABLES
  server,   \* server[a] : [id, live], the latest ingest job and what runs
  sel,      \* agentId
  mounted,
  loads,    \* loads[l] : [agent, jobs, status, click], or None
  shown,    \* [agent, id, live, running], what the last load brought, or None
  tracked,  \* trackedIngestId : [agent, id], or None
  log,      \* events in the log (seenEvents holds the same ones)
  timer,    \* pollTimer : "none", "slow" or "fast"
  elapsed,  \* the elapsedTimer runs
  busy,     \* the agent a button was pressed for and waits, or None
  clicks, failures,
  \* history
  loaded,   \* a load has succeeded
  crossed,  \* the agent was changed while a load was under way
  leaving   \* the page was left while a load or a button was under way

pageVars == <<server, sel, mounted, loads, shown, tracked, log, timer, elapsed, busy,
              clicks, failures, loaded, crossed, leaving>>

Lives == {"idle", "ingest", "warming"}
ServerStates == [id : 0..MaxRuns, live : Lives]
Events == [agent : Choices, what : {"started", "complete", "ready"}, id : 0..MaxRuns]
Loads == [agent : Choices, status : ServerStates \cup {None},
          jobs : (0..MaxRuns) \cup {None}, click : BOOLEAN]

\* The variables have their types, and the page shows nothing before a load succeeded.
PageTypeOK ==
  /\ server \in [Choices -> ServerStates] /\ sel \in Choices \cup {None}
  /\ loads \in [Slots -> Loads \cup {None}]
  /\ shown = None \/ shown \in [agent : Choices, id : 0..MaxRuns, live : Lives, running : 0..MaxRuns]
  /\ tracked = None \/ tracked \in [agent : Choices, id : 1..MaxRuns]
  /\ log \subseteq Events
  /\ timer \in {"none", "slow", "fast"}
  /\ busy \in Choices \cup {None}
  /\ {mounted, elapsed, loaded, crossed, leaving} \subseteq BOOLEAN
  /\ clicks \in 0..MaxClicks /\ failures \in 0..MaxFailures
  /\ (shown # None => loaded)

UnderWay == {l \in Slots : loads[l] # None}
Load(a, byClick) == [agent |-> a, status |-> None, jobs |-> None, click |-> byClick]

\* The agent of the last visit is in the local storage of the browser;
\* onMounted loads its status.
PageInit ==
  /\ server = [a \in Choices |-> [id |-> 0, live |-> "idle"]]
  /\ sel \in Choices \cup {None}
  /\ mounted = TRUE
  /\ LET first == CHOOSE l \in Slots : TRUE IN
     loads = [l \in Slots |-> IF l = first /\ sel # None THEN Load(sel, FALSE) ELSE None]
  /\ shown = None /\ tracked = None /\ log = {}
  /\ timer = "none" /\ elapsed = FALSE /\ busy = None
  /\ clicks = 0 /\ failures = 0
  /\ loaded = FALSE /\ crossed = FALSE /\ leaving = FALSE
-------------------------------------------------------------------------------
(* Loads *)

\* pipelineRunning of what is shown.
Running(s) == s # None /\ (s.running # 0 \/ s.live = "warming")

\* loadStatus, as far as its first await.
Begin(a, byClick) ==
  \E l \in Slots \ UnderWay : loads' = [loads EXCEPT ![l] = Load(a, byClick)]

\* The interval fires, whether the page is still there or not.
Poll ==
  /\ timer # "none"
  /\ Begin(sel, FALSE)
  /\ UNCHANGED <<server, sel, mounted, shown, tracked, log, timer, elapsed, busy, clicks, failures,
                 loaded, crossed, leaving>>

Refresh ==
  /\ mounted /\ sel # None /\ clicks < MaxClicks
  /\ clicks' = clicks + 1
  /\ Begin(sel, FALSE)
  /\ UNCHANGED <<server, sel, mounted, shown, tracked, log, timer, elapsed, busy, failures,
                 loaded, crossed, leaving>>

\* The server answers one of the requests.
AnswerStatus(l) ==
  /\ loads[l] # None /\ loads[l].status = None
  /\ loads' = [loads EXCEPT ![l].status = server[loads[l].agent]]
  /\ UNCHANGED <<server, sel, mounted, shown, tracked, log, timer, elapsed, busy, clicks, failures,
                 loaded, crossed, leaving>>

AnswerJobs(l) ==
  /\ loads[l] # None /\ loads[l].jobs = None
  /\ LET s == server[loads[l].agent] IN
     loads' = [loads EXCEPT ![l].jobs = IF s.live = "ingest" THEN s.id ELSE 0]
  /\ UNCHANGED <<server, sel, mounted, shown, tracked, log, timer, elapsed, busy, clicks, failures,
                 loaded, crossed, leaving>>

\* updateLogs: events are pushed first, and a run that is not the tracked one
\* then clears the log.
NewEvents(s) ==
  {e \in Events : e.agent = s.agent /\ s.id # 0 /\
     \/ e.what = "complete" /\ e.id = s.id /\ s.live # "ingest"
     \/ e.what = "ready" /\ e.id = 0 /\ s.live = "idle"}

\* Mutant: the run is tracked without a look whether one goes on.
UpdateLogsUnchecked(s) ==
  /\ tracked' = [agent |-> s.agent, id |-> s.running]
  /\ log' = log \cup NewEvents(s)

UpdateLogs(s) ==
  LET first == [agent |-> s.agent, id |-> s.running] IN
  IF s.running # 0 /\ tracked # first
  THEN /\ tracked' = first
       /\ log' = {[agent |-> s.agent, what |-> "started", id |-> s.running]}
  ELSE /\ log' = log \cup NewEvents(s)
       /\ tracked' = tracked

\* Mutant: only a run that goes on is polled.
SchedulePollWhileRunning(s, byClick) ==
  timer' = IF byClick \/ Running(s) THEN "fast" ELSE "none"

\* schedulePoll; a button sets its own timer after the load.
SchedulePoll(s, byClick) ==
  timer' = IF byClick \/ Running(s) THEN "fast" ELSE "slow"

\* All answers are there: they are shown, whatever is selected by now, and the
\* timers are set again, whether the page is still there or not.
Resolve(l) ==
  /\ loads[l] # None /\ loads[l].status # None /\ loads[l].jobs # None
  /\ LET s == [agent |-> loads[l].agent, id |-> loads[l].status.id,
               live |-> loads[l].status.live, running |-> loads[l].jobs] IN
     /\ shown' = s
     /\ UpdateLogs(s)
     /\ elapsed' = Running(s)
     /\ SchedulePoll(s, loads[l].click)
  /\ busy' = IF loads[l].click THEN None ELSE busy
  /\ loads' = [loads EXCEPT ![l] = None]
  /\ loaded' = TRUE
  /\ UNCHANGED <<server, sel, mounted, clicks, failures, crossed, leaving>>

\* One request fails: the error is shown, and no timer is set but a button's.
LoadFails(l) ==
  /\ loads[l] # None /\ failures < MaxFailures
  /\ failures' = failures + 1
  /\ timer' = IF loads[l].click THEN "fast" ELSE timer
  /\ busy' = IF loads[l].click THEN None ELSE busy
  /\ loads' = [loads EXCEPT ![l] = None]
  /\ UNCHANGED <<server, sel, mounted, shown, tracked, log, elapsed, clicks, loaded, crossed, leaving>>
-------------------------------------------------------------------------------
(* The user *)

\* Mutant: the log of the agent before stays.
SelectKeepingLog(a) ==
  /\ mounted /\ clicks < MaxClicks /\ a # sel
  /\ clicks' = clicks + 1
  /\ sel' = a
  /\ tracked' = None /\ UNCHANGED log
  /\ Begin(a, FALSE)
  /\ crossed' = (UnderWay # {})
  /\ UNCHANGED <<server, mounted, shown, timer, elapsed, busy, failures, loaded, leaving>>

\* watch(agentId): what is shown stays until a load ends.
Select(a) ==
  /\ mounted /\ clicks < MaxClicks /\ a # sel
  /\ clicks' = clicks + 1
  /\ sel' = a
  /\ tracked' = None /\ log' = {}
  /\ Begin(a, FALSE)
  /\ crossed' = (UnderWay # {})
  /\ UNCHANGED <<server, mounted, shown, timer, elapsed, busy, failures, loaded, leaving>>

\* A button: startPipeline, reanalyze, labelReferredIntents.
Click ==
  /\ mounted /\ clicks < MaxClicks /\ sel # None /\ busy = None /\ ~Running(shown)
  /\ clicks' = clicks + 1
  /\ busy' = sel
  /\ UNCHANGED <<server, sel, mounted, loads, shown, tracked, log, timer, elapsed, failures,
                 loaded, crossed, leaving>>

\* The request has started a run of the agent it named; the load that follows
\* is about the agent selected by now.
ClickAnswered ==
  /\ busy # None /\ \A l \in UnderWay : ~loads[l].click
  /\ server[busy].live = "idle" /\ server[busy].id < MaxRuns
  /\ server' = [server EXCEPT ![busy] = [id |-> server[busy].id + 1, live |-> "ingest"]]
  /\ Begin(sel, TRUE)
  /\ tracked' \in {None, tracked}
  /\ UNCHANGED <<sel, mounted, shown, log, timer, elapsed, busy, clicks, failures, loaded, crossed, leaving>>

ClickRefused ==
  /\ busy # None /\ \A l \in UnderWay : ~loads[l].click
  /\ busy' = None
  /\ UNCHANGED <<server, sel, mounted, loads, shown, tracked, log, timer, elapsed, clicks, failures,
                 loaded, crossed, leaving>>

\* Mutant: the timer of the clock is forgotten.
LeavePageTicking ==
  /\ mounted
  /\ mounted' = FALSE
  /\ timer' = "none" /\ UNCHANGED elapsed
  /\ leaving' = (busy # None \/ UnderWay # {})
  /\ UNCHANGED <<server, sel, loads, shown, tracked, log, busy, clicks, failures, loaded, crossed>>

\* onUnmounted
LeavePage ==
  /\ mounted
  /\ mounted' = FALSE
  /\ timer' = "none" /\ elapsed' = FALSE
  /\ leaving' = (busy # None \/ UnderWay # {})
  /\ UNCHANGED <<server, sel, loads, shown, tracked, log, busy, clicks, failures, loaded, crossed>>

\* The pipeline of an agent goes on.
ServerStep(a) ==
  /\ server[a].live # "idle"
  /\ server' = [server EXCEPT ![a].live = IF @ = "ingest" THEN "warming" ELSE "idle"]
  /\ UNCHANGED <<sel, mounted, loads, shown, tracked, log, timer, elapsed, busy, clicks, failures,
                 loaded, crossed, leaving>>

PageNext ==
  \/ Poll \/ Refresh \/ Click \/ ClickAnswered \/ ClickRefused \/ LeavePage
  \/ \E a \in Choices : Select(a) \/ ServerStep(a)
  \/ \E l \in Slots : AnswerStatus(l) \/ AnswerJobs(l) \/ Resolve(l) \/ LoadFails(l)

\* Requests are answered or fail, answers are handled, intervals fire, and a
\* pipeline ends.
PageFairness ==
  /\ WF_pageVars(Poll)
  /\ \A l \in Slots : WF_pageVars(AnswerStatus(l) \/ AnswerJobs(l) \/ Resolve(l))
  /\ \A a \in Choices : WF_pageVars(ServerStep(a))

PageSpec == PageInit /\ [][PageNext]_pageVars /\ PageFairness
-------------------------------------------------------------------------------
(* Properties *)

\* The log is about the selected agent unless the agent was changed while a
\* load was under way, and no timer runs after the page was left unless it was
\* left while a load or a button was.
StaleOnlyByRace ==
  /\ ~crossed => \A e \in log : e.agent = sel
  /\ ~mounted /\ ~leaving => timer = "none" /\ ~elapsed

\* Both: what the page holds has its type and is about the selected agent.
PageSafe == PageTypeOK /\ StaleOnlyByRace

\* Once a load has succeeded the page catches up, whatever loads overlap, fail
\* or end in another order than they began: as long as the agent stays selected,
\* the state in which its pipelines come to rest is shown in the end and stays.
PageCatchesUp ==
  \A a \in Choices :
    <>[](mounted /\ loaded /\ sel = a)
      => <>[](shown # None /\ [shown EXCEPT !.running = 0] =
                [agent |-> a, id |-> server[a].id, live |-> server[a].live, running |-> 0])
===============================================================================
