------------------------------ MODULE WeeklyRun ------------------------------
(***************************************************************************)
(* The weekly report of one week (app/weekly): the run that goes through   *)
(* the agents and bundles their PDFs (services/orchestrator.py), started   *)
(* by the API (launcher.py), by the scheduler loop (scheduler_loop.py), or *)
(* by hand for all agents or for one (pipeline.py).                        *)
(*                                                                         *)
(* What is in a report is abstracted to the attempt it comes from: counts, *)
(* findings and PDF of an agent are each of the last attempt at the agent  *)
(* or of an older one.  Two runs never work on the same agent at the same  *)
(* time here: what the row locks of Postgres make of that is not modelled. *)
(*                                                                         *)
(* weekly:run:state is read, merged and written back without a lock.  What *)
(* begins and ends a run sets the status itself; an update of the progress *)
(* (set_weekly_run_state without a status) writes back the status it read. *)
(* Errors of Redis are swallowed everywhere.                               *)
(***************************************************************************)
EXTENDS Integers, FiniteSets

CONSTANTS
  Agents,     \* the agents Momants lists
  Launched,   \* runs POST /weekly/run starts
  Loops,      \* the scheduler loop's run
  Manual,     \* "run-all" by hand
  Single,     \* "run --agent-id", which takes no lock
  Crews,      \* bound: sets of runs that act together
  MaxDeaths,  \* bound: processes killed, failed spawns, errors of the database and of Redis
  Names,      \* file names in the bundle
  NameOf,     \* safe_agent_filename of each agent: two agents may share one
  None

WeekRuns == Launched \cup Loops \cup Manual \cup Single

\* What the theorems assume of the constants.
WeeklyConstants ==
  /\ Launched \cap (Loops \cup Manual) = {} /\ Single \cap (Launched \cup Loops \cup Manual) = {}
  /\ None \notin WeekRuns /\ None \notin Agents
  /\ MaxDeaths \in Nat
  /\ NameOf \in [Agents -> Names]

VARIABLES
  crew,      \* the runs that act
  lock,      \* weekly:run:lock : the run it was taken for, or None
  state,     \* the status in weekly:run:state, or "absent" if there is none
  due,       \* updates of the progress each run makes before it goes on
  held,      \* the status an update has read and not yet written back, or None
  wpc,       \* where each run is
  queue,     \* agents it has still to do
  cur,       \* the agent it works on, or None
  picked,    \* agents its bundle will hold
  error,     \* runs that end with an error
  week,      \* weekly_runs.status of the week
  row,       \* weekly_agent_runs of the week: [status, counts, findings, pdf]
  file,      \* the PDF of each agent on disk
  zip,       \* bundle.zip, unpacked: under each name the PDF of an agent
  deaths,
  \* history
  locked,    \* runs that took the lock and have not released it
  lost,      \* ... whose lock expired or was deleted by another run
  ghost,     \* a lock or a "running" was left behind, and no run was marked started since
  overlap,   \* a run began to work while another did
  abandoned  \* the last run at work on the week was killed or raised

lockVars == <<crew, lock, locked, lost>>
dbVars == <<week, row, file, zip>>
workVars == <<queue, cur, picked, error>>
progressVars == <<due, held>>
pastVars == <<overlap, abandoned>>
weeklyVars == <<crew, lock, state, due, held, wpc, queue, cur, picked, error, week, row, file, zip,
                deaths, locked, lost, ghost, overlap, abandoned>>

Attending == {"ingest", "analysis", "pdf"}
Busy == {"agents", "zipping", "summary"} \cup Attending
Places == {"off", "loading", "marking", "spawning", "despawning", "collect", "finish", "release"}
            \cup Busy
Working == {p \in WeekRuns : wpc[p] \in Busy}
Statuses == {"absent", "running", "complete", "failed"}
RowStatus == {"none", "running", "complete", "skipped", "failed"}
Marks == {"none", "old", "last"}

\* The variables have their types, and a run holds an agent exactly while it is
\* at work on it.
WeeklyTypeOK ==
  /\ crew \in Crews
  /\ lock \in WeekRuns \cup {None}
  /\ state \in Statuses
  /\ due \in [WeekRuns -> 0..2] /\ held \in [WeekRuns -> Statuses \cup {None}]
  /\ wpc \in [WeekRuns -> Places]
  /\ queue \in [WeekRuns -> SUBSET Agents] /\ picked \in [WeekRuns -> SUBSET Agents]
  /\ cur \in [WeekRuns -> Agents \cup {None}]
  /\ week \in {"none", "running", "complete"}
  /\ row \in [Agents -> [status : RowStatus, counts : Marks, findings : Marks, pdf : BOOLEAN]]
  /\ file \in [Agents -> Marks]
  /\ zip \in [Names -> [of : Agents \cup {None}, pdf : Marks]]
  /\ deaths \in 0..MaxDeaths
  /\ locked \subseteq WeekRuns \ Single /\ lost \subseteq WeekRuns /\ error \subseteq WeekRuns
  /\ ghost \in BOOLEAN /\ overlap \in BOOLEAN /\ abandoned \in BOOLEAN
  /\ \A p \in WeekRuns : (wpc[p] \in Attending) <=> (cur[p] # None)

WeeklyInit ==
  /\ crew \in Crews
  /\ lock = None /\ state = "absent"
  /\ due = [p \in WeekRuns |-> 0] /\ held = [p \in WeekRuns |-> None]
  /\ wpc = [p \in WeekRuns |-> "off"]
  /\ queue = [p \in WeekRuns |-> {}] /\ picked = [p \in WeekRuns |-> {}]
  /\ cur = [p \in WeekRuns |-> None]
  /\ error = {} /\ week = "none"
  /\ row = [a \in Agents |-> [status |-> "none", counts |-> "none", findings |-> "none", pdf |-> FALSE]]
  /\ file = [a \in Agents |-> "none"] /\ zip = [n \in Names |-> [of |-> None, pdf |-> "none"]]
  /\ deaths = 0 /\ locked = {} /\ lost = {}
  /\ ghost = FALSE /\ overlap = FALSE /\ abandoned = FALSE
-------------------------------------------------------------------------------
(* Helpers *)

GoTo(p, place) == wpc' = [wpc EXCEPT ![p] = place]

\* A run goes on only when its updates of the progress are made.
At(p, place) == wpc[p] = place /\ due[p] = 0
Owes(p, n) == due' = [due EXCEPT ![p] = n] /\ held' = held

\* One more of the bounded failures.
WeekFault == deaths < MaxDeaths /\ deaths' = deaths + 1

\* Another attempt at the agent begins.
Aged(m) == IF m = "last" THEN "old" ELSE m

\* _acquire_weekly_lock: SET NX with a TTL.
Acquire(p) ==
  /\ lock = None
  /\ lock' = p
  /\ locked' = locked \cup {p} /\ lost' = lost \ {p}
  /\ crew' = crew

\* release_weekly_lock deletes the lock whoever took it.
Release(p) ==
  /\ lock' = None
  /\ locked' = locked \ {p}
  /\ lost' = (lost \cup ({lock} \cap locked)) \ {p}
  /\ crew' = crew

\* ... or Redis fails and the lock stays.
LeaveLock(p) ==
  /\ locked' = locked \ {p} /\ lost' = lost \ {p}
  /\ UNCHANGED <<crew, lock>>

-------------------------------------------------------------------------------
(* The progress in the run state *)

\* set_weekly_run_state reads the state ...
ReadProgress(p) ==
  /\ due[p] > 0 /\ held[p] = None
  /\ held' = [held EXCEPT ![p] = state]
  /\ UNCHANGED <<lockVars, state, due, wpc, workVars, dbVars, deaths, ghost, pastVars>>

\* ... and writes it back with the new fields, unless Redis fails.  A run
\* without the lock may bring back the "running" of one that has ended.
WriteProgress(p) ==
  /\ held[p] # None
  /\ due' = [due EXCEPT ![p] = @ - 1] /\ held' = [held EXCEPT ![p] = None]
  /\ \/ UNCHANGED <<state, ghost>>
     \/ /\ state' = held[p]
        /\ ghost' = (ghost \/ (held[p] = "running" /\ state # "running" /\ p \notin locked))
  /\ UNCHANGED <<lockVars, wpc, workVars, dbVars, deaths, pastVars>>
-------------------------------------------------------------------------------
(* Starts *)

\* launch_weekly_run: one run at a time, or 409.
Launch(p) ==
  /\ p \in Launched \cap crew /\ wpc[p] = "off"
  /\ Acquire(p)
  /\ GoTo(p, "marking")
  /\ UNCHANGED <<state, progressVars, workVars, dbVars, deaths, ghost, pastVars>>

\* The cron time has come and the schedule is enabled: run_all(trigger="scheduled").
\* A cron time of a later week is a run of another week.
Schedule(p) ==
  /\ p \in Loops \cap crew /\ wpc[p] = "off"
  /\ Acquire(p)
  /\ GoTo(p, "marking")
  /\ UNCHANGED <<state, progressVars, workVars, dbVars, deaths, ghost, pastVars>>

\* By hand, main preloads the models before it looks at the lock.
StartByHand(p) ==
  /\ p \in (Manual \cup Single) \cap crew /\ wpc[p] = "off"
  /\ Owes(p, 1)
  /\ GoTo(p, "loading")
  /\ UNCHANGED <<lockVars, state, workVars, dbVars, deaths, ghost, pastVars>>

\* Mutant: what the lock says is not asked.
ClaimAnyway(p) ==
  /\ p \in Manual /\ At(p, "loading")
  /\ lock' = p
  /\ locked' = locked \cup {p} /\ lost' = lost \ {p}
  /\ crew' = crew
  /\ GoTo(p, "marking")
  /\ UNCHANGED <<state, progressVars, workVars, dbVars, deaths, ghost, pastVars>>

Claim(p) ==
  /\ p \in Manual /\ At(p, "loading")
  /\ IF lock = None
     THEN Acquire(p) /\ GoTo(p, "marking")
     ELSE GoTo(p, "off") /\ UNCHANGED lockVars
  /\ UNCHANGED <<state, progressVars, workVars, dbVars, deaths, ghost, pastVars>>

\* _acquire_weekly_lock returns False after an error of Redis, which may have
\* taken the lock nevertheless.
ClaimUnanswered(p) ==
  /\ \/ p \in (Launched \cup Loops) \cap crew /\ wpc[p] = "off"
     \/ p \in Manual /\ At(p, "loading")
  /\ lock = None /\ WeekFault
  /\ \/ lock' = p /\ ghost' = TRUE
     \/ UNCHANGED <<lock, ghost>>
  /\ GoTo(p, "off")
  /\ UNCHANGED <<crew, locked, lost, state, progressVars, workVars, dbVars, pastVars>>

\* mark_weekly_run_started
MarkStarted(p) ==
  /\ wpc[p] = "marking"
  /\ \/ state' = "running" /\ ghost' = FALSE /\ UNCHANGED deaths
     \/ WeekFault /\ UNCHANGED <<state, ghost>>
  /\ GoTo(p, IF p \in Launched THEN "spawning" ELSE "collect")
  /\ UNCHANGED <<lockVars, progressVars, workVars, dbVars, pastVars>>

\* The child preloads the models; it trusts that its launcher has the lock.
Spawn(p) ==
  /\ wpc[p] = "spawning"
  /\ Owes(p, 1)
  /\ GoTo(p, "collect")
  /\ UNCHANGED <<lockVars, state, workVars, dbVars, deaths, ghost, pastVars>>

SpawnFails(p) ==
  /\ wpc[p] = "spawning" /\ WeekFault
  /\ \/ Release(p) /\ UNCHANGED ghost
     \/ LeaveLock(p) /\ ghost' = TRUE
  /\ GoTo(p, "despawning")
  /\ UNCHANGED <<state, progressVars, workVars, dbVars, pastVars>>

\* clear_weekly_run_state
ClearState(p) ==
  /\ wpc[p] = "despawning"
  /\ \/ state' = "absent" /\ UNCHANGED <<deaths, ghost>>
     \/ WeekFault /\ ghost' = TRUE /\ UNCHANGED state
  /\ GoTo(p, "off")
  /\ UNCHANGED <<lockVars, progressVars, workVars, dbVars, pastVars>>

\* get_or_create_run and the list of agents: all, or the one the settings name.
\* Without the lock it is the one of the command line.
BeginWeek(p) ==
  /\ \/ /\ At(p, "collect")
        /\ \E S \in {Agents} \cup {{a} : a \in Agents} : queue' = [queue EXCEPT ![p] = S]
        /\ Owes(p, 2)
     \/ /\ p \in Single /\ At(p, "loading")
        /\ \E a \in Agents : queue' = [queue EXCEPT ![p] = {a}]
        /\ UNCHANGED progressVars
  /\ week' = "running"
  /\ overlap' = (Working # {}) /\ abandoned' = FALSE
  /\ GoTo(p, "agents")
  /\ UNCHANGED <<lockVars, state, cur, picked, error, row, file, zip, deaths, ghost>>

\* The database raises, or list_agents after the week was set to "running".
NoAgents(p) ==
  /\ At(p, "collect") /\ WeekFault
  /\ error' = error \cup {p}
  /\ \/ week' = "running" /\ abandoned' = (abandoned \/ Working = {})
     \/ UNCHANGED <<week, abandoned>>
  /\ GoTo(p, "finish")
  /\ UNCHANGED <<lockVars, state, progressVars, queue, cur, picked, row, file, zip, ghost, overlap>>
-------------------------------------------------------------------------------
(* One agent: run_agent *)

SetRow(a, r) == row' = [row EXCEPT ![a] = r]

\* The row is "running", and the conversations of the attempt before are
\* deleted, the findings with them (ON DELETE CASCADE): both are committed.
\* What follows is not, until the attempt ends.
StartAgent(p) ==
  /\ At(p, "agents")
  /\ \E a \in queue[p] :
       /\ \A q \in WeekRuns : cur[q] # a
       /\ queue' = [queue EXCEPT ![p] = @ \ {a}]
       /\ cur' = [cur EXCEPT ![p] = a]
       /\ SetRow(a, [row[a] EXCEPT !.status = "running", !.counts = Aged(@), !.findings = "none"])
       /\ file' = [file EXCEPT ![a] = Aged(@)]
       /\ zip' = [n \in Names |-> IF zip[n].of = a THEN [zip[n] EXCEPT !.pdf = Aged(@)] ELSE zip[n]]
  /\ Owes(p, 1)
  /\ GoTo(p, "ingest")
  /\ UNCHANGED <<lockVars, state, picked, error, week, deaths, ghost, pastVars>>

\* The window has conversations: on to the analysis, and from there to the PDF.
NextStage(p) ==
  /\ \/ At(p, "ingest") /\ GoTo(p, "analysis")
     \/ At(p, "analysis") /\ GoTo(p, "pdf")
  /\ Owes(p, 1)
  /\ UNCHANGED <<lockVars, state, workVars, dbVars, deaths, ghost, pastVars>>

\* Back to the loop over the agents.
LeaveAgent(p) ==
  /\ cur' = [cur EXCEPT ![p] = None]
  /\ Owes(p, IF p \in Single THEN 0 ELSE 2)
  /\ GoTo(p, "agents")
  /\ UNCHANGED <<lockVars, state, queue, picked, error, week, zip, deaths, ghost, pastVars>>

\* Mutant: the outputs of the attempt before stay.
SkipKeepingOutputs(p) ==
  /\ At(p, "ingest")
  /\ SetRow(cur[p], [row[cur[p]] EXCEPT !.status = "skipped"])
  /\ file' = file
  /\ LeaveAgent(p)

\* The window has no conversations: _clear_agent_analysis and _clear_agent_outputs.
SkipAgent(p) ==
  /\ At(p, "ingest")
  /\ SetRow(cur[p], [status |-> "skipped", counts |-> "none", findings |-> "none", pdf |-> FALSE])
  /\ file' = IF row[cur[p]].pdf THEN [file EXCEPT ![cur[p]] = "none"] ELSE file
  /\ LeaveAgent(p)

\* The PDF is written, then one commit for findings, clusters, value statistics
\* and counts.
Complete(p) ==
  /\ At(p, "pdf")
  /\ file' = [file EXCEPT ![cur[p]] = "last"]
  /\ SetRow(cur[p], [status |-> "complete", counts |-> "last", findings |-> "last", pdf |-> TRUE])
  /\ LeaveAgent(p)

\* Anything but an error of the database: the row is "failed", and what the
\* stage and those before it flushed is committed with it.
FailAgent(p) ==
  /\ \/ /\ At(p, "ingest") \/ At(p, "analysis")
        /\ SetRow(cur[p], [row[cur[p]] EXCEPT !.status = "failed"])
     \/ /\ At(p, "analysis")
        /\ SetRow(cur[p], [row[cur[p]] EXCEPT !.status = "failed", !.findings = "last"])
     \/ /\ At(p, "pdf")
        /\ SetRow(cur[p], [row[cur[p]] EXCEPT !.status = "failed", !.findings = "last", !.counts = "last"])
  /\ file' = file
  /\ LeaveAgent(p)
-------------------------------------------------------------------------------
(* The bundle: finalize_run *)

CompleteAgents == {a \in Agents : row[a].status = "complete"}

PickAgents(p) ==
  /\ At(p, "agents") /\ queue[p] = {}
  /\ picked' = [picked EXCEPT ![p] = CompleteAgents]
  /\ GoTo(p, "zipping")
  /\ UNCHANGED <<lockVars, state, progressVars, queue, cur, error, dbVars, deaths, ghost, pastVars>>

\* The PDFs that go into the bundle under a name.
Packed(p, n) == {a \in picked[p] : NameOf[a] = n /\ file[a] # "none"}

\* The PDFs that are on disk go into a new bundle; of those with one name only
\* the last is found when it is unpacked.  Without a complete agent the bundle
\* is deleted.
Zip(p) ==
  /\ wpc[p] = "zipping"
  /\ \E pick \in [Names -> Agents \cup {None}] :
       /\ \A n \in Names : IF Packed(p, n) = {} THEN pick[n] = None ELSE pick[n] \in Packed(p, n)
       /\ zip' = [n \in Names |-> [of |-> pick[n],
                                   pdf |-> IF pick[n] = None THEN "none" ELSE file[pick[n]]]]
  /\ GoTo(p, "summary")
  /\ UNCHANGED <<lockVars, state, progressVars, workVars, week, row, file, deaths, ghost, pastVars>>

\* Mutant: without a complete agent there is nothing to finish.
SummariseIfAny(p) ==
  /\ wpc[p] = "summary"
  /\ week' = IF picked[p] = {} THEN week ELSE "complete"
  /\ picked' = [picked EXCEPT ![p] = {}]
  /\ Owes(p, IF p \in Single THEN 0 ELSE 1)
  /\ GoTo(p, IF p \in Single THEN "off" ELSE "finish")
  /\ UNCHANGED <<lockVars, state, queue, cur, error, row, file, zip, deaths, ghost, pastVars>>

\* The summary is committed and posted to Slack, which raises nothing.
Summarise(p) ==
  /\ wpc[p] = "summary"
  /\ week' = "complete"
  /\ picked' = [picked EXCEPT ![p] = {}]
  /\ Owes(p, IF p \in Single THEN 0 ELSE 1)
  /\ GoTo(p, IF p \in Single THEN "off" ELSE "finish")
  /\ UNCHANGED <<lockVars, state, queue, cur, error, row, file, zip, deaths, ghost, pastVars>>

\* Mutant: the end of a run that raises is not marked.
MarkFinishedIfNoError(p) ==
  /\ At(p, "finish")
  /\ state' = IF p \in error THEN state ELSE "complete"
  /\ error' = error \ {p}
  /\ GoTo(p, "release")
  /\ UNCHANGED <<lockVars, progressVars, queue, cur, picked, dbVars, deaths, ghost, pastVars>>

\* mark_weekly_run_finished, in the finally of run_all.
MarkFinished(p) ==
  /\ At(p, "finish")
  /\ \/ state' = (IF p \in error THEN "failed" ELSE "complete") /\ UNCHANGED <<deaths, ghost>>
     \/ WeekFault /\ ghost' = TRUE /\ UNCHANGED state
  /\ error' = error \ {p}
  /\ GoTo(p, "release")
  /\ UNCHANGED <<lockVars, progressVars, queue, cur, picked, dbVars, pastVars>>

ReleaseLock(p) ==
  /\ wpc[p] = "release"
  /\ \/ Release(p) /\ UNCHANGED <<deaths, ghost>>
     \/ LeaveLock(p) /\ WeekFault /\ ghost' = TRUE
  /\ GoTo(p, "off")
  /\ UNCHANGED <<state, progressVars, workVars, dbVars, pastVars>>
-------------------------------------------------------------------------------
(* Failures and the clock *)

\* What a run had in hand is gone.
Drop(p) ==
  /\ cur' = [cur EXCEPT ![p] = None]
  /\ queue' = [queue EXCEPT ![p] = {}] /\ picked' = [picked EXCEPT ![p] = {}]
  /\ abandoned' = (abandoned \/ Working = {p})

\* After an error of the database the commit of the handler raises as well, and
\* the run with it; the PDF may have been written.  finalize_run has no handler.
Raise(p) ==
  /\ \E place \in Attending \cup {"zipping", "summary"} : At(p, place)
  /\ WeekFault
  /\ \/ file' = file
     \/ wpc[p] = "pdf" /\ file' = [file EXCEPT ![cur[p]] = "last"]
  /\ error' = IF p \in Single THEN error ELSE error \cup {p}
  /\ Drop(p)
  /\ GoTo(p, IF p \in Single THEN "off" ELSE "finish")
  /\ UNCHANGED <<lockVars, state, progressVars, week, row, zip, ghost, overlap>>

\* A run is killed, or its models do not load: nothing in a finally runs.
Die(p) ==
  /\ wpc[p] # "off" /\ WeekFault
  /\ GoTo(p, "off")
  /\ Drop(p)
  /\ due' = [due EXCEPT ![p] = 0] /\ held' = [held EXCEPT ![p] = None]
  /\ error' = error \ {p}
  /\ ghost' = (ghost \/ p \in locked \/ wpc[p] = "despawning")
  /\ locked' = locked \ {p} /\ lost' = lost \ {p}
  /\ UNCHANGED <<crew, lock, state, dbVars, overlap>>

\* WEEKLY_LOCK_TTL_SECONDS pass; the run goes on.
ExpireLock ==
  /\ lock # None
  /\ lock' = None
  /\ lost' = lost \cup ({lock} \cap locked)
  /\ UNCHANGED <<crew, state, progressVars, wpc, workVars, dbVars, deaths, locked, ghost, pastVars>>

\* The run state has a TTL of its own, from its last write on.
ExpireState ==
  /\ state # "absent"
  /\ state' = "absent"
  /\ UNCHANGED <<lockVars, progressVars, wpc, workVars, dbVars, deaths, ghost, pastVars>>

Begin(p) == Launch(p) \/ Schedule(p) \/ StartByHand(p)
Work(p) ==
  \/ ReadProgress(p) \/ WriteProgress(p)
  \/ Claim(p) \/ MarkStarted(p) \/ Spawn(p) \/ ClearState(p)
  \/ BeginWeek(p) \/ StartAgent(p) \/ NextStage(p) \/ SkipAgent(p) \/ Complete(p) \/ FailAgent(p)
  \/ PickAgents(p) \/ Zip(p) \/ Summarise(p) \/ MarkFinished(p) \/ ReleaseLock(p)
Trouble(p) == ClaimUnanswered(p) \/ SpawnFails(p) \/ NoAgents(p) \/ Raise(p) \/ Die(p)

WeeklyNext ==
  \/ \E p \in WeekRuns : Begin(p) \/ Work(p) \/ Trouble(p)
  \/ ExpireLock \/ ExpireState

\* A run that is not killed goes on.  Nothing makes one begin: the next cron time
\* of the loop is of another week.
WeeklyFairness == \A p \in WeekRuns : WF_weeklyVars(Work(p))

WeeklySpec == WeeklyInit /\ [][WeeklyNext]_weeklyVars /\ WeeklyFairness
-------------------------------------------------------------------------------
(* Properties *)

\* Two runs for all agents go on at the same time only if the lock of one of
\* them expired, or was deleted by a run that had lost its own.
OneWeeklyRun == \A p, q \in locked : p # q => {p, q} \cap lost # {}

\* A complete report is of one attempt: the counts, the findings and the PDF a
\* reader gets belong together, whatever attempts failed before or were
\* killed; a skipped agent shows none of them.
ReportOfOneAttempt ==
  \A a \in Agents :
    /\ row[a].status = "complete" =>
         row[a].counts = "last" /\ row[a].findings = "last" /\ file[a] = "last"
    /\ row[a].status = "skipped" =>
         row[a].counts = "none" /\ row[a].findings = "none" /\ ~row[a].pdf

\* Under each name the last PDF of a complete agent with that name, if there is one.
Bundled ==
  \A n \in Names :
    IF \E a \in CompleteAgents : NameOf[a] = n
    THEN zip[n].of \in CompleteAgents /\ NameOf[zip[n].of] = n /\ zip[n].pdf = "last"
    ELSE zip[n].pdf = "none"

\* The bundle of a complete week holds the last PDFs of its complete agents and
\* no others, one for each name, unless runs overlapped.
BundleMatches == week = "complete" /\ Working = {} /\ ~overlap => Bundled

\* Both: what a reader downloads belongs together.
OutputsMatch == ReportOfOneAttempt /\ BundleMatches

\* The page shows a run that goes on, and refuses to start one, only while a
\* run does go on, or until the TTL after one was killed, after Redis failed, or
\* after a run without the lock wrote back a "running" it had read before.  The
\* updates of the runs that have the lock never do that, however they interleave.
NoGhostRun ==
  (state = "running" \/ lock # None) /\ locked = {}
    => ghost \/ \E p \in Launched : wpc[p] = "despawning"

\* A week that is begun gets complete, whatever its agents fail at and whatever
\* runs are at work on it, unless the last of them is killed or raises.
WeekGetsDone == week = "running" ~> (week = "complete" \/ abandoned)
===============================================================================
