# Verification of the conversation statistics backend

TLA+ models of momants-conversation-stats, TLC configurations that check them on
small instances, and TLAPS proofs. The system imports the conversations of an
agent from the Momants API, analyses them (sentiment, metrics, unanswered
questions, intents) and serves statistics and reports. Paths are under
`src/backend/app/` unless they start with another directory.

## The system: inventory

| Component | State it keeps | Operations | What is hard |
|---|---|---|---|
| Job admission: `services/job_concurrency.py`, `locks.py` | job rows with status `running` in four tables; the Redis mutex `job:admission` | `admit_and_create`, `wait_for_job_slot`, `can_start_job`, `fail_orphaned_jobs` | checks and inserts of several processes interleave; the mutex has a TTL and is optional when Redis fails |
| Incremental ingest: `services/agent_ingest_state_service.py`, `integrations/momants_client.py`, `services/ingestion_service.py` | the watermark; conversations with `source_last_seen`; messages | start and end of a sync, the sweep of the inbox in date windows, batches, the skip rule | the inbox changes under the sweep; runs overlap, fail and are killed |
| Pipeline: `pipeline.py`, `services/pipeline_launcher.py` | the Redis lock of the agent; job rows; what each stage has done | run, reanalyze, referred-intent; lock, steal, orphans, stages, retries, cleanup | crashes, a lock without an owner, partial failure, retries |
| Job services: `services/ingestion_service.py`, `insights_service.py`, `sentiment_service.py`, `referred_intent_service.py` | job rows, results, cancel flags in Redis | create, run, cancel, complete, fail | cancellation and failure between commits |
| Cancel, stop, purge: `services/system_service.py`, `services/agent_service.py`, `api/agents.py`, `api/jobs.py`, `scheduler_control.py` | all of the above | stop and resume the scheduler, purge an agent or everything | they act on rows, ids and flags of live workers |
| Cache: `cache.py`, `services/cache_warmer.py`, `services/cache_builders.py`, `api/cache_read.py` | cached payloads, warming lock, run state | read-through, warm, delete | stale stores, lost updates, dead warmers |
| Weekly reports: `weekly/` | weekly lock and run state; rows of the week; PDFs and the bundle | launch, scheduled run, run of an agent, finalize | the lock is handed from a process to its child; attempts fail halfway and are repeated |
| Momants HTTP: `integrations/momants_client.py`, `integrations/momants_auth.py` | time slots of the rate limiter, token | request with retries, login | threads share both |
| Run page: `src/frontend/src/composables/usePipelineRunner.js`, `pages/RunPage.vue` | what the page shows, timers | poll, change of agent, start, cancel, leave | answers out of order, timers after the page was left |
| Results page: `src/frontend/src/pages/ResultsPage.vue` | list, open conversation, insights, review sample | load, select, delete, analyse | answers of an earlier selection or agent |
| Questions: `services/unanswered_question_service.py`, `services/question_analysis_service.py`, `utils/question_utils.py` | rows of unanswered questions and their counts; question clusters | score, recount, recluster | deletes and inserts of overlapping passes |
| Scores: `services/sentiment_service.py`, `services/metrics_service.py`, `ml/` | sentiment rows, metrics rows | classify in chunks, compute the arc, gaps and intents | batches that fail, messages out of order, boundaries |
| Reports: `services/report_service.py`, `utils/report_data.py`, `utils/report_charts.py`, `utils/unanswered_report.py`, `utils/sentiment_report.py` | none | read, aggregate, draw | reads of different moments; rounding and thinning |
| Progress over WebSocket, model loading, Slack, sign-in, layout, schema | little or none | calls to others, presentation | not modelled: see the end |

How they interact: the crontab (`src/backend/crontab`), the scheduler loop and the
API start pipeline processes; nothing but Postgres and Redis connects them. A
process takes the lock of its agent, sweeps the inbox (Momants HTTP), creates jobs
(admission), runs them (job services), marks the sync, warms the cache and lets the
lock go. The API cancels, stops and purges while processes are at work; workers learn
of a cancellation by polling a Redis flag. The pages poll the API. The weekly
reports have a lock, a loop and a database of their own. Reports read what the jobs
have written, statement by statement.

Every hazard of the code is in `PROJECT.json` under "hazards", at its line, with the
properties that would catch it going wrong.

## The modules

The theorems are in modules of their own: `AdmissionAndPacingProofs` (`JobAdmission`, `RequestPacing`),
`IngestSyncProofs`, `PipelineAndPageProofs` (`PipelineRun`, `StatusPage`), `ControlAndResultsProofs` (`JobControl`,
`ResultsPage`), `CacheAndWeeklyProofs` (`CacheWarming`, `WeeklyRun`), `QuestionAndChartProofs` (`TopQuestions`,
`AgentWeek`, the ranking they share, `UnansweredRows` and `ReportCharts`) and `FiguresProofs` (`ConversationScores`, `AgentReport`,
`ReportPages`). `Builtins` is what the services use of Python and of ORDER BY: sorting, sums, conditions
in comprehensions, rounding; `DataLemmas` has the lemmas about it. A `Mutant` in a comment marks the
body a definition would have with a plausible bug; it is used by no specification.

### Job admission: SlotPool, JobAdmission, AdmissionAndPacingProofs

`SlotPool` is the abstract promise: running rows form a pool, and a row enters it
in one atomic step and only if it fits the total, the limit of its kind and the
limit of its kind for its agent.

`JobAdmission` is the code. An element of `Jobs` is a caller and the row it creates.

| Variable | In the code |
|---|---|
| `running` | rows with `status == "running"` |
| `mutex` | the Redis key `job:admission`: a token, `Free`, or `Stray` (a token nobody presents again) |
| `pc` | where the caller is: `polling` = `wait_for_job_slot`, `locking` = the SET NX loop, `checking`, `inserting` = the block, `admitted`, `refused`, `raising` = its end |
| `counted`, `seen` | the SELECT COUNTs `can_start_job` has made, and the rows they counted |
| `clock` | which of the two nested deadlines have passed |
| `covered` | history: rows inserted while the mutex held the caller's token |

Every SELECT COUNT is a step of its own (Postgres READ COMMITTED); the count of the
agent is read last, together with the verdict. Faults are named in `FaultKinds`, and
a configuration chooses which can happen.

Properties: `WithinLimits` (no limit is overshot), `CoveredWithinLimits` (nor, whatever
fails, by callers that did hold the mutex), `MutexNotStolen`, `CallReturns`, and the
refinement `ImplementsSlotPool`. `MutexComesFree` is defined and not run.

### Incremental ingest: IngestSync, IngestSyncProofs

Time is a small number and 0 is None. A conversation is the time of its newest
message: `lastActive` in Momants, `messages` in the database, `sourceLastSeen` the
column. `watermark` is `last_sync_completed_at`, `lastComplete` the `completed_at` of
the newest complete ingestion job. `Start` is `mark_sync_started` with
`get_inbox_start_date`; `ReadPage` and `ReadLastPage` are the two nested loops of the
sweep, page by page; `Skip`, `Fetch` and `Store` are the two outcomes of
`_process_conversation`, the fetch being a step before the commit; `CompleteBatch`
and `CancelBatch` are the ends of `run_job`; `FinishSync` is `mark_sync_completed`.
The stages after ingest are in `PipelineRun`; here they are the time between.

`passed` is a history variable: what a run knew of and gave up, because the
conversation failed, its batch was cancelled, the limit left no room, or four empty
windows ended a first sweep. The code documents all of these, so the properties
excuse them: `NothingLost` says that what was active before
the watermark is stored or was passed over. `backfilled` records that a run took
`lastComplete` for the watermark; `NothingLostBehindWatermark` holds without that.

A message that arrives between two pages moves its conversation to the front, and what
it was behind moves up: a conversation can move from a page that is still to come to one that
was read. The code cannot see this. `Activity` counts exactly the conversations that it
pushes past a run (`ToCome`) as passed over, so the property says that a shift loses
these and no other.

### Pipeline: PipelineRun, PipelineAndPageProofs

Processes on agents, `pc` being the stage. `job[r][b]` is one job of the current
stage: its thread (`at`), its row, the attempts that raised, and the conversations
the attempt found (`sees`). The ingest stage has a job per batch, the others one.
`entry` is what became of each listed conversation in the run: `imported` is what
`run_job` returns and what the later stages are scoped to. `todo[s]` holds the stored
conversations that analysis `s` has not seen as they are now. `orphan[a]` stands for
running rows of the agent that no process works on. Faults happen at most
`MaxFaults` times.

`Acquire`, `Count`, `Steal` are the steps of `_acquire_pipeline_lock`, each one round
trip to Redis or Postgres; `Clear` is `fail_orphaned_jobs`; `Leak` is an exception
before the try block; `Stumble` and `Abort` lead to the except clause (`Cleanup`) and
the finally clause (`Release`). Threads of a stage are joined before anything else
happens, as the executor's context manager does.

Properties: `OrphansFromCrashes`, `OrphansCleared`, `RunEnds`, `AnalysedUnlessCut`.
`cut` is the history of what a run gave up visibly: a failed, raised or cancelled job,
a failed conversation, a killed process. `LockComesFree` is defined and not run.

### Job control: JobLedger, JobControl, ControlAndResultsProofs

`JobLedger` is what a reader of the job tables may count on: a row is created
running under an unused id, gets a verdict, the verdict may be revised, the row may be
deleted; it never runs again and never comes back without being created.

`JobControl` is the code that acts on the rows and flags of live workers. An
operator's request is a `script` of steps, each a commit or one command to Redis:
cancel (`api/jobs.py`), stop and resume (`system_service.py`), the purges of an agent,
its conversations, its insights, and everything. A process takes the lock, looks at
the pause, creates a job, works unit by unit looking at its flag (`_check_cancelled`),
and writes its verdict by id without reading the row. The ids are sequences: a full
purge restarts them (TRUNCATE RESTART IDENTITY), so a late verdict can hit a row of
somebody else; `stale` names the processes that were in a job then. Which stage
follows which, and how a process fails, is `PipelineRun`'s subject.

What the code leaves open is named in the properties, each exception by a history
variable: stop deletes the flags it has just set (`wiped`), a cancel after the last
look of the worker is overwritten by complete (`late`), an agent purged in the middle of a
run gets its watermark back at the run's end (`met`). Stop's cancel covers ingest and
insights jobs only; sentiment and intent jobs run on. An empty conversation
list given as the scope of a job means the whole agent.

Properties: `ImplementsLedger` (refinement), `RowIsOwn`, `CancelHonoured`,
`StaysPaused` (a purge flushes the Redis that holds the pause, and must set it again),
`PurgedIsFetchedAgain`, `ControlTypeOK`.

### Cache: CacheWarming, CacheAndWeeklyProofs

A payload is the version of the database it was built from. A process (a pipeline, or
a child started by the status page) is the list of steps it has still to take (`todo`), one query or one
Redis command each; how many conversations a warm has to do is known only once it has asked for their
number (`Conversations`). The run state is one JSON blob that several processes read (`blob`), merge
and write back, so updates are lost; the stages of a pipeline write it too, and a failed pipeline
leaves it at its stage. The warming lock (`warmLock`) is taken by the API for its child; the end of any
warm deletes it, whoever holds it. The keys of single conversations are left out: no purge deletes them.
A DELETE that fails is swallowed (`KeysStay`), and `PurgedStaysGone` names it.

Properties: `PurgedStaysGone`, `OneWarmer`, `ProgressBounded`, `DashboardBecomesReady`.

### Weekly reports: WeeklyRun, CacheAndWeeklyProofs, AgentWeek, QuestionAndChartProofs

`WeeklyRun` is the runs around the agents: the lock the API takes and the child
releases, the loop that starts a run when one is due, `run-all` by hand and
`run --agent-id`, which takes no lock. Counts, findings and PDF of an agent are each
of the last attempt or of an older one. A run can be killed, a spawn can fail, a
database error in the handler of one agent ends the run of all, and errors of Redis are
swallowed wherever the code does so.

`weekly:run:state` is read, merged and written back (`set_weekly_run_state`). Only its
status is kept here: what begins and ends a run sets it, and an update of the progress
(`_set_progress`, the preload) writes back the status it read, in two steps. `due` is how
many updates a run makes before it goes on, `held` the status it has read. So a run by hand
for one agent, or one that the lock refuses, can bring back the "running" of a run that has
ended. `ghost` records when a lock or a "running" was left behind: by a kill, by an error of
Redis, by such an update. `NoGhostRun` says that nothing else does it, in particular no
interleaving of the updates of runs that have the lock. The opposite is possible and not
excluded: while a run goes on the page may show none, after the TTL of the state or after
an update that wrote back an older status.

The bundle is keyed by file names, and two agents may have the same one (`NameOf`): of the
PDFs packed under one name a reader who unpacks the bundle finds one (`Zip`). The names of
the agents are taken as constant in a week.

One week is modelled. The next cron time of the loop begins another week, with a row of its
own, so nothing resumes a week whose run was killed: it stays "running" unless somebody runs
it again before the window moves on. `WeekGetsDone` therefore excuses a week that is
`abandoned`: the last run at work on it was killed or raised. Observed on the way: a spawn
that fails clears the state after it has released the lock (`despawning`); a week whose list
of agents cannot be fetched stays "running"; every run preloads the models and writes the
run state before it looks at the lock; and `run-all --initiated-by`, meant for the child of
the API, takes no lock when somebody enters it by hand (not modelled).

`AgentWeek` is one agent in one attempt: entries are fetched message by message into
the session, questions judged, findings and clusters written, the PDF rendered. The
handler commits without a rollback, so an entry that breaks off stays partial and is
judged; the PDF is written before the commit, so a failed attempt keeps an old or a new
PDF and perhaps old counts.

Properties: `OneWeeklyRun`, `NoGhostRun`, `OutputsMatch`, `WeekGetsDone`; `WeekMatches`.
Two runs at once on the same agent are left out.

### Momants HTTP: RequestPacing, AdmissionAndPacingProofs

Threads that reserve time slots under the limiter's lock, sleep outside it, share a token and
log in under a mutex. `Issue` and `LoggedIn` are the server's and the client's side of a login: the
lifetime is counted from the answer. A login is a request to Momants without a slot of its
own; it is within the try of `_request`, so one that times out is retried like a request, with
a new slot (`RetryRequest`). `now` advances freely, so whoever sleeps may wake up late. `PacingSafe`:
reserved slots are an interval apart, by any time no more requests were sent than slots had
come and no more logins were begun, and a dead token is handed out only if the token was
short-lived or its login slow. So the process makes at most twice as many requests as there
were slots. The docstring of the limiter (`momants_client.py:28-29`) promises the rate for all
threads together; with logins that is not so. Requests can still bunch: those that
wait behind a login are sent together after it.

### The pages: StatusPage, PipelineAndPageProofs, ResultsPage, ControlAndResultsProofs

`StatusPage` is one visit of the run page. A load is several requests answered at moments of
their own; loads overlap, and the last to end is shown. Observed: after a first load that failed no
timer is set, so the page does not poll again by itself; a load that ends after the page was left sets a timer
that nobody clears. `PageSafe` names these races; `PageCatchesUp` says that what is shown comes to
rest at what the server says.

`ResultsPage` is every handler of the results page with its requests. Observed: the answer of
an earlier selection overwrites a newer one; Delete deletes `selectedId` while another conversation
may be shown; delete-all empties the page of whichever agent is selected when it ends; the review sample and
the gaps stay when the agent changes; a failure other than 503 leaves the insights of the agent
before. `ResultsHonest` excludes the first by `raced` and the others by `strayed` and `failed`.

The lists, the insights and the sample are answered from the Redis cache when it has them
(`Read`, `cache`; the three requests of the insights and their keys stand as one). The keys of
single conversations are never cleared, so a conversation that is gone may be answered or
not be found. Deleting one conversation clears no key at all: the page then loads the rest
anew and may show it again. `outdated` are the conversations deleted, or left without insights by
a clear that Redis did not do, since the agent's cache was last cleared; what is shown is what
is stored and perhaps these. Delete-all and delete-insights clear the keys; pipelines and
their warms are in `CacheWarming`.

### Questions: UnansweredRows, QuestionRanking, TopQuestions, QuestionAndChartProofs

`UnansweredRows` has the rows of unanswered questions and the counts in the metrics, written by
ingest and by the first phase of an insights job from the order of the messages, and by the last
phase with models, in commits every 25 conversations and with autoflush off. A cancelled job leaves
weak rows beside counts of 0, a failed one may as well; `settled` marks conversations whose last
insights job ended undisturbed. `CountsMatchRows` is about these, and about the count of questions
without reply at all times.

`QuestionRanking` is the ranking shared by the two clusterings; what the embedding answers is any
clustering. `TopQuestions` is the passes: delete all clusters, insert the own ones, one
READ COMMITTED transaction whose handler commits. A pass that fails after its DELETE commits the DELETE.
The same DELETE, committed with nothing after it, is what `purge_insights` does to the clusters
(`PurgeInsights`). Two overlapping passes leave two sets, although the comment in
`question_analysis_service.py` (lines 35 to 39) promises one: `OneCoherentSet`, refuted by
`questions_twice`. `QuestionsCoherent` says what does hold: each set is whole, and beside that of the
last pass there are only those of passes that overlapped it (`met`).

### Scores and figures: ConversationScores, AgentReport, ReportPages, FiguresProofs, ReportCharts, QuestionAndChartProofs

`ConversationScores` is one conversation: chunks and retries of the classifier, neutral scores for a
batch that was given up, stars, arc, gaps, trajectory, intents, each operator against an
independent definition (`GapsMatchAnswers` by time alone, `ArcMatchesStars`, `IntentsJustified`).
Observed: neutral rows of a failed batch are not repaired by later passes, since these skip
messages with a row; the stars in the metrics are stale after a pass over sentiments only; messages with one
time stamp are ordered by id; the alias lookup of `_resolve_label` never matches.

`AgentReport` is the figures of one report that reads in separate statements while jobs commit;
`FiguresAddUp` says which of them must agree whatever is committed in between (days, hours,
channels, handling, the knowledge gap, the ranking). Rounding is exact half to even; floats may
differ at ties. Observed: the peak taken from the dashboard may be more than the local total; the
average of messages divides figures of different tables.

`ReportPages` extends it by what the pages print of these figures: cells of questions, explanations,
reasons for referrals, channels, and the hours and money from the second answer of the dashboard.
`PagesAgree` says that they agree with each other; `ReportAgrees`, which the run checks, is `FiguresAddUp` and
`PagesAgree`. The bound on "T hours x R = C" has the rate as it is written (8 R for hours rounded by up to 0.04): an
earlier form of it with the unrounded rate was false for 1.04 hours and 13 cents, outside the instance, which the proof
showed. Observed: `int()` cuts off minutes just below a whole number (4.97 becomes "4 min",
4.5 keeps its half); `format_eur` writes cents that round to 100 as ",100"; the count in "Binnen de echte
kennisgaten" includes nonsense questions and may exceed the number of real gaps; the `empty_label` of
`render_question_grid` never appears with `fill_slots=True`.

`ReportCharts` is the charts the report uses, as marks with positions, heights and shares, and the
texts beside them, for an agent whose conversations come in day by day. When they are all of one day,
`apply_momants_stats_fallback` replaces the counts by day by those of the dashboard, if it answers
(`FromDashboard`, `Dashboards`), while the channels and the legend stay those of the database. So in
such a report the legend need not add up to the chart of all channels, and when the dashboard
leaves out the day the curves of the channels are flat: `VolumeHonest` asks for the sums where both
are of one source. `ChartsHonest` says that labels
are in order and apart, ticks reach the top, badges are where the maximum is, slices fill the
whole, and texts agree with the charts. Observed: the timing text (`utils/report_data.py`, lines 586 to 593)
names the dominant channel and gives the percentage of the channel that leads the peak hour, so `TimingTextsAgree` asks for
agreement only if they are the same; two texts may name different channels on a tie; "7 labels" gives up
to 12; the peak hour, chosen by rounded averages, may not have the tallest bar; empty hours have
bars; slices under 22 degrees have no percentage, although the note under the pie says all have.

### How the modules are composed

Components that interact are in one module: `JobControl` has the operators, the workers, the loop
and Redis; `PipelineRun` the processes, their jobs and the lock; `CacheWarming` the pipelines, the
children and the readers; `JobAdmission` and `JobControl` have their abstract specifications beside them.

Components that share no state are checked in one run all the same: `MCServices`, `MCAdmissionPage`,
`MCOverlaps`, `MCJobControl` and `MCLiveness` extend them side by side. `MCPipelineParts` has two instances of
one module in a run. An initial
state chooses the part that moves, and the others have nothing to do: no action of theirs is
enabled, so their fairness asks for nothing, and a property of theirs is evaluated in all
behaviours of their own part. The states of such a run are the sum of those of its parts.

## The runs

| Run | Shows | Bounds | Distinct states |
|---|---|---|---|
| `services` | limits hold and the pool is implemented when the mutex works, with kills and database errors; pacing, unanswered rows, scores, figures and pages of a report, clusters, the week of an agent, charts | admission: 4 callers, 2 kinds, 2 agents; pacing: 2 threads, 1 retry, 5 ticks; rows: 3 conversations, 2 overlapping processes, 1 fault; scores: 3 messages in chunks of 2, 2 failures; report: 2 conversations, a write between any two reads; clusters: 2 overlapping passes over 3 questions; week: 2 attempts; charts: 45 days of 4 patterns | 1.6 million |
| `admission_and_page` | what remains true of admission with Redis errors, timeouts, expiry, database errors and kills; every call returns; the run page | 3 callers, limits of 1 per kind and 2 in total; page: 2 agents, 2 loads at once, 2 clicks, 1 failure | 736,000 |
| `admission_overshoot` | refutes the docstring of `admit_and_create` | the same 3 callers | |
| `overlaps` | skip rule and watermark with two overlapping syncs and all failures; the runs of a week, their lock, run state and outputs | syncs: 2 runs, 1 conversation, 3 points of time: a message before, during and after a run; week: the loop's run with 2 agents of one name, with 1 agent the loop's run and one of the API, by hand, or without a lock, 1 fault | 5.1 million |
| `ingest_sweep` | the sweep: limit, duplicates, pages that shift under it, what it loses, termination | 3 conversations, 1 per page, limit 2, 3 points of time | |
| `ingest_backfill` | refutes the backfill of the watermark | 1 run, 2 batches, one abort | |
| `pipeline` | overlapping processes, crashes, stolen locks; all stages, batches and retries of one process | 2 processes, 1 conversation, 1 retry, 2 faults of any of ten kinds; 1 process, 2 conversations in 2 batches, 1 retry, 3 faults | 1.4 million |
| `pipeline_orphans` | refutes "leftovers from a crashed run" | 2 processes, no fault | |
| `pipeline_retry` | refutes "the post-ingest pass fills SentimentAnalysis" | 1 process, one exception | |
| `job_control` | operators against workers and the loop; the results page | 2 processes, one of the loop and one of the API, 2 kinds, 2 requests; page: 2 agents, 3 conversations, 3 clicks, 3 requests at once, 1 failure | 6.0 million |
| `cache_and_weekly` | the cache of an agent; a week gets done | 2 keys, two of 2 children, a pipeline and a reader at a time, 1 change of the data, 1 fault; 1 agent, the loop's run and one without a lock, 1 fault | 710,000 |
| `questions_twice` | refutes "a single coherent set replaces the old one" | 2 passes over 2 questions | |

The bounds are small because every property relates at most two processes and one
conversation, row, slot or key; the instances have one more of what is contended where
that is affordable. Three conversations in `UnansweredRows` are the first, one that is neither,
and the last: the job commits after the first and the last only. 45 days are enough for labels to be thinned
by step and by distance. In `cache_and_weekly` and `overlaps` the pairs of actors are chosen (`MCCasts`,
`MCCrews`) because no property relates three. Two agents in one run are enough for a name they share. Symmetry is not used. The theorems remove the bounds where there is one.

Deadlock is checked except in `job_control`, `cache_and_weekly` and `questions_twice`: there the bounds on requests,
clicks, ids and changes of the data let the instance come to an end, as the
system does when nobody asks for anything. In `services`, `overlaps` and `admission_and_page` the parts with such bounds may
stutter, and those without (admission, syncs) are checked.

Each property is also run against a mutant of the code ("mutants" in `PROJECT.json`), which it refutes.

### The five findings

1. *Admission can overshoot.* `admit_and_create` ignores the value that
   `job_admission_lock` yields, and nothing fences a holder whose 30 s TTL ended.
   What does hold is `CoveredWithinLimits`.
2. *A batch of an aborted first run becomes the watermark*
   (`services/agent_ingest_state_service.py:35`). Conversations of its other batches
   stay out until they are active again.
3. *A live run can be robbed.* Between the lock and the first row, and between two
   stages, a live run has no running row, and a second process takes its lock for
   stale. Both then fail each other's rows as orphans.
4. *A retried batch forgets.* The retry skips what the first attempt stored and
   returns only its own entries, so the later stages are never told.
5. *Two passes leave two sets of top questions.* Each deletes what its transaction sees
   (`services/question_analysis_service.py:40`); the next pass that is alone repairs it.

What is called "observed" with a module above are smaller divergences, found while the definitions
were written. The models have the code's behaviour, and the properties name the exception; they have no run of
their own.

### Fairness

| Module | Assumed | Because |
|---|---|---|
| `JobAdmission` | the steps of a caller, `DeadlinePasses`, `ExpireMutex` | threads are scheduled, time passes, Redis expires keys; nothing for the end of a job, a cancellation or a call |
| `IngestSync` | the steps of a started run | nobody has to start one, and nothing has to fail |
| `PipelineRun` | the steps of a live process, the expiry of an abandoned lock, `Crontab` | `src/backend/crontab` has `run-all` every two hours; used by `OrphansCleared` only |
| `CacheWarming` | the steps of a process, `ExpireWarmLock`, the poll that triggers a warm, `DeleteKey` | the lock has a TTL; the page polls while it is open; a purge that has begun goes on |
| `WeeklyRun` | the steps of a run that has begun | its process is scheduled; nobody has to start a run, and the loop's next one is of another week |
| `StatusPage` | `Poll`, the answers to requests, `ServerStep` | timers fire, requests are answered or fail, a pipeline makes progress; nobody has to click |

All fairness is weak, but for the crontab in the part of `pipeline` with one process: that process stands for
all the commands in turn, so the crontab gets it again and again (strong). No fault is fair. What happens again
and again is stated as `[]<>`: a process that is idle, a call that has returned, an agent without orphans.

## What is proved

The theorems hold for all values of the constants that satisfy the named assumptions of the
modules (`JobAdmission`, `IngestSync`, `PipelineRun`, `JobControl`, `CacheWarming`, `StatusPage` and
`ResultsPage` have ASSUMEs; the theorems about `WeeklyRun`, `RequestPacing`, `UnansweredRows`, `TopQuestions`,
`AgentWeek`, `ConversationScores`, `ReportPages` and `ReportCharts` take `WeeklyConstants`, `PacingConstants`,
`RowsConstants`, `TopConstants`, `WeekConstants`, `ScoresConstants`, `ReportConstants` with `PagesConstants`, and
`ChartsConstants` as hypotheses, and TLC evaluates these for the instances of the runs).

- `TypeCorrect`: type correctness of admission.
- `CoveredSafe`: `CoveredWithinLimits` for any faults. `CoveredWithinLimits` is not
  inductive: the invariant `AdmissionInv` adds that a token in the key belongs to a
  caller inside the block (`MutexHeldInside`), that its owner has seen every covered row
  of the kinds it has counted (`CountsCover`: rows can leave between the counts,
  but no covered row can enter while the mutex has an owner), and that once it
  decided, its row still fits (`RoomLeft`).
- `OwnerSafe`: `MutexNotStolen`, from type correctness and the compare-and-delete.
- `LimitsSafe` and `AdmissionImplementsPool`, assuming `MutexReliable` (no Redis error,
  no timeout of the polling, no expiry inside the block): `ReliableInv` adds that whoever is
  inside owns the mutex, so every running row is covered. The refinement maps `running`
  to itself; every step is an `Admit`, a `Vacate` or a stutter.
- `SyncTypeCorrect`, `ListedOnceAlways`, `StoredAlways`, from `SyncInv`: type
  correctness with the limit of the list, no conversation twice in a list, and the skip
  rule's justification. The strengthening consists of `EntryInv` (an entry is not newer
  than its conversation, and what was fetched for it is not older than the entry) and
  `SweepInv` (the room of the window that is not used yet is still free in the list, which
  needs the cardinality of a page, `ShownFacts`).
- `NothingLostAlways`: `NothingLostBehindWatermark`, from `WatermarkInv`. What a run owes are the
  conversations quiet since it started that are neither stored nor passed over. `WillMeet` says that it
  meets them all: while it lists they are in its list, on a page to come or older than its window; once
  it ingests they are listed and not yet dealt with. So a run that finishes owes nothing, and the watermark
  may move to its start. A run that starts must find the older ones settled, which is `UpToDate` of the
  watermark before; `DealtInv` ties entries to what became of them, and `Accounted` is kept when a message shifts
  the pages because the shift counts what it pushes past a run. It needs the places in a sorted inbox
  (`RankGrows`, `FewBelow`): pages are sets of places, and a conversation not on the pages read is on those to
  come. TLC checked `WatermarkInv` on both instances first.
- `PipelineTypeCorrect`, `OrphansSafe` and `AnalysedSafe`, from `PipelineInv`.
  `OrphansFromCrashes` needs `RowsInv`: a row runs only while its thread is at work or has
  raised, in a stage or on the way to the cleanup, and beyond it only when the cleanup
  failed. So a stage that is joined without a raise leaves no running row.
  `AnalysedUnlessCut` is not inductive: it is met by a run whose job has ended without
  having seen the conversation, and the next stage would break it. `ClaimInv` asks that
  the job of the stage is still to come, has raised, or has the conversation before it;
  `ScopeInv` (one job per analysis, about what the run imported) makes that preserved.
  Both were first checked with TLC on the instances of `pipeline`.
- `ControlRowIsOwn` and `ControlImplementsLedger`, from `ControlInv`. `RowIsOwn` alone does not
  survive an insert: `Unused` (an id that was not given out has no row) and `Own` (the id
  of a job was given out, and its row, if there, is the job's own) make it so. The refinement
  needs only the same facts: an insert hits an absent row, all else updates or deletes.
- `ControlStaysPaused`, `ControlFetchesAgain` and `ControlCancelHonoured`, on top of `ControlInv`. What a pause is for is in what is left of the
  request: `ScriptInv` (a flush is followed by a pause, a list by a cancel, nothing by a
  wipe) and `PauseInv`. `FetchInv` says that after a deletion that met no process nothing marks
  the agent as synced. For the cancel, `WarnedInv` follows a row from the list to the
  verdict: a process at work on a row that is listed or cancelled will meet the flag, or had
  looked for the last time, or somebody deleted the flag. It needs that no two processes share a
  row but for a restart of the ids (`Distinct`), and excuses the row a process of before
  a full purge is about to clear (`StrayRows`). TLC checked all of them on the
  instance of `job_control` first.
- `ControlTypeCorrect`: `ControlTypeOK`; that a process holds a row id exactly while it runs a job needs
  what is left of a request to be made of the steps of the code.
- `PacingCorrect`: `PacingSafe` for any number of threads. The rate is a matter of
  cardinalities: there are no fewer slots than requests sent and threads that hold a slot
  (`SlotsUsed`), and a thread sleeps for each slot that has not come (`SlotsAhead`), so the
  requests sent are at most the slots that have come. A login spends the slot of its attempt, which
  has no second one (`LoginsUsed`).
- `WeeklyOneRun`, `WeeklyNoGhost` and `WeeklyOutputs`, from `WeeklyInvariant`: whoever holds the lock
  and did not lose it is the one the lock names (`LockInv`); while the state says "running", some
  run has still to say how it ended, unless something was left behind (`StateInv`), and a run makes its updates before it goes on (`OwedInv`); the bundle on its
  way is that of the complete agents, as the one run at work is the only one to change
  them (`BundleInv`).

- `WeeklyTypeCorrect`: types; a run holds an agent exactly while it is at work on it.
- `CacheTypeCorrect`, `CacheOneWarmer`, `CacheProgressBounded` and `CachePurgedStaysGone`, from `CacheInv`.
  None is inductive without what a process has still to do: `TodoInv` says that a payload is stored right
  after it was built and the run state written right after it was read (`Prepared`), that no step counts more
  than there is (`Bounded`), and that a child gives the lock up with its last step (`UnlocksLast`). With it,
  `WarmLockInv` follows a lock from the spawn to that step, `ProgressInv` holds of the blobs
  that were read as well as of the one in Redis, and `PurgeInv` knows every older payload that can still reach a key.
- `PageAlwaysSafe`: `PageSafe`, from `PageInv`. Awaited answers and timers belong to a page with an agent
  selected (`Watching`); unless the agent was changed under a load, all loads are about the selected one
  (`AboutSelected`); a page left with nothing under way stays still (`AtRest`).
- `ResultsAlwaysHonest`: `ResultsHonest`, from `ResultsInv`. Without a race the handlers under way are about
  the selected agent (`SameAgent`), one of them at most opens a conversation, the selected one, which no
  list or deletion under way takes away (`OneSelection`), and what it has filled is of that conversation
  (`OpenInv`). What the cache keeps is stored or outdated (`CacheInv`), and what is
  shown is that too, failed, or being loaded (`LoadedInv`). Handlers end in any order, so the
  lemmas about a step are about which handlers went and came and not about their places (`Change`).

- `CountsAlwaysMatch`: `CountsMatchRows`, from `RowsInvariant`. It is about the end of a job, and needs what the
  job has done until then for a conversation that nobody else has written to: its no_reply rows are right once
  its metrics are written (`SilentRows`); its answered questions are candidates, and its scored rows deleted or about
  to be, once it is collected (`Collected`). Conversations are told apart by what is still to be visited (`Ahead`), not by
  positions, so a batch may name one twice. The counts add up because the candidates of a conversation are as
  many as their positions (`PairsCount`) and rows are of three kinds (`ThreeKinds`). TLC checked the invariant first.
- `QuestionsAlwaysCoherent`: `QuestionsCoherent`, from `TopInvariant`. The rows of a pass are inserted at once and
  deleted at once: a DELETE that goes on has waited for whoever is deleting a row it has seen, so it finds all the rows of a
  pass or none (`DeletesWhole`), and the rows it does not delete are of passes it has met (`Meetings`).
- `WeekAlwaysMatches`: `WeekMatches`, from `WeekInvariant`. A failed attempt commits whatever its session holds, so
  the session must be justified at every step as the database is (`Coherent`); what makes a complete agent complete
  (`Judged`, `Clustered`) is collected on the way. That no more is flagged than was asked is an injection from findings
  to questions (`FlaggedBounded`).
- `RankedOK`, which both rest on: every ranking of any clustering of n questions satisfies `RankingOK`. The clusters are
  sorted by a strict order, and sorting by it is one to one (`OrderedSorts`, by the pigeonhole principle and not by
  induction); the partial sums of the sizes exist because they are the cardinalities of unions of disjoint clusters
  (`RankingOfClusters`), so no induction over the ranking is needed. For this `RankingOK` states the sum as partial sums,
  and `Ordered` defines the sorting by ranks.

- `ScoresAndFigures`: `ScoresMatchTexts`. The invariant `ScoresInv` says that a stored score is that of its own text,
  or neutral where a batch was given up; it survives a pass because blank texts are taken out of a batch and put back in
  their place (`AnswersInPlace`, about the recursion over the batch) and a chunk is the next part of the queue
  (`ChunkIsNext`). The rest is about one state: the next answer of the agent in time order is the earliest one
  (`NextIsFirstAnswer`), a median is between the least and the largest gap (`MedianBetween`), and arcs and
  intents follow their thresholds.
- `AgentReportAgrees`: `ReportAgrees`. `PagesInv` says how what was read relates to what is stored: a report
  without a commit reads the same metrics twice (`MetricsKnown`) and rows whose questions it knew of (`RowsKnown`), rows are of
  questions that were asked (`RowsAsked`), and the days of the dashboard replace a single local day (`StatsOK`). The
  figures of a state follow from lemmas about counting: classes of conversations add up to all of them
  (`ClassesAddUp`), a percentage is within a half of its quotient (`Rounded`), percentages of parts add up to a hundred as
  far as that allows (`SharesAddUp`), the p95 is a place in a sorted list (`AsManyAsPlace`), and rankings
  are sortings by a strict order (`RankOrder`). What the pages show is the beginning of a list (`FirstOf`), no longer than
  the number beside it, also when that is scaled (`RealCounted`); minutes and rates are near their quotients
  (`MinutesNear`, `RateNear`).

- `ChartsAreHonest`: `ChartsHonest`, for any weeks of any counts and any number of days. `ChartsInv` says that days, hours
  and time buckets of a channel count the same conversations, and that there was one; it is inductive because the hours of
  a day are divided by their bucket (`SumByClass`). The rest is about one state. Labels: what `SelectLabels` keeps is apart
  after every place (`LabelsHold`, by induction over the places), and there are at most twelve and the last (`FewPlaces`).
  Ticks and badges: the height on the square root scale exists, is unique and is in the order of the values
  (`HeightIs`, `HeightsInOrder`), so the highest point is that of the largest count and reaches the top. Totals: the sum over the
  channels of the sums over days, or over buckets, is that of the days, or buckets, of the sums over channels (`RowsAndColumns`),
  and channels without a conversation may be left out (`SumActive`). Parts: each begins where the one before ends, and
  their rounded percentages are as far from a hundred as `SharesNear` allows (`PartsHold`). Texts: the channel a text names has the
  largest number (`FirstBestIs`), so its share is at least that of an equal division; the percentages in whole numbers and in
  tenths are within a half of a percent of each other (`RoundedTwice`).

All three are about sums, sortings and recursions over data. The induction theorems of the library cannot be used, but
induction over a set of numbers or of finite sets is first order (`NumberInduction`, `SetInduction` in `DataLemmas`, by
a least counterexample): with it, the sum of a function is what a fold computes and can be taken apart
(`SumTakeOut`, `SumSplit`, `SumOfClasses`), and sorting and filtering list what they should (`OrderedLists`, `SortedLists`,
`KeepLists`).

In a proof `CASE` with guards that overlap is the choice of any of the alternatives, where TLC takes the first: the
time bucket of a conversation (`TimeBucket`: a weekend, whatever the hour) and the shade of a bar (`HourBars`) were written so,
and are nested conditions now, as in the code.

Only model-checked: liveness, which is out of the prover's reach. The type invariants of `UnansweredRows`,
`TopQuestions`, `AgentWeek`, `ConversationScores`, `ReportPages` and `ReportCharts` are proved in the weaker form the
invariants need (`RowsTypes`, `TopTypes`, `WeekTypes`, and in `ScoresInv`, `ReportInv` and `ChartsInv`); the bounds of the
instances in `PartsTypeOK` are only checked.

## The plan

Done: admission, ingest, pipeline, job control, cache, weekly runs, pacing, both pages, the
questions, the scores and the figures, pages and charts of reports; the safety properties of all of them
are proved. Left, in this order:

1. Insights per batch and the single-stage commands of `pipeline.py`.
2. Two weekly runs at once on one agent, with the row locks of Postgres.

## Where the models are coarser than the code

Each of these merges steps or leaves out writes that no property of its module tells apart.

- `IngestSync.Start` reads the window of the sync in the step that commits `mark_sync_started`.
  `IngestSync.CancelBatch` also stands for the handler around `run_job`.
- `JobControl.Cancel` marks the listed jobs in one step; `agent_service.py` commits job by job.
- `PipelineRun.Raise`: after a commit that failed in a handler the session may stay rolled back, and a
  retry then gets less far than in the model.
- `CacheWarming.TriggerWarm` looks at the keys and takes the lock in one step. A key that comes or goes
  between is one the child finds a step later.
- `UnansweredRows.Die` drops what was pending; when the models raise, the handler commits it first.
- `AgentReport.StoreRow` and `StoreTalk` add rows and conversations between the statements of a report;
  rows that are deleted and messages added to a stored conversation between two of them are left out.
- `StatusPage` has one busy flag where the page has three, and no purge of everything. Its component
  is therefore "partly" modelled.
- `AgentWeek` has an agent processed by one run at a time. In `WeeklyRun` runs may overlap, with the agent's
  rows written a step at a time and no row locks; `OutputsMatch` excuses a week in which they did.

## Not modelled

- What models answer, how they are loaded and pooled, and the text and layout of reports,
  Slack messages and pages: data without control of the system's own.
- Slack: commands only call the launcher. A submission that Slack delivers again meets a busy
  pipeline and the reply to it is not guarded; milestones are best effort.
- Sign-in: cookies and OAuth are library calls.
- Progress over WebSocket: no page uses `useJobRunner` or `useJobWebSocket`, so nothing depends on it.
- The form of the weekly settings page, which its own polls can overwrite.
- Chart functions no report calls: `sentiment_arc`, `emotion_timeline`, the grids of office hours and
  of channel volumes, the stat grid, `pie_with_legend`.
- `label_question_clusters`, which has no caller, and the single-stage commands of `pipeline.py`.
- The schema: declarations; the columns that control reads are variables of the modules.
