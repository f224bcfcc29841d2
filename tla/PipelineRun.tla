------------------------------ MODULE PipelineRun ------------------------------
(***************************************************************************)
(* app/pipeline.py: the processes that run the pipeline, the lock that is  *)
(* to keep two of them off the same agent, their stages, the job rows of   *)
(* the stages, retries, and what a process that fails or dies leaves.      *)
(*                                                                         *)
(* The jobs of the ingest stage are the batches, each in a thread; every   *)
(* other stage has one job.  A conversation is stored by ingest and then   *)
(* has to pass the three analyses, which todo remembers.  Admission        *)
(* (JobAdmission) and the choice of what is listed (IngestSync) are        *)
(* abstracted: a job is admitted or refused, any conversations are listed. *)
(***************************************************************************)
EXTENDS Naturals, FiniteSets

CONSTANTS
  Agents, Convs,
  Runs,          \* processes, each of which stands for one command after another
  AgentOf,       \* the agent of each process and of each conversation
  CommandsOf,    \* the commands each process is started with
  Batches,       \* batch numbers
  BatchOf,       \* the batch of each conversation
  MaxRetries,    \* MAX_RETRIES
  Faults,        \* which of FaultKinds can happen
  MaxFaults      \* how many faults happen

\* "refuse"  create_job raises: no slot comes free
\* "fail"    a conversation or a job fails and run_job copes with it
\* "cancel"  a job is cancelled
\* "raise"   run_job itself raises: it cannot even record the failure
\* "abort"   the process raises outside a job
\* "leak"    the process raises after it took the lock and before its try block
\* "cleanup" the cleanup after a failure raises
\* "kill"    the process dies
\* "expire"  the lock expires while its owner is at work
\* "redis"   an operation on the lock fails, which is logged and passed over
FaultKinds ==
  {"refuse", "fail", "cancel", "raise", "abort", "leak", "cleanup", "kill", "expire", "redis"}

CommandSet == {"run", "reanalyze", "referred-intent"}

ASSUME CommandsAssumption == CommandsOf \in [Runs -> SUBSET CommandSet]
ASSUME AgentsAssumption == AgentOf \in [Runs \cup Convs -> Agents]
ASSUME BatchesAssumption == Batches \subseteq Nat /\ 1 \in Batches /\ BatchOf \in [Convs -> Batches]
ASSUME FaultsAssumption == Faults \subseteq FaultKinds /\ MaxFaults \in Nat /\ MaxRetries \in Nat

VARIABLES
  lock,      \* Redis: job:agent:pipeline:<agent> exists
  pc,        \* what each process does
  command,   \* the command it runs
  job,       \* its jobs: thread, row in the database, attempts that raised, and the
             \* conversations as the attempt found them: those stored since are not in it
  entry,     \* what became of each conversation in its run
  pending,   \* conversations with messages the database does not have
  stored,    \* conversations in the database
  todo,      \* those of them that are new for an analysis
  orphan,    \* a row is "running" that no process works on
  crashed,   \* history: a process of the agent did not clean up
  cut,       \* history: conversations whose run gave up on what is new in them
  faults     \* the faults so far

process == <<pc, command>>
data == <<pending, stored, todo>>
rows == <<job, orphan>>
history == <<crashed, cut, faults>>
vars == <<lock, process, rows, entry, data, history>>

Analyses == {"sentiment", "insights", "intents"}
JobStages == {"ingest", "sentiment", "insights", "questions", "intents"}
PcValues == JobStages \cup
  {"idle", "acquiring", "counting", "stealing", "reacquiring", "clearing", "listing",
   "warming", "failing", "releasing"}

NoJob == [at |-> "none", row |-> "none", tries |-> 0, sees |-> {}]
Queued == [NoJob EXCEPT !.at = "queued"]

Init ==
  /\ lock = [a \in Agents |-> FALSE]
  /\ pc = [r \in Runs |-> "idle"] /\ command = [r \in Runs |-> "run"]
  /\ job = [r \in Runs |-> [b \in Batches |-> NoJob]]
  /\ entry = [r \in Runs |-> [c \in Convs |-> "out"]]
  /\ pending = Convs /\ stored = {}
  /\ todo = [s \in Analyses |-> {}]
  /\ orphan = [a \in Agents |-> FALSE] /\ crashed = [a \in Agents |-> FALSE]
  /\ cut = {} /\ faults = 0

ConvsOf(a) == {c \in Convs : AgentOf[c] = a}
Processed(r) == {c \in Convs : entry[r][c] = "imported"}
LeavesRow(r) == \E b \in Batches : job[r][b].row = "running"
\* count_running_jobs(db) > 0: the rows of every agent count.
SomeRowRuns == (\E r \in Runs : LeavesRow(r)) \/ \E a \in Agents : orphan[a]

\* Stage s begins; ingest has a job for each batch with an entry in list.
Enter(r, s, list) ==
  LET queued(b) == \/ s = "ingest" /\ \E c \in Convs : list[c] = "listed" /\ BatchOf[c] = b
                   \/ s \in JobStages \ {"ingest"} /\ b = 1
  IN  /\ pc' = [pc EXCEPT ![r] = s]
      /\ job' = [job EXCEPT ![r] = [b \in Batches |-> IF queued(b) THEN Queued ELSE NoJob]]
      /\ orphan' = [orphan EXCEPT ![AgentOf[r]] = @ \/ LeavesRow(r)]

\* The process is gone; its rows stay as they are.
Exit(r) ==
  /\ Enter(r, "idle", entry[r])
  /\ entry' = [entry EXCEPT ![r] = [c \in Convs |-> "out"]]
  /\ command' = [command EXCEPT ![r] = "run"]

\* fail_orphaned_jobs: every running row of the agent, whoever works on it.
FailOrphaned(a) ==
  /\ job' = [r \in Runs |-> [b \in Batches |->
               IF AgentOf[r] = a /\ job[r][b].row = "running"
               THEN [job[r][b] EXCEPT !.row = "failed"] ELSE job[r][b]]]
  /\ orphan' = [orphan EXCEPT ![a] = FALSE]
  /\ crashed' = [crashed EXCEPT ![a] = FALSE]

MayFail(kind) == kind \in Faults /\ faults < MaxFaults /\ faults' = faults + 1
-------------------------------------------------------------------------------
(* Launch, lock and the orphans of earlier processes *)

\* is_pipeline_busy; it answers no when Redis fails.
Busy(a) == lock[a] /\ SomeRowRuns

\* The crontab runs the pipeline whatever happens; the API asks whether the
\* agent is busy.  Labelling of intents needs no lock.
Launch(r, cmd) ==
  /\ pc[r] = "idle" /\ cmd \in CommandsOf[r]
  /\ cmd = "reanalyze" => ~Busy(AgentOf[r]) \/ "redis" \in Faults
  /\ cmd = "referred-intent" =>
       \A q \in Runs : AgentOf[q] = AgentOf[r] /\ pc[q] = "intents" => ~LeavesRow(q)
  /\ command' = [command EXCEPT ![r] = cmd]
  /\ IF cmd = "referred-intent"
       THEN Enter(r, "intents", entry[r])
       ELSE pc' = [pc EXCEPT ![r] = "acquiring"] /\ UNCHANGED rows
  /\ UNCHANGED <<lock, entry, data, history>>

\* acquire_agent_job_lock, at first and after a steal.
Acquire(r) ==
  LET a == AgentOf[r] IN
  /\ pc[r] \in {"acquiring", "reacquiring"}
  /\ \/ /\ ~lock[a] /\ lock' = [lock EXCEPT ![a] = TRUE]
        /\ pc' = [pc EXCEPT ![r] = "clearing"]
        /\ UNCHANGED faults
     \/ /\ IF lock[a] THEN UNCHANGED faults ELSE MayFail("redis")
        /\ pc' = [pc EXCEPT ![r] = IF @ = "acquiring" THEN "counting" ELSE "idle"]
        /\ UNCHANGED lock
  /\ UNCHANGED <<command, rows, entry, data, crashed, cut>>

\* The lock is taken for stale when no job of any agent runs.
Count(r) ==
  /\ pc[r] = "counting"
  /\ pc' = [pc EXCEPT ![r] = IF SomeRowRuns THEN "idle" ELSE "stealing"]
  /\ UNCHANGED <<lock, command, rows, entry, data, history>>

\* release_agent_job_lock deletes the lock whoever holds it.
Unlock(a) ==
  \/ lock' = [lock EXCEPT ![a] = FALSE] /\ UNCHANGED faults
  \/ MayFail("redis") /\ UNCHANGED lock

Steal(r) ==
  /\ pc[r] = "stealing"
  /\ Unlock(AgentOf[r])
  /\ pc' = [pc EXCEPT ![r] = "reacquiring"]
  /\ UNCHANGED <<command, rows, entry, data, crashed, cut>>

\* Mutant: a new process does not care for the rows of dead ones.
ClearNothing(r) ==
  /\ pc[r] = "clearing"
  /\ pc' = [pc EXCEPT ![r] = "listing"]
  /\ UNCHANGED <<lock, command, rows, entry, data, history>>

Clear(r) ==
  /\ pc[r] = "clearing"
  /\ FailOrphaned(AgentOf[r])
  /\ pc' = [pc EXCEPT ![r] = "listing"]
  /\ UNCHANGED <<lock, command, entry, data, cut, faults>>

\* Mutant: the lock has no time to live.
ExpireNever(a) ==
  /\ lock[a] /\ "expire" \in Faults /\ MayFail("expire")
  /\ lock' = [lock EXCEPT ![a] = FALSE]
  /\ UNCHANGED <<process, rows, entry, data, crashed, cut>>

\* The lock expires, after its owner is gone or before.
Expire(a) ==
  /\ lock[a]
  /\ \/ /\ \A r \in Runs : AgentOf[r] = a /\ command[r] # "referred-intent" =>
             pc[r] \in {"idle", "acquiring", "counting", "stealing", "reacquiring"}
        /\ UNCHANGED faults
     \/ MayFail("expire")
  /\ lock' = [lock EXCEPT ![a] = FALSE]
  /\ UNCHANGED <<process, rows, entry, data, crashed, cut>>
-------------------------------------------------------------------------------
(* Ingest *)

\* A message arrives in a conversation that was up to date.
Activity(c) ==
  /\ pending' = pending \cup {c}
  /\ UNCHANGED <<lock, process, rows, entry, stored, todo, history>>

\* _collect_batches, or for reanalyze the conversations in the database.
List(r) ==
  /\ pc[r] = "listing"
  /\ IF command[r] = "run"
       THEN \E S \in SUBSET ConvsOf(AgentOf[r]) :
              LET list == [c \in Convs |-> IF c \in S THEN "listed" ELSE "out"] IN
              /\ entry' = [entry EXCEPT ![r] = list]
              /\ Enter(r, IF S = {} THEN "intents" ELSE "ingest", list)
       ELSE LET S == ConvsOf(AgentOf[r]) \cap stored
                list == [c \in Convs |-> IF c \in S THEN "imported" ELSE "out"]
            IN  /\ entry' = [entry EXCEPT ![r] = list]
                /\ Enter(r, IF S = {} THEN "warming" ELSE "sentiment", list)
  /\ UNCHANGED <<lock, command, data, history>>

Working(r, c) ==
  /\ pc[r] = "ingest" /\ job[r][BatchOf[c]].at = "running"
  /\ entry[r][c] = "listed"

\* Conversation c is committed.  No analysis has seen what is new in it, and no
\* job that is under way does; labels of intents are for conversations without.
Store(c) ==
  /\ pending' = pending \ {c} /\ stored' = stored \cup {c}
  /\ todo' = [s \in Analyses |->
                IF s = "intents" /\ c \in stored THEN todo[s] ELSE todo[s] \cup {c}]
  /\ job' = [r \in Runs |-> [b \in Batches |-> [job[r][b] EXCEPT !.sees = @ \ {c}]]]

\* _process_conversation: one that is up to date is skipped, and not returned.
Ingest(r, c) ==
  /\ Working(r, c)
  /\ IF c \in pending
       THEN Store(c) /\ entry' = [entry EXCEPT ![r][c] = "imported"] /\ cut' = cut \ {c}
       ELSE UNCHANGED <<data, job, cut>> /\ entry' = [entry EXCEPT ![r][c] = "skipped"]
  /\ UNCHANGED <<lock, process, orphan, crashed, faults>>

\* It counts as failed, though it may be committed: the metrics come after.
FailConversation(r, c) ==
  /\ MayFail("fail") /\ Working(r, c)
  /\ entry' = [entry EXCEPT ![r][c] = "skipped"]
  /\ \/ UNCHANGED <<data, job, cut>>
     \/ c \in pending /\ Store(c) /\ cut' = cut \cup {c}
  /\ UNCHANGED <<lock, process, orphan, crashed>>
-------------------------------------------------------------------------------
(* Jobs *)

\* The conversations a job of the stage is about.
Scope(r) ==
  CASE pc[r] = "ingest" -> {}
    [] pc[r] = "intents" /\ Processed(r) = {} -> ConvsOf(AgentOf[r]) \cap stored
    [] OTHER -> Processed(r)

Create(r, b) ==
  /\ pc[r] \in JobStages /\ job[r][b].at = "queued"
  /\ job' = [job EXCEPT ![r][b] = [at |-> "running", row |-> "running",
                                    tries |-> @.tries, sees |-> Scope(r)]]
  /\ UNCHANGED <<lock, process, orphan, entry, data, history>>

\* Create_job raises; it is not retried.
Refuse(r, b) ==
  /\ MayFail("refuse")
  /\ pc[r] \in JobStages /\ job[r][b].at = "queued"
  /\ job' = [job EXCEPT ![r][b].at = "raised"]
  /\ UNCHANGED <<lock, process, orphan, entry, data, crashed, cut>>

\* The thread of the job ends with its row as given.
Ended(r, b, at, row) ==
  job' = [job EXCEPT ![r][b] = [at |-> at, row |-> row, tries |-> @.tries, sees |-> {}]]

\* run_job completes, whatever the row says by now.
Complete(r, b) ==
  /\ pc[r] \in JobStages /\ job[r][b].at = "running"
  /\ pc[r] = "ingest" => \A c \in Convs : BatchOf[c] = b => entry[r][c] # "listed"
  /\ Ended(r, b, "returned", "complete")
  /\ todo' = IF pc[r] \in Analyses THEN [todo EXCEPT ![pc[r]] = @ \ job[r][b].sees] ELSE todo
  /\ UNCHANGED <<lock, process, orphan, entry, pending, stored, history>>

\* An attempt ends early.  Sentiment and intents have committed what they did
\* with some conversations.  Insights write their results at the end, but the
\* deletion of the earlier ones of some conversations is committed.
Partly(r, b) ==
  IF pc[r] \in Analyses
    THEN \E S \in SUBSET job[r][b].sees :
           todo' = [todo EXCEPT ![pc[r]] = IF pc[r] = "insights" THEN @ \cup S ELSE @ \ S]
    ELSE UNCHANGED todo

\* run_job returns early, and the stage ends with what it has not done.
ReturnEarly(r, b) ==
  /\ Partly(r, b)
  /\ cut' = IF pc[r] \in Analyses THEN cut \cup (Scope(r) \cap todo'[pc[r]]) ELSE cut
  /\ UNCHANGED <<lock, process, orphan, entry, pending, stored, crashed>>

\* The exception handler of run_job records the failure, and the clustering of
\* questions raises on; insights and intents can pass over a failure.
FailJob(r, b) ==
  /\ MayFail("fail")
  /\ pc[r] \in JobStages /\ job[r][b].at = "running"
  /\ \E row \in {"failed"} \cup (IF pc[r] \in {"insights", "intents"} THEN {"complete"} ELSE {}) :
       Ended(r, b, IF pc[r] = "questions" THEN "raised" ELSE "returned", row)
  /\ ReturnEarly(r, b)

\* The user cancels, and the worker finds the flag some time later, or never.
Cancel(r, b) ==
  /\ MayFail("cancel")
  /\ job[r][b].row = "running"
  /\ job' = [job EXCEPT ![r][b].row = "cancelled"]
  /\ UNCHANGED <<lock, process, orphan, entry, data, crashed, cut>>

\* Insights and intents that stop at should_cancel still complete the job.
NoticeCancel(r, b) ==
  /\ pc[r] \in JobStages \ {"questions"}
  /\ job[r][b].at = "running" /\ job[r][b].row = "cancelled"
  /\ \E row \in {"cancelled"} \cup (IF pc[r] \in {"insights", "intents"} THEN {"complete"} ELSE {}) :
       Ended(r, b, "returned", row)
  /\ ReturnEarly(r, b)
  /\ UNCHANGED faults

\* Mutant: attempts are not counted, each starts with the first entry again.
RaiseUncounted(r, b) ==
  /\ "raise" \in Faults /\ UNCHANGED faults
  /\ pc[r] = "ingest" /\ job[r][b].at = "running"
  /\ entry' = [entry EXCEPT ![r] = [c \in Convs |->
                 IF BatchOf[c] = b /\ @[c] # "out" THEN "listed" ELSE @[c]]]
  /\ cut' = cut \cup Processed(r)
  /\ UNCHANGED <<lock, process, rows, data, crashed>>

\* Mutant: one attempt too many.
RaiseOnceMore(r, b) ==
  /\ MayFail("raise")
  /\ pc[r] \in JobStages /\ job[r][b].at = "running"
  /\ job' = [job EXCEPT ![r][b].tries = IF @ <= MaxRetries THEN @ + 1 ELSE @]
  /\ UNCHANGED <<lock, process, orphan, entry, data, crashed, cut>>

\* _run_with_retries: run_job starts again from the first entry, and what the
\* attempt had imported is not returned by the next one.
Raise(r, b) ==
  LET retried == pc[r] # "questions" /\ job[r][b].tries < MaxRetries
      dropped == {c \in Processed(r) : pc[r] = "ingest" /\ BatchOf[c] = b}
  IN
  /\ MayFail("raise")
  /\ pc[r] \in JobStages /\ job[r][b].at = "running"
  /\ job' = [job EXCEPT ![r][b] =
                [at |-> IF retried THEN "running" ELSE "raised", row |-> @.row,
                 tries |-> IF retried THEN @.tries + 1 ELSE @.tries,
                 sees |-> IF retried THEN Scope(r) ELSE {}]]
  /\ entry' = [entry EXCEPT ![r] = [c \in Convs |->
                 IF pc[r] = "ingest" /\ BatchOf[c] = b /\ @[c] # "out" THEN "listed" ELSE @[c]]]
  /\ Partly(r, b)
  /\ cut' = cut \cup dropped
  /\ UNCHANGED <<lock, process, orphan, pending, stored, crashed>>
-------------------------------------------------------------------------------
(* Stages, failure and the end of a process *)

\* Every thread of the stage has ended (the executor is joined).
Joined(r) == \A b \in Batches : job[r][b].at \in {"none", "returned", "raised"}
Raised(r) == \E b \in Batches : job[r][b].at = "raised"

\* With nothing imported the sentiment and insights stages do nothing.
NextStage(r) ==
  CASE pc[r] = "ingest" -> IF Processed(r) = {} THEN "intents" ELSE "sentiment"
    [] pc[r] = "sentiment" -> "insights"
    [] pc[r] = "insights" -> "questions"
    [] pc[r] = "questions" -> "intents"
    [] pc[r] = "intents" -> "warming"

\* Mutant: the stage of questions leads straight to the cache.
AdvanceSkipping(r) ==
  /\ pc[r] \in JobStages /\ Joined(r) /\ ~Raised(r)
  /\ Enter(r, IF pc[r] = "questions" THEN "warming" ELSE NextStage(r), entry[r])
  /\ UNCHANGED <<lock, command, entry, data, history>>

Advance(r) ==
  /\ pc[r] \in JobStages /\ Joined(r) /\ ~Raised(r)
  /\ Enter(r, NextStage(r), entry[r])
  /\ UNCHANGED <<lock, command, entry, data, history>>

GiveUp(r) == cut' = cut \cup Processed(r)

\* The process is to fail.  Labelling of intents has no cleanup.
Fail(r) ==
  /\ GiveUp(r)
  /\ IF command[r] = "referred-intent"
       THEN Exit(r) /\ crashed' = [crashed EXCEPT ![AgentOf[r]] = @ \/ LeavesRow(r)]
       ELSE pc' = [pc EXCEPT ![r] = "failing"] /\ UNCHANGED <<command, rows, entry, crashed>>

\* A job raised: the process goes on to fail when its threads have ended.
Stumble(r) ==
  /\ pc[r] \in JobStages /\ Joined(r) /\ Raised(r)
  /\ Fail(r)
  /\ UNCHANGED <<lock, data, faults>>

Abort(r) ==
  /\ MayFail("abort")
  /\ pc[r] \in {"listing", "warming"}
  /\ Fail(r)
  /\ UNCHANGED <<lock, data>>

Warm(r) ==
  /\ pc[r] = "warming"
  /\ IF command[r] = "referred-intent"
       THEN Exit(r)
       ELSE pc' = [pc EXCEPT ![r] = "releasing"] /\ UNCHANGED <<command, rows, entry>>
  /\ UNCHANGED <<lock, data, history>>

\* Mutant: the except clause only rolls back.
CleanupNothing(r) ==
  /\ pc[r] = "failing"
  /\ pc' = [pc EXCEPT ![r] = "releasing"]
  /\ UNCHANGED <<lock, command, rows, entry, data, history>>

\* The except clause.
Cleanup(r) ==
  /\ pc[r] = "failing"
  /\ FailOrphaned(AgentOf[r])
  /\ pc' = [pc EXCEPT ![r] = "releasing"]
  /\ UNCHANGED <<lock, command, entry, data, cut, faults>>

FailCleanup(r) ==
  /\ MayFail("cleanup")
  /\ pc[r] = "failing"
  /\ pc' = [pc EXCEPT ![r] = "releasing"]
  /\ crashed' = [crashed EXCEPT ![AgentOf[r]] = TRUE]
  /\ UNCHANGED <<lock, command, rows, entry, data, cut>>

\* The finally clause.
Release(r) ==
  /\ pc[r] = "releasing"
  /\ Unlock(AgentOf[r])
  /\ Exit(r)
  /\ UNCHANGED <<data, crashed, cut>>

\* What precedes the try block raises: nothing is cleaned up or released.
Leak(r) ==
  /\ MayFail("leak")
  /\ pc[r] \in {"clearing", "listing"}
  /\ Exit(r)
  /\ UNCHANGED <<lock, data, crashed, cut>>

Kill(r) ==
  /\ MayFail("kill")
  /\ pc[r] # "idle"
  /\ GiveUp(r)
  /\ Exit(r)
  /\ crashed' = [crashed EXCEPT ![AgentOf[r]] = TRUE]
  /\ UNCHANGED <<lock, data>>
-------------------------------------------------------------------------------
Step(r) ==
  \/ Acquire(r) \/ Count(r) \/ Steal(r) \/ Clear(r) \/ List(r)
  \/ \E c \in Convs : Ingest(r, c)
  \/ \E b \in Batches : Create(r, b) \/ Complete(r, b)
  \/ Advance(r) \/ Stumble(r) \/ Warm(r) \/ Cleanup(r) \/ Release(r)

Fault(r) ==
  \/ \E c \in Convs : FailConversation(r, c)
  \/ \E b \in Batches : \/ Refuse(r, b) \/ FailJob(r, b) \/ Raise(r, b)
                        \/ Cancel(r, b) \/ NoticeCancel(r, b)
  \/ Abort(r) \/ FailCleanup(r) \/ Leak(r) \/ Kill(r)

Next ==
  \/ \E r \in Runs : Step(r) \/ Fault(r) \/ \E cmd \in CommandSet : Launch(r, cmd)
  \/ \E c \in Convs : Activity(c)
  \/ \E a \in Agents : Expire(a)

Spec == Init /\ [][Next]_vars

\* A process that the crontab starts, and nobody else.
Crontab(r) == CommandsOf[r] = {"run"}

\* A live process keeps going, a lock that is not renewed expires, and the
\* crontab launches the pipeline again and again.
Fairness ==
  /\ \A r \in Runs : WF_vars(Step(r))
  /\ \A r \in Runs : Crontab(r) => WF_vars(Launch(r, "run"))
  /\ \A a \in Agents : WF_vars(Expire(a))

FairSpec == Spec /\ Fairness
-------------------------------------------------------------------------------
(* Properties *)

\* Every variable has its type, and a row exists while a thread works for it.
TypeOK ==
  /\ lock \in [Agents -> BOOLEAN]
  /\ pc \in [Runs -> PcValues]
  /\ command \in [Runs -> CommandSet]
  /\ job \in [Runs -> [Batches ->
       [at : {"none", "queued", "running", "returned", "raised"},
        row : {"none", "running", "complete", "failed", "cancelled"}, tries : 0..MaxRetries,
        sees : SUBSET stored]]]
  /\ entry \in [Runs -> [Convs -> {"out", "listed", "skipped", "imported"}]]
  /\ pending \subseteq Convs /\ stored \subseteq Convs
  /\ todo \in [Analyses -> SUBSET stored]
  /\ orphan \in [Agents -> BOOLEAN] /\ crashed \in [Agents -> BOOLEAN]
  /\ cut \subseteq Convs /\ faults \in 0..MaxFaults

\* A row that runs without a process is the work of a process that was killed
\* or could not clean up.  However jobs fail, raise or are cancelled, and
\* however processes overlap, a pipeline that ends leaves its slots free.
OrphansFromCrashes == \A a \in Agents : orphan[a] => crashed[a]

\* Rows left by a dead process are failed by a later one, so that they do not
\* occupy slots for ever.
OrphansCleared == \A a \in Agents : []<>~orphan[a]

\* A lock does not stay, whoever holds it and however its owner ends.
LockComesFree == \A a \in Agents : []<>~lock[a]

\* Every process ends: its jobs are retried a bounded number of times.
RunEnds == \A r \in Runs : []<>(pc[r] = "idle")

\* The stages at which a run has still to do an analysis.
Before ==
  [sentiment |-> {"ingest", "sentiment"},
   insights |-> {"ingest", "sentiment", "insights"},
   intents |-> {"ingest", "sentiment", "insights", "questions", "intents"}]

\* What is stored passes every analysis: a run that imported it is about to do
\* it, or else a run gave up on it.
AnalysedUnlessCut ==
  \A s \in Analyses : \A c \in todo[s] \ cut :
    \E r \in Runs : c \in Processed(r) /\ pc[r] \in Before[s]

\* A row is "running" while its thread is at work or after it raised, and the
\* process that leaves it so is one that will fail, or could not clean up.
RowsInv ==
  \A r \in Runs : \A b \in Batches : job[r][b].row = "running" =>
    /\ job[r][b].at \in {"running", "raised"}
    /\ \/ pc[r] \in JobStages \cup {"failing"}
       \/ pc[r] = "releasing" /\ crashed[AgentOf[r]]

\* What a run imported is stored, an analysis has one job, and the job of the
\* insights is about what the run imported.
ScopeInv ==
  \A r \in Runs :
    /\ Processed(r) \subseteq stored
    /\ pc[r] \in JobStages \ {"ingest"} => \A b \in Batches \ {1} : job[r][b].at = "none"
    /\ pc[r] = "insights" => job[r][1].sees \subseteq Processed(r)

\* Run r is still to do analysis s of c, or to give up on it.
Claims(r, s, c) ==
  /\ c \in Processed(r) /\ pc[r] \in Before[s]
  /\ pc[r] = s => \/ job[r][1].at \in {"queued", "raised"}
                  \/ job[r][1].at = "running" /\ c \in job[r][1].sees

ClaimInv == \A s \in Analyses : \A c \in todo[s] \ cut : \E r \in Runs : Claims(r, s, c)

\* The inductive invariant behind OrphansFromCrashes and AnalysedUnlessCut. The
\* latter is too weak: it is met by a run whose job has ended without c.
PipelineInv == TypeOK /\ RowsInv /\ OrphansFromCrashes /\ ScopeInv /\ ClaimInv

\* "We now hold this agent's pipeline lock, so any of its jobs still marked
\* running are leftovers from a crashed/killed run": no live process of the
\* agent has a running row when a process clears the orphans.
OrphansAreDead ==
  \A r, q \in Runs :
    pc[r] = "clearing" /\ AgentOf[q] = AgentOf[r] => ~LeavesRow(q)

\* "The post-ingest sentiment pass fills SentimentAnalysis": when no process is
\* at work, no stored conversation lacks it.
SentimentFilled == (\A r \in Runs : pc[r] = "idle") => todo["sentiment"] = {}
===============================================================================
