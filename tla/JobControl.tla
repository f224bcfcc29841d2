----------------------------- MODULE JobControl ------------------------------
(***************************************************************************)
(* Cancel, stop, resume and purge (services/system_service.py,             *)
(* services/agent_service.py, api/agents.py, api/conversations.py,         *)
(* api/insights.py) against the pipeline processes of one agent whose jobs *)
(* they hit (run_job and _check_cancelled of the four job services) and    *)
(* against the scheduler loop (scripts/scheduler-loop.sh).                 *)
(*                                                                         *)
(* An operator's request is a script of steps, each one a commit or one    *)
(* command to Redis; the processes move between the steps.  A cancel is    *)
(* two things: a flag in Redis, which the worker polls, and the row, which *)
(* the worker writes without reading it first.                             *)
(*                                                                         *)
(* What the stages of a process are and how it fails is PipelineRun's      *)
(* subject: here any job may follow any other.                             *)
(***************************************************************************)
EXTENDS Integers, Sequences, FiniteSets

CONSTANTS
  Workers,    \* the pipeline processes of the agent
  Scheduled,  \* those the scheduler loop starts; the API starts the others
  Kinds,      \* job kinds, a subset of AllKinds
  Creates,    \* Creates[w] : bound: the kinds of job process w creates
  MaxId,      \* bound: the ids of each job table
  Items,      \* bound: units of work in a job, a look at the flag before each
  MaxOps,     \* bound: requests of operators
  NoJob

AllKinds == {"ingest", "insights", "sentiment", "intent"}

ASSUME ControlAssumption ==
  /\ Scheduled \subseteq Workers
  /\ Kinds \subseteq AllKinds /\ Creates \in [Workers -> SUBSET Kinds]
  /\ MaxId \in Nat /\ Items \in Nat /\ MaxOps \in Nat
  /\ NoJob \notin Kinds \X (1..MaxId)

\* Requests list, cancel, delete and truncate the rows of these kinds only.
Covered == {"ingest", "insights"} \cap Kinds
Ids == 1..MaxId
Rows == Kinds \X Ids
Verdicts == {"complete", "failed", "cancelled"}

\* Mutant: a purge pauses the scheduler only before it flushes the key.
PurgeStepsPausingOnce == <<"pause", "list", "cancel", "terminate", "truncate", "flush", "wipe">>

\* purge_everything
PurgeSteps == <<"pause", "list", "cancel", "terminate", "truncate", "flush", "pause", "wipe">>

\* The requests, step by step.
Script ==
  [stop          |-> <<"pause", "list", "cancel", "wipe">>,
   resume        |-> <<"unpause", "sweep">>,
   purge         |-> PurgeSteps,
   agent         |-> <<"list", "cancel", "conversations", "rows">>,
   insights      |-> <<"list", "cancel", "rows">>,
   conversations |-> <<"conversations", "list", "cancel", "rows">>,
   keepInsights  |-> <<"conversations">>]

Requests == DOMAIN Script
Steps == UNION {{Script[q][n] : n \in DOMAIN Script[q]} : q \in Requests}

VARIABLES
  rows,     \* rows[k][i] : status of row i of the table of kind k, or "absent"
  nextId,   \* nextId[k] : the next value of the table's id sequence
  flags,    \* the Redis keys job:cancel:<kind>:<id>
  paused,   \* the Redis key scheduler:paused
  marked,   \* agent_ingest_states.last_sync_completed_at is set
  pc,       \* where each process is
  job,      \* the row its run_job works on
  left,     \* units of work left in it
  broken,   \* processes whose database session was terminated in a transaction
  sync,     \* what each live process collects: "full", "incremental" or "none"
  script,   \* steps left of the operator's request
  listed,   \* rows the request holds as running
  ops,      \* requests made
  \* history
  maker,    \* maker[k][i] : the process that inserted the row that has the id now
  late,     \* rows cancelled after their worker had looked for the last time
  wiped,    \* rows whose flag was deleted by an operator or a stale process
  stale,    \* processes in a job when the ids were restarted
  deleted,  \* conversations were deleted and no full sync has begun since
  met,      \* ... while a process was alive, or by a request that keeps the job rows
  stopped   \* a stop or purge has ended and no resume has begun

procVars == <<pc, job, left, broken, sync>>
dataVars == <<marked, deleted, met>>
opVars == <<script, listed, ops>>
histVars == <<maker, late, wiped, stale>>
controlVars == <<rows, nextId, flags, paused, stopped, procVars, dataVars, opVars, histVars>>

Locations == {"off", "checked", "between", "working", "looked", "stopping", "clearing", "raising"}
InJob == {"working", "looked", "stopping", "clearing", "raising"}

\* The variables have their types, a process holds a row id exactly while it
\* runs a job, and only rows that were running are held by a request.
ControlTypeOK ==
  /\ rows \in [Kinds -> [Ids -> Verdicts \cup {"running", "absent"}]]
  /\ nextId \in [Kinds -> 1..(MaxId + 1)]
  /\ flags \subseteq Rows /\ listed \subseteq Covered \X Ids
  /\ paused \in BOOLEAN /\ marked \in BOOLEAN /\ stopped \in BOOLEAN
  /\ deleted \in BOOLEAN /\ met \in BOOLEAN
  /\ pc \in [Workers -> Locations]
  /\ job \in [Workers -> Rows \cup {NoJob}]
  /\ left \in [Workers -> 0..Items]
  /\ sync \in [Workers -> {"none", "full", "incremental"}]
  /\ broken \subseteq Workers /\ stale \subseteq Workers
  /\ script \in Seq(Steps) /\ ops \in 0..MaxOps
  /\ maker \in [Kinds -> [Ids -> Workers \cup {NoJob}]]
  /\ late \subseteq Rows /\ wiped \subseteq Rows
  /\ \A w \in Workers : (pc[w] \in InJob) <=> (job[w] # NoJob)

ControlInit ==
  /\ rows = [k \in Kinds |-> [i \in Ids |-> "absent"]]
  /\ nextId = [k \in Kinds |-> 1]
  /\ flags = {} /\ listed = {} /\ script = <<>> /\ ops = 0
  /\ paused = FALSE /\ stopped = FALSE
  /\ marked = FALSE /\ deleted = FALSE /\ met = FALSE
  /\ pc = [w \in Workers |-> "off"]
  /\ job = [w \in Workers |-> NoJob]
  /\ left = [w \in Workers |-> 0]
  /\ sync = [w \in Workers |-> "none"]
  /\ broken = {} /\ stale = {} /\ late = {} /\ wiped = {}
  /\ maker = [k \in Kinds |-> [i \in Ids |-> NoJob]]
-------------------------------------------------------------------------------
(* Helpers *)

Status(r) == rows[r[1]][r[2]]
Exists(w) == Status(job[w]) # "absent"
Write(r, s) == rows' = [rows EXCEPT ![r[1]][r[2]] = s]
Move(w, l) == pc' = [pc EXCEPT ![w] = l]
Alive == {w \in Workers : pc[w] \notin {"off", "checked"}}

\* Rows whose worker will not look at the flag again.
PastLastLook == {job[w] : w \in {v \in Workers : pc[v] = "looked" /\ left[v] = 0}}

\* Mutant: the process does not forget its row.
BackToPipelineHolding(w) ==
  /\ Move(w, "between")
  /\ job' = job
  /\ broken' = broken \ {w}
  /\ stale' = stale \ {w}

\* run_job returns or raises: the process is back in the pipeline.
BackToPipeline(w) ==
  /\ Move(w, "between")
  /\ job' = [job EXCEPT ![w] = NoJob]
  /\ broken' = broken \ {w}
  /\ stale' = stale \ {w}

-------------------------------------------------------------------------------
(* The processes *)

\* scheduler_ctl should-run, then run-all.
ScheduledCheck(w) ==
  /\ w \in Scheduled /\ pc[w] = "off" /\ ~paused
  /\ Move(w, "checked")
  /\ UNCHANGED <<rows, nextId, flags, paused, stopped, job, left, broken, sync, dataVars, opVars, histVars>>

\* mark_sync_started and get_inbox_start_date: the watermark, or else a
\* complete ingest row, makes the sync incremental.
Begin(w) ==
  /\ pc[w] = IF w \in Scheduled THEN "checked" ELSE "off"
  /\ Move(w, "between")
  /\ sync' = [sync EXCEPT ![w] =
       IF marked \/ \E i \in Ids : "ingest" \in Kinds /\ rows["ingest"][i] = "complete"
       THEN "incremental" ELSE "full"]
  /\ deleted' = (deleted /\ sync'[w] = "incremental")
  /\ met' = (met /\ sync'[w] = "incremental")
  /\ UNCHANGED <<rows, nextId, flags, paused, stopped, job, left, broken, marked, opVars, histVars>>

\* create_job of one of the services.
CreateJob(w, k) ==
  /\ pc[w] = "between" /\ k \in Creates[w] /\ nextId[k] \in Ids
  /\ Write(<<k, nextId[k]>>, "running")
  /\ maker' = [maker EXCEPT ![k][nextId[k]] = w]
  /\ nextId' = [nextId EXCEPT ![k] = @ + 1]
  /\ job' = [job EXCEPT ![w] = <<k, nextId[k]>>]
  /\ left' = [left EXCEPT ![w] = Items]
  /\ Move(w, "working")
  /\ late' = late \ {<<k, nextId[k]>>} /\ wiped' = wiped \ {<<k, nextId[k]>>}
  /\ UNCHANGED <<flags, paused, stopped, broken, sync, dataVars, opVars, stale>>

\* _check_cancelled: reading job.id refreshes the row, so a missing row raises
\* before the flag is read.
Look(w) ==
  /\ pc[w] = "working" /\ w \notin broken /\ Exists(w)
  /\ Move(w, IF job[w] \in flags THEN "stopping" ELSE "looked")
  /\ UNCHANGED <<rows, nextId, flags, paused, stopped, job, left, broken, sync, dataVars, opVars, histVars>>

WriteCancelled(w) ==
  /\ pc[w] = "stopping" /\ w \notin broken /\ Exists(w)
  /\ Write(job[w], "cancelled")
  /\ Move(w, "clearing")
  /\ UNCHANGED <<nextId, flags, paused, stopped, job, left, broken, sync, dataVars, opVars, histVars>>

ClearFlag(w) ==
  /\ pc[w] = "clearing"
  /\ flags' = flags \ {job[w]}
  /\ wiped' = IF w \in stale THEN wiped \cup {job[w]} ELSE wiped
  /\ BackToPipeline(w)
  /\ UNCHANGED <<rows, nextId, paused, stopped, left, sync, dataVars, opVars, maker, late>>

\* A conversation, a chunk or a phase is done and its counters are committed.
Progress(w) ==
  /\ pc[w] = "looked" /\ left[w] > 0 /\ w \notin broken /\ Exists(w)
  /\ left' = [left EXCEPT ![w] = @ - 1]
  /\ Move(w, "working")
  /\ UNCHANGED <<rows, nextId, flags, paused, stopped, job, broken, sync, dataVars, opVars, histVars>>

\* Mutant: no look after the last unit of work.
FinishUnlooked(w) ==
  /\ pc[w] \in {"looked", "working"} /\ left[w] = 0 /\ w \notin broken /\ Exists(w)
  /\ Write(job[w], "complete")
  /\ BackToPipeline(w)
  /\ UNCHANGED <<nextId, flags, paused, stopped, left, sync, dataVars, opVars, maker, late, wiped>>

\* The status is written without reading what it is by now.
Finish(w) ==
  /\ pc[w] = "looked" /\ left[w] = 0 /\ w \notin broken /\ Exists(w)
  /\ Write(job[w], "complete")
  /\ BackToPipeline(w)
  /\ UNCHANGED <<nextId, flags, paused, stopped, left, sync, dataVars, opVars, maker, late, wiped>>

\* The next statement raises when the session was terminated or the row is
\* gone.  Exceptions that no operator causes are left to PipelineRun.
Raise(w) ==
  /\ pc[w] \in {"working", "looked", "stopping"}
  /\ w \in broken \/ ~Exists(w)
  /\ Move(w, "raising")
  /\ UNCHANGED <<rows, nextId, flags, paused, stopped, job, left, broken, sync, dataVars, opVars, histVars>>

\* Mutant: the handler inserts the row it does not find.
FailRowUpserting(w) ==
  /\ pc[w] = "raising"
  /\ Write(job[w], "failed")
  /\ BackToPipeline(w)
  /\ UNCHANGED <<nextId, flags, paused, stopped, left, sync, dataVars, opVars, maker, late, wiped>>

\* The handler of run_job: roll back and write "failed" by id, which finds the
\* row that has the id now, or raises when there is none.
FailRow(w) ==
  /\ pc[w] = "raising"
  /\ IF Exists(w) THEN Write(job[w], "failed") ELSE UNCHANGED rows
  /\ BackToPipeline(w)
  /\ UNCHANGED <<nextId, flags, paused, stopped, left, sync, dataVars, opVars, maker, late, wiped>>

\* The handler of InsightsService.run_job does not roll back: its commit raises too.
FailRowRaises(w) ==
  /\ pc[w] = "raising" /\ job[w][1] = "insights"
  /\ BackToPipeline(w)
  /\ UNCHANGED <<rows, nextId, flags, paused, stopped, left, sync, dataVars, opVars, maker, late, wiped>>

\* mark_sync_completed, for a run that got that far, and the end of the process.
CompleteSync(w) ==
  /\ pc[w] = "between" /\ sync[w] # "none"
  /\ marked' = TRUE
  /\ Move(w, "off")
  /\ sync' = [sync EXCEPT ![w] = "none"]
  /\ UNCHANGED <<rows, nextId, flags, paused, stopped, job, left, broken, deleted, met, opVars, histVars>>

\* The pipeline gives up.
Abort(w) ==
  /\ pc[w] = "between"
  /\ Move(w, "off")
  /\ sync' = [sync EXCEPT ![w] = "none"]
  /\ UNCHANGED <<rows, nextId, flags, paused, stopped, job, left, broken, dataVars, opVars, histVars>>
-------------------------------------------------------------------------------
(* The operators' requests *)

Request(q) ==
  /\ script = <<>> /\ ops < MaxOps
  /\ script' = Script[q]
  /\ ops' = ops + 1
  /\ stopped' = (stopped /\ q # "resume")
  /\ UNCHANGED <<rows, nextId, flags, paused, listed, procVars, dataVars, histVars>>

\* The steps left of it.
Pending == {script[n] : n \in DOMAIN script}

\* The request goes on to its next step, which is s.
Take(s) ==
  /\ script # <<>> /\ Head(script) = s
  /\ script' = Tail(script)
  /\ ops' = ops

\* pause_scheduler and resume_scheduler.
Pause ==
  /\ Take("pause")
  /\ paused' = TRUE
  /\ UNCHANGED <<rows, nextId, flags, stopped, listed, procVars, dataVars, histVars>>

Unpause ==
  /\ Take("unpause")
  /\ paused' = FALSE
  /\ UNCHANGED <<rows, nextId, flags, stopped, listed, procVars, dataVars, histVars>>

\* list_running_jobs of ingest and insights, and a cancel flag for each row.
ListRunning ==
  /\ Take("list")
  /\ listed' = {r \in Covered \X Ids : Status(r) = "running"}
  /\ flags' = flags \cup listed'
  /\ late' = late \cup (listed' \cap PastLastLook)
  /\ UNCHANGED <<rows, nextId, paused, stopped, procVars, dataVars, maker, wiped, stale>>

\* The rows are written as they were listed: a verdict given since is replaced.
Cancel ==
  /\ Take("cancel")
  /\ rows' = [k \in Kinds |-> [i \in Ids |->
       IF <<k, i>> \in listed /\ rows[k][i] # "absent" THEN "cancelled" ELSE rows[k][i]]]
  /\ listed' = {}
  /\ UNCHANGED <<nextId, flags, paused, stopped, procVars, dataVars, histVars>>

\* _clear_job_locks: every key job:*, the cancel flags among them.
Wipe ==
  /\ Take("wipe")
  /\ flags' = {}
  /\ wiped' = wiped \cup flags
  /\ stopped' = TRUE
  /\ UNCHANGED <<rows, nextId, paused, listed, procVars, dataVars, maker, late, stale>>

\* The same at the end of a resume, unless an ingest or insights job runs.
Sweep ==
  /\ Take("sweep")
  /\ IF \E r \in Covered \X Ids : Status(r) = "running"
     THEN UNCHANGED <<flags, wiped>>
     ELSE flags' = {} /\ wiped' = wiped \cup flags
  /\ UNCHANGED <<rows, nextId, paused, stopped, listed, procVars, dataVars, maker, late, stale>>

\* pg_terminate_backend of the other sessions: it is noticed by a process in a
\* transaction; an idle connection is replaced unnoticed (pool_pre_ping).
Terminate ==
  /\ Take("terminate")
  /\ \E S \in SUBSET {w \in Workers : pc[w] \in {"working", "looked", "stopping"}} :
       broken' = broken \cup S
  /\ UNCHANGED <<rows, nextId, flags, paused, stopped, listed, pc, job, left, sync, dataVars, histVars>>

\* TRUNCATE ... RESTART IDENTITY: the rows, the conversations and the watermark.
Truncate ==
  /\ Take("truncate")
  /\ rows' = [k \in Kinds |-> IF k \in Covered THEN [i \in Ids |-> "absent"] ELSE rows[k]]
  /\ nextId' = [k \in Kinds |-> IF k \in Covered THEN 1 ELSE nextId[k]]
  /\ maker' = [k \in Kinds |-> IF k \in Covered THEN [i \in Ids |-> NoJob] ELSE maker[k]]
  /\ stale' = stale \cup {w \in Workers : job[w] # NoJob /\ job[w][1] \in Covered}
  /\ marked' = FALSE /\ deleted' = TRUE /\ met' = (met \/ Alive # {})
  /\ UNCHANGED <<flags, paused, stopped, listed, procVars, late, wiped>>

\* flushdb of every Redis database, the paused key included.
Flush ==
  /\ Take("flush")
  /\ flags' = {} /\ wiped' = wiped \cup flags
  /\ paused' = FALSE
  /\ UNCHANGED <<rows, nextId, stopped, listed, procVars, dataVars, maker, late, stale>>

\* purge_conversations
PurgeConversations ==
  /\ Take("conversations")
  /\ deleted' = TRUE
  /\ met' = (met \/ Alive # {} \/ "rows" \notin Pending')
  /\ UNCHANGED <<rows, nextId, flags, paused, stopped, listed, procVars, marked, histVars>>

\* Mutant: the agent's row of agent_ingest_states is kept.
PurgeRowsKeepingState ==
  /\ Take("rows")
  /\ rows' = [k \in Kinds |-> IF k \in Covered THEN [i \in Ids |-> "absent"] ELSE rows[k]]
  /\ maker' = [k \in Kinds |-> IF k \in Covered THEN [i \in Ids |-> NoJob] ELSE maker[k]]
  /\ UNCHANGED <<nextId, flags, paused, stopped, listed, procVars, dataVars, late, wiped, stale>>

\* Mutant: the id sequences are restarted too.
PurgeRowsRestarting ==
  /\ Take("rows")
  /\ rows' = [k \in Kinds |-> IF k \in Covered THEN [i \in Ids |-> "absent"] ELSE rows[k]]
  /\ nextId' = [k \in Kinds |-> IF k \in Covered THEN 1 ELSE nextId[k]]
  /\ maker' = [k \in Kinds |-> IF k \in Covered THEN [i \in Ids |-> NoJob] ELSE maker[k]]
  /\ marked' = FALSE
  /\ UNCHANGED <<flags, paused, stopped, listed, procVars, deleted, met, late, wiped, stale>>

\* purge_insights: the agent's ingest and insights rows and its watermark.
PurgeRows ==
  /\ Take("rows")
  /\ rows' = [k \in Kinds |-> IF k \in Covered THEN [i \in Ids |-> "absent"] ELSE rows[k]]
  /\ maker' = [k \in Kinds |-> IF k \in Covered THEN [i \in Ids |-> NoJob] ELSE maker[k]]
  /\ marked' = FALSE
  /\ met' = (met \/ (deleted /\ Alive # {}))
  /\ UNCHANGED <<nextId, flags, paused, stopped, listed, procVars, deleted, late, wiped, stale>>

WorkerNext(w) ==
  \/ ScheduledCheck(w) \/ Begin(w) \/ CompleteSync(w) \/ Abort(w)
  \/ \E k \in Kinds : CreateJob(w, k)
  \/ Look(w) \/ Progress(w) \/ Finish(w)
  \/ WriteCancelled(w) \/ ClearFlag(w)
  \/ Raise(w) \/ FailRow(w) \/ FailRowRaises(w)

RequestNext ==
  \/ Pause \/ Unpause \/ ListRunning \/ Cancel \/ Wipe \/ Sweep
  \/ Terminate \/ Truncate \/ Flush \/ PurgeConversations \/ PurgeRows

ControlNext ==
  \/ \E w \in Workers : WorkerNext(w)
  \/ \E q \in Requests : Request(q)
  \/ RequestNext

ControlSpec == ControlInit /\ [][ControlNext]_controlVars
-------------------------------------------------------------------------------
(* Properties *)

Ledger == INSTANCE JobLedger WITH Tables <- Kinds, Ids <- Ids, table <- rows

\* Whatever processes and operators do to the rows, a reader sees JobLedger: no
\* row is revived, neither by a late verdict nor after it was deleted.
ImplementsLedger == Ledger!LedgerSpec

\* A job that was cancelled is reported complete only if its worker had looked
\* at the flag for the last time before it was set, if the flag was deleted
\* under it (which stop itself does, right after the cancel), or if the verdict
\* comes from a process whose row had that id before a full purge.
CancelHonoured ==
  [][\A r \in Rows :
       Status(r) = "cancelled" /\ Status(r)' = "complete"
         => r \in late \cup wiped \cup {job[w] : w \in stale}]_controlVars

\* A process writes verdicts by id: the row that has the id is the one it
\* created, unless a full purge restarted the ids during its job.
RowIsOwn ==
  \A w \in Workers :
    job[w] # NoJob /\ Exists(w) => maker[job[w][1]][job[w][2]] = w \/ w \in stale

\* From the end of a stop or purge to the next resume the scheduler is paused,
\* but for the moment in which a purge has flushed the key and not yet set it again.
StaysPaused == stopped => paused \/ "pause" \in Pending

\* What was deleted is collected again: a process that begins after a deletion
\* is not incremental, unless another process was alive during the deletion
\* (and brings a watermark back) or the request kept the agent's other rows.
PurgedIsFetchedAgain ==
  [][\A w \in Workers :
       sync[w] = "none" /\ sync'[w] = "incremental" /\ deleted
         => met \/ "rows" \in Pending]_controlVars
===============================================================================
