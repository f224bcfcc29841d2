---------------------------- MODULE CacheWarming -----------------------------
(***************************************************************************)
(* The Redis cache behind the dashboard of one agent: read-through         *)
(* (api/cache_read.py), warming by the pipeline and by children the status *)
(* page starts (services/cache_warmer.py), deletion by a purge             *)
(* (AgentService.clear_agent_cache), and the run state that all of them    *)
(* merge into one JSON blob (cache.py).                                    *)
(*                                                                         *)
(* A payload is the version of the database it was built from.  A process  *)
(* is the list of steps it has still to take; one step is one query or one *)
(* command to Redis, and the processes take turns between the steps.  The  *)
(* keys of single conversations are left out: no purge deletes them, they  *)
(* are stale until their TTL.                                              *)
(***************************************************************************)
EXTENDS Integers, Sequences, FiniteSets

CONSTANTS
  KeyOrder,    \* the agent's keys, in the order warm_agent_cache fills them
  ListKey,     \* the one that holds the list of conversations
  MaxConvs,    \* bound: conversations of the agent
  Children,    \* warm processes the status page can start
  Pipelines,   \* pipeline processes
  Readers,     \* requests of the dashboard
  Casts,       \* bound: sets of processes and requests that act together
  MaxVersion,  \* bound: changes of the database
  MaxFaults,   \* bound: crashes, failed spawns, keys that expire and DELETEs that fail
  Absent       \* no payload, no lock, nothing read

AgentKeys == {KeyOrder[i] : i \in DOMAIN KeyOrder}
Procs == Children \cup Pipelines
Versions == 0..MaxVersion
Stages == {"none", "ingest", "sentiment", "insights", "intents", "warming", "ready"}
RunStates == [stage : Stages, done : 0..MaxConvs, total : 0..MaxConvs]

ASSUME CacheAssumption ==
  /\ Len(KeyOrder) \in Nat \ {0} /\ DOMAIN KeyOrder = 1..Len(KeyOrder) /\ ListKey \in AgentKeys
  /\ MaxConvs \in Nat /\ MaxVersion \in Nat /\ MaxFaults \in Nat
  /\ Children \cap Pipelines = {} /\ Procs \cap Readers = {}
  /\ Absent \notin AgentKeys /\ Absent \notin Procs /\ Absent \notin Versions /\ Absent \notin RunStates

VARIABLES
  cast,      \* the processes and requests that act
  version,   \* of the agent's data in the database
  count,     \* its conversations
  cache,     \* cache[k] : the version the payload of k was built from, or Absent
  warmLock,      \* cache:warming:<agent> : the child it was taken for, or Absent
  run,       \* scheduler:run:<agent> : [stage, done, total]
  todo,      \* todo[p] : the steps process p has still to take
  val,       \* val[p] : the payload process or request p has built
  blob,      \* blob[p] : the run state p has read and will write back merged
  reading,   \* reading[r] : the key request r has missed, or Absent
  doomed,    \* keys the purge has still to delete
  faults,
  \* history
  purgedAt,  \* the version the last purge left in the database
  raced,     \* keys whose DELETE met an older payload on its way, or failed
  unlocked   \* children whose lock was deleted or expired under them

dataVars == <<cast, version, count, purgedAt>>
cacheVars == <<cast, version, count, cache, warmLock, run, todo, val, blob, reading, doomed, faults,
               purgedAt, raced, unlocked>>

-------------------------------------------------------------------------------
(* What the processes do, as lists of steps *)

Build(k) == [do |-> "build", key |-> k]
Store(k) == [do |-> "store", key |-> k]
Read == [do |-> "read"]
\* set_pipeline_run_state with a stage, with cache_done and cache_total, or both.
Stage(s) == [do |-> "stage", stage |-> s]
Progress(d, t) == [do |-> "progress", done |-> d, total |-> t]
Update(s, d, t) == [do |-> "update", stage |-> s, done |-> d, total |-> t]
\* The loop over n conversations.
Conversations(n) == [do |-> "conversations", total |-> n]
Popen == [do |-> "spawn"]
IngestAll == [do |-> "ingest"]
Unlock == [do |-> "release"]

\* The conversations one after the other, with the run state before, between
\* and after, and the warming lock deleted at the end.
WarmConversations(total) ==
  LET last == 2 * total + 5 IN
  [i \in 1..last |->
     CASE i = 2 -> Update("warming", 0, total)
       [] i = last - 1 -> Update("ready", total, total)
       [] i = last -> Unlock
       [] i < last /\ i % 2 = 1 -> Read
       [] i \in 4..(last - 2) /\ i % 2 = 0 -> Progress((i - 2) \div 2, total)]

\* warm_agent_cache; the loop learns how many conversations there are when the
\* list is built.
Warm ==
  LET keys == Len(KeyOrder) IN
  [i \in 1..(2 * keys + 1) |->
     CASE i > 2 * keys -> Conversations(0)
       [] i <= 2 * keys /\ i % 2 = 1 -> Build(KeyOrder[(i + 1) \div 2])
       [] i <= 2 * keys /\ i % 2 = 0 -> Store(KeyOrder[i \div 2])]

\* trigger_background_warm_if_needed once it has the lock, and the child.
ChildSteps == <<Read, Update("warming", 0, 0), Popen>> \o Warm

\* run_pipeline as far as the cache is concerned.
PipelineSteps ==
  <<Read, Update("ingest", 0, 0), IngestAll, Read, Stage("sentiment"), Read, Stage("insights"),
    Read, Stage("intents"), Read, Stage("warming")>> \o Warm \o <<Read, Stage("ready")>>

Steps ==
  {Build(k) : k \in AgentKeys} \cup {Store(k) : k \in AgentKeys} \cup {Stage(s) : s \in Stages}
    \cup {Progress(d, t) : d, t \in 0..MaxConvs}
    \cup {Update(s, d, t) : s \in Stages, d, t \in 0..MaxConvs}
    \cup {Conversations(n) : n \in 0..MaxConvs}
    \cup {Read, Popen, IngestAll, Unlock}

\* The variables have their types, and a request holds a payload only for a key.
CacheTypeOK ==
  /\ cast \in Casts /\ version \in Versions /\ purgedAt \in Versions /\ count \in 0..MaxConvs
  /\ cache \in [AgentKeys -> Versions \cup {Absent}]
  /\ warmLock \in Children \cup {Absent}
  /\ run \in RunStates
  /\ todo \in [Procs -> Seq(Steps)]
  /\ val \in [Procs \cup Readers -> Versions \cup {Absent}]
  /\ blob \in [Procs -> RunStates \cup {Absent}]
  /\ reading \in [Readers -> AgentKeys \cup {Absent}]
  /\ \A r \in Readers : (reading[r] = Absent) <=> (val[r] = Absent)
  /\ doomed \subseteq AgentKeys /\ raced \subseteq AgentKeys /\ unlocked \subseteq Children
  /\ faults \in 0..MaxFaults

CacheInit ==
  /\ cast \in Casts
  /\ version = 0 /\ purgedAt = 0 /\ count = 0
  /\ cache = [k \in AgentKeys |-> Absent]
  /\ warmLock = Absent
  /\ run = [stage |-> "none", done |-> 0, total |-> 0]
  /\ todo = [p \in Procs |-> <<>>]
  /\ val = [p \in Procs \cup Readers |-> Absent]
  /\ blob = [p \in Procs |-> Absent]
  /\ reading = [r \in Readers |-> Absent]
  /\ doomed = {} /\ raced = {} /\ unlocked = {}
  /\ faults = 0
-------------------------------------------------------------------------------
(* Steps of a process *)

Alive(p) == todo[p] # <<>>
Next1(p, name) == Alive(p) /\ Head(todo[p]).do = name
Step(p) == todo' = [todo EXCEPT ![p] = Tail(@)]

\* A payload for k, built before the purge, that is still to be stored.
OnItsWay(k) ==
  \/ \E r \in Readers : reading[r] = k /\ val[r] < purgedAt
  \/ \E p \in Procs : Next1(p, "store") /\ Head(todo[p]).key = k /\ val[p] < purgedAt

\* The loop over the conversations is over those of the list.
Counted(steps) ==
  [i \in DOMAIN steps |-> IF steps[i].do = "conversations" THEN Conversations(count) ELSE steps[i]]

\* A builder of cache_builders.py.
BuildPayload(p) ==
  /\ Next1(p, "build")
  /\ val' = [val EXCEPT ![p] = version]
  /\ \/ Head(todo[p]).key # ListKey /\ Step(p)
     \/ Head(todo[p]).key = ListKey /\ todo' = [todo EXCEPT ![p] = Counted(Tail(@))]
  /\ UNCHANGED <<dataVars, cache, warmLock, run, blob, reading, doomed, faults, raced, unlocked>>

StorePayload(p) ==
  /\ Next1(p, "store")
  /\ cache' = [cache EXCEPT ![Head(todo[p]).key] = val[p]]
  /\ val' = [val EXCEPT ![p] = Absent]
  /\ Step(p)
  /\ UNCHANGED <<dataVars, warmLock, run, blob, reading, doomed, faults, raced, unlocked>>

\* The loop of warm_agent_cache begins.
PlanConversations(p) ==
  /\ Next1(p, "conversations")
  /\ todo' = [todo EXCEPT ![p] = WarmConversations(Head(@).total) \o Tail(@)]
  /\ UNCHANGED <<dataVars, cache, warmLock, run, val, blob, reading, doomed, faults, raced, unlocked>>

\* The GET of set_pipeline_run_state.
ReadRunState(p) ==
  /\ Next1(p, "read")
  /\ blob' = [blob EXCEPT ![p] = run]
  /\ Step(p)
  /\ UNCHANGED <<dataVars, cache, warmLock, run, val, reading, doomed, faults, raced, unlocked>>

\* Mutant: the total is written with the stage, and cache_done alone in the loop.
MergedDoneOnly(s, state) ==
  CASE s.do = "stage" -> [state EXCEPT !.stage = s.stage]
    [] s.do = "progress" -> [state EXCEPT !.done = s.done]
    [] s.do = "update" -> [stage |-> s.stage, done |-> s.done, total |-> s.total]

\* state.update(fields): the run state with the fields of step s.
Merged(s, state) ==
  CASE s.do = "stage" -> [state EXCEPT !.stage = s.stage]
    [] s.do = "progress" -> [state EXCEPT !.done = s.done, !.total = s.total]
    [] s.do = "update" -> [stage |-> s.stage, done |-> s.done, total |-> s.total]

\* Its SETEX: the blob as it was read, merged with the fields of this call.
WriteRunState(p) ==
  /\ Next1(p, "stage") \/ Next1(p, "progress") \/ Next1(p, "update")
  /\ run' = Merged(Head(todo[p]), blob[p])
  /\ blob' = [blob EXCEPT ![p] = Absent]
  /\ Step(p)
  /\ UNCHANGED <<dataVars, cache, warmLock, val, reading, doomed, faults, raced, unlocked>>

\* p is done with the lock; another child that lives may lose it.
Dispossess(p) == unlocked' = (unlocked \ {p}) \cup {c \in Children \ {p} : c = warmLock /\ Alive(c)}

\* The lock is deleted whoever it was taken for.
ReleaseWarmLock(p) ==
  /\ Next1(p, "release")
  /\ warmLock' = Absent
  /\ Dispossess(p)
  /\ Step(p)
  /\ UNCHANGED <<dataVars, cache, run, val, blob, reading, doomed, faults, raced>>

SpawnChild(p) ==
  /\ Next1(p, "spawn")
  /\ Step(p)
  /\ UNCHANGED <<dataVars, cache, warmLock, run, val, blob, reading, doomed, faults, raced, unlocked>>

\* A full or incremental ingest, with the insights that follow it.
Ingest(p) ==
  /\ Next1(p, "ingest")
  /\ \/ /\ version < MaxVersion
        /\ version' = version + 1
        /\ count' \in {count, count + 1} \cap (0..MaxConvs)
     \/ UNCHANGED <<version, count>>
  /\ Step(p)
  /\ UNCHANGED <<cast, cache, warmLock, run, val, blob, reading, doomed, faults, purgedAt, raced, unlocked>>

ProcStep(p) ==
  \/ BuildPayload(p) \/ StorePayload(p) \/ PlanConversations(p)
  \/ ReadRunState(p) \/ WriteRunState(p) \/ ReleaseWarmLock(p)
  \/ SpawnChild(p) \/ Ingest(p)
-------------------------------------------------------------------------------
(* Starts, failures and the other actors *)

StartPipeline(p) ==
  /\ ~Alive(p) /\ version < MaxVersion
  /\ todo' = [todo EXCEPT ![p] = PipelineSteps]
  /\ UNCHANGED <<dataVars, cache, warmLock, run, val, blob, reading, doomed, faults, raced, unlocked>>

Ready == \A k \in AgentKeys : cache[k] # Absent

\* Mutant: the lock is set without NX, after a look at the keys only.
TriggerWarmAlways(p) ==
  /\ ~Alive(p) /\ ~Ready
  /\ warmLock' = p
  /\ todo' = [todo EXCEPT ![p] = ChildSteps]
  /\ UNCHANGED <<dataVars, cache, run, val, blob, reading, doomed, faults, raced, unlocked>>

\* The status page finds keys missing and takes the warming lock (SET NX); that
\* it looks at the keys one by one before is not modelled.
TriggerWarm(p) ==
  /\ ~Alive(p) /\ ~Ready /\ warmLock = Absent
  /\ warmLock' = p
  /\ todo' = [todo EXCEPT ![p] = ChildSteps]
  /\ UNCHANGED <<dataVars, cache, run, val, blob, reading, doomed, faults, raced, unlocked>>

SpawnChildFails(p) ==
  /\ Next1(p, "spawn") /\ faults < MaxFaults
  /\ warmLock' = Absent
  /\ todo' = [todo EXCEPT ![p] = <<>>]
  /\ faults' = faults + 1
  /\ Dispossess(p)
  /\ UNCHANGED <<dataVars, cache, run, val, blob, reading, doomed, raced>>

\* A process is killed, or the database raises in it.
ProcDies(p) ==
  /\ Alive(p) /\ faults < MaxFaults
  /\ todo' = [todo EXCEPT ![p] = <<>>]
  /\ val' = [val EXCEPT ![p] = Absent] /\ blob' = [blob EXCEPT ![p] = Absent]
  /\ faults' = faults + 1
  /\ unlocked' = unlocked \ {p}
  /\ UNCHANGED <<dataVars, cache, warmLock, run, reading, doomed, raced>>

\* Mutant: the lock is taken without a TTL.
ExpireWarmLockNever ==
  /\ warmLock # Absent /\ warmLock = Absent
  /\ UNCHANGED cacheVars

\* WARMING_LOCK_TTL_SECONDS pass, whether the warm is still going on or not.
ExpireWarmLock ==
  /\ warmLock # Absent
  /\ warmLock' = Absent
  /\ unlocked' = IF Alive(warmLock) THEN unlocked \cup {warmLock} ELSE unlocked
  /\ UNCHANGED <<dataVars, cache, run, todo, val, blob, reading, doomed, faults, raced>>

\* cache_ttl_seconds pass.
ExpireKey(k) ==
  /\ cache[k] # Absent /\ faults < MaxFaults
  /\ cache' = [cache EXCEPT ![k] = Absent]
  /\ faults' = faults + 1
  /\ UNCHANGED <<dataVars, warmLock, run, todo, val, blob, reading, doomed, raced, unlocked>>

\* get_or_compute: a miss, and the payload built from the database.
Miss(r, k) ==
  /\ reading[r] = Absent /\ cache[k] = Absent
  /\ reading' = [reading EXCEPT ![r] = k]
  /\ val' = [val EXCEPT ![r] = version]
  /\ UNCHANGED <<dataVars, cache, warmLock, run, todo, blob, doomed, faults, raced, unlocked>>

\* ... stored, whatever the key holds by now.
StoreRead(r) ==
  /\ reading[r] # Absent
  /\ cache' = [cache EXCEPT ![reading[r]] = val[r]]
  /\ reading' = [reading EXCEPT ![r] = Absent]
  /\ val' = [val EXCEPT ![r] = Absent]
  /\ UNCHANGED <<dataVars, warmLock, run, todo, blob, doomed, faults, raced, unlocked>>

\* Mutant: only the keys of the insights are deleted.
PurgeRowsKeepingList ==
  /\ doomed = {} /\ version < MaxVersion
  /\ version' = version + 1 /\ count' = 0 /\ purgedAt' = version'
  /\ doomed' = AgentKeys \ {ListKey}
  /\ UNCHANGED <<cast, cache, warmLock, run, todo, val, blob, reading, faults, raced, unlocked>>

\* purge_conversations and purge_insights commit; the keys go afterwards.
PurgeRows ==
  /\ doomed = {} /\ version < MaxVersion
  /\ version' = version + 1 /\ count' = 0 /\ purgedAt' = version'
  /\ doomed' = AgentKeys
  /\ UNCHANGED <<cast, cache, warmLock, run, todo, val, blob, reading, faults, raced, unlocked>>

\* clear_agent_cache, key by key; the keys of the conversations stay.
DeleteKey(k) ==
  /\ k \in doomed
  /\ doomed' = doomed \ {k}
  /\ cache' = [cache EXCEPT ![k] = Absent]
  /\ raced' = IF OnItsWay(k) THEN raced \cup {k} ELSE raced \ {k}
  /\ UNCHANGED <<dataVars, warmLock, run, todo, val, blob, reading, faults, unlocked>>

\* Errors of Redis are swallowed: keys the purge was to delete may stay.
KeysStay(K) ==
  /\ K # {} /\ faults < MaxFaults
  /\ doomed' = doomed \ K
  /\ raced' = raced \cup K
  /\ faults' = faults + 1
  /\ UNCHANGED <<dataVars, cache, warmLock, run, todo, val, blob, reading, unlocked>>

CacheNext ==
  \/ \E p \in Procs : ProcStep(p) \/ ProcDies(p)
  \/ \E p \in Pipelines \cap cast : StartPipeline(p)
  \/ \E p \in Children \cap cast : TriggerWarm(p) \/ SpawnChildFails(p)
  \/ ExpireWarmLock
  \/ \E k \in AgentKeys : ExpireKey(k)
  \/ \E r \in Readers \cap cast : StoreRead(r) \/ \E k \in AgentKeys : Miss(r, k)
  \/ PurgeRows
  \/ \E k \in AgentKeys : DeleteKey(k)
  \/ \E K \in SUBSET doomed : KeysStay(K)

\* Processes run on, Redis drops the lock at its TTL, the status page is open
\* somewhere and asks again and again.
CacheFairness ==
  /\ \A p \in Procs : WF_cacheVars(ProcStep(p))
  /\ WF_cacheVars(ExpireWarmLock)
  /\ WF_cacheVars(\E p \in Children \cap cast : TriggerWarm(p))
  /\ WF_cacheVars(\E k \in AgentKeys : DeleteKey(k))

CacheSpec == CacheInit /\ [][CacheNext]_cacheVars /\ CacheFairness
-------------------------------------------------------------------------------
(* Properties *)

\* After a purge no key of the agent holds a payload from before it, unless the
\* payload was already built and on its way when the key was deleted, or Redis
\* failed to delete it.
PurgedStaysGone ==
  \A k \in AgentKeys \ doomed :
    cache[k] # Absent /\ cache[k] < purgedAt => k \in raced

\* The status page starts a second warm process while one lives only if the
\* lock expired or was deleted under that one.
OneWarmer ==
  \A p, q \in Children : p # q /\ Alive(p) /\ Alive(q) => {p, q} \cap unlocked # {}

\* However the read-merge-write cycles of several processes interleave and
\* updates are lost, the progress bar never shows more than its total.
ProgressBounded == run.done <= run.total

\* While the status page is open the agent's keys are all present again and
\* again, whatever warm processes die and whenever keys are deleted.
DashboardBecomesReady == cast \cap Children # {} => []<>Ready
===============================================================================
