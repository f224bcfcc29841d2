----------------------------- MODULE JobAdmission -----------------------------
(***************************************************************************)
(* Admission of jobs: admit_and_create (app/services/job_concurrency.py)   *)
(* under the Redis mutex job_admission_lock (app/locks.py).                *)
(*                                                                         *)
(* An element of Jobs is a caller of admit_and_create and the row it       *)
(* creates.  A caller first polls can_start_job outside the mutex, then    *)
(* takes the mutex, counts again and inserts the row with status           *)
(* "running".  can_start_job is four SELECT COUNT statements, one per      *)
(* job table, and a fifth one for the agent; other sessions commit between *)
(* them (Postgres READ COMMITTED), so each one is a step here.             *)
(***************************************************************************)
EXTENDS Integers, FiniteSets, Sequences

CONSTANTS
  Jobs,         \* callers of admit_and_create
  KindOrder,    \* the job kinds, in the order can_start_job counts them
  KindOf,       \* KindOf[j] : kind of job j
  AgentOf,      \* AgentOf[j] : agent of job j
  NoWait,       \* callers that pass wait_for_slot=False
  MaxTotal, MaxKind, MaxPerAgent,   \* the max_concurrent_* settings
  Faults,       \* which of FaultKinds can happen
  Free,         \* the admission key does not exist
  Stray         \* the key holds a token that no caller will present again

\* "redis"   a Redis call raises (before or after the server executed it)
\* "timeout" the 30 s of polling for the mutex pass
\* "expiry"  the 30 s TTL ends while the holder is still inside the block
\* "db"      a database statement raises
\* "crash"   the pipeline process of an agent is killed
FaultKinds == {"redis", "timeout", "expiry", "db", "crash"}

Kinds == {KindOrder[i] : i \in 1..Len(KindOrder)}
Agents == {AgentOf[j] : j \in Jobs}

ASSUME JobsAssumption ==
  /\ IsFiniteSet(Jobs)
  /\ Free \notin Jobs /\ Stray \notin Jobs /\ Free # Stray
  /\ NoWait \subseteq Jobs
ASSUME KindsAssumption ==
  /\ KindOrder \in Seq(Kinds)
  /\ KindOf \in [Jobs -> Kinds]
ASSUME LimitsAssumption ==
  /\ MaxTotal \in Nat
  /\ MaxKind \in [Kinds -> Nat]
  /\ MaxPerAgent \in [Kinds -> Nat]
ASSUME FaultsAssumption == Faults \subseteq FaultKinds

VARIABLES
  running,   \* the rows with status "running"
  covered,   \* history: those inserted while the mutex held the caller's token
  mutex,     \* value of the Redis key job:admission: a caller's token, Free or Stray
  pc,        \* where each caller is
  counted,   \* how many kinds its current can_start_job has counted
  seen,      \* the running rows those counts have counted
  clock      \* deadlines that have passed: 1 admit_and_create's, 2 also wait_for_job_slot's

vars == <<running, covered, mutex, pc, counted, seen, clock>>

InBlock == {"checking", "inserting", "admitted", "refused", "raising"}
InCall == InBlock \cup {"polling", "locking"}
Locations == InCall \cup {"idle", "working"}

Pool == INSTANCE SlotPool WITH running <- running, KindOf <- KindOf, AgentOf <- AgentOf

\* The variables have their types, and no caller takes counts from one
\* can_start_job into the next.
TypeOK ==
  /\ running \subseteq Jobs
  /\ covered \subseteq running
  /\ mutex \in Jobs \cup {Free, Stray}
  /\ pc \in [Jobs -> Locations]
  /\ counted \in [Jobs -> 0..Len(KindOrder)]
  /\ seen \in [Jobs -> SUBSET Jobs]
  /\ clock \in [Jobs -> 0..2]
  /\ \A j \in Jobs :
       /\ pc[j] \in {"idle", "locking", "working"} => counted[j] = 0
       /\ counted[j] = 0 => seen[j] = {}

Init ==
  /\ running = {} /\ covered = {}
  /\ mutex = Free
  /\ pc = [j \in Jobs |-> "idle"]
  /\ counted = [j \in Jobs |-> 0]
  /\ seen = [j \in Jobs |-> {}]
  /\ clock = [j \in Jobs |-> 0]
-------------------------------------------------------------------------------
(* Helpers *)

Go(j, to) == pc' = [pc EXCEPT ![j] = to]

\* A fresh can_start_job: nothing counted yet.
StartCounting(j) ==
  /\ counted' = [counted EXCEPT ![j] = 0]
  /\ seen' = [seen EXCEPT ![j] = {}]

CountsDone(j) == counted[j] = Len(KindOrder)

\* Mutant: the limits themselves count as free slots.
CanStartOffByOne(j) ==
  LET k == KindOf[j] IN
  /\ Cardinality(seen[j]) <= MaxTotal
  /\ Cardinality(Pool!OfKind(seen[j], k)) <= MaxKind[k]
  /\ Cardinality(Pool!OfAgent(Pool!OfKind(running, k), AgentOf[j])) <= MaxPerAgent[k]

\* The verdict of can_start_job.  The total and the kind's count come from
\* the earlier SELECTs; the agent's count is read last, from the live table.
CanStart(j) ==
  LET k == KindOf[j] IN
  /\ Cardinality(seen[j]) < MaxTotal
  /\ Cardinality(Pool!OfKind(seen[j], k)) < MaxKind[k]
  /\ Cardinality(Pool!OfAgent(Pool!OfKind(running, k), AgentOf[j])) < MaxPerAgent[k]
-------------------------------------------------------------------------------
(* The caller: admit_and_create *)

Call(j) ==
  /\ pc[j] = "idle" /\ j \notin running
  /\ Go(j, IF j \in NoWait THEN "locking" ELSE "polling")
  /\ StartCounting(j)
  /\ clock' = [clock EXCEPT ![j] = 0]
  /\ UNCHANGED <<running, covered, mutex>>

\* Mutant: the wait has no deadline at the head of its loop.
CountKindForEver(j) ==
  /\ pc[j] \in {"polling", "checking"}
  /\ counted[j] < Len(KindOrder)
  /\ seen' = [seen EXCEPT ![j] = @ \cup Pool!OfKind(running, KindOrder[counted[j] + 1])]
  /\ counted' = [counted EXCEPT ![j] = @ + 1]
  /\ UNCHANGED <<running, covered, mutex, pc, clock>>

\* One SELECT COUNT of can_start_job, in wait_for_job_slot or in the block.
CountKind(j) ==
  /\ \/ pc[j] = "polling" /\ (counted[j] = 0 => clock[j] < 2)
     \/ pc[j] = "checking"
  /\ counted[j] < Len(KindOrder)
  /\ seen' = [seen EXCEPT ![j] = @ \cup Pool!OfKind(running, KindOrder[counted[j] + 1])]
  /\ counted' = [counted EXCEPT ![j] = @ + 1]
  /\ UNCHANGED <<running, covered, mutex, pc, clock>>

\* Mutant: the slot seen by the wait is used without the mutex.
SlotSeenInserts(j) ==
  /\ pc[j] = "polling" /\ CountsDone(j) /\ CanStart(j)
  /\ Go(j, "inserting")
  /\ StartCounting(j)
  /\ UNCHANGED <<running, covered, mutex, clock>>

\* wait_for_job_slot returns.
SlotSeen(j) ==
  /\ pc[j] = "polling" /\ CountsDone(j) /\ CanStart(j)
  /\ Go(j, "locking")
  /\ StartCounting(j)
  /\ UNCHANGED <<running, covered, mutex, clock>>

\* No slot: rollback, sleep, next round.
SlotTaken(j) ==
  /\ pc[j] = "polling" /\ CountsDone(j) /\ ~CanStart(j)
  /\ StartCounting(j)
  /\ UNCHANGED <<running, covered, mutex, pc, clock>>

\* The deadline of wait_for_job_slot is tested at the head of its loop.
WaitTimesOut(j) ==
  /\ pc[j] = "polling" /\ counted[j] = 0 /\ clock[j] = 2
  /\ Go(j, "idle")
  /\ UNCHANGED <<running, covered, mutex, counted, seen, clock>>

\* SET job:admission token NX EX 30.
AcquireMutex(j) ==
  /\ pc[j] = "locking" /\ mutex = Free
  /\ mutex' = j
  /\ Go(j, "checking")
  /\ UNCHANGED <<running, covered, counted, seen, clock>>

\* The block is entered with acquired = False.  admit_and_create ignores the
\* value job_admission_lock yields.  A SET whose reply was lost leaves a token
\* behind that nobody releases.
ProceedWithoutMutex(j) ==
  /\ pc[j] = "locking"
  /\ \/ "timeout" \in Faults /\ UNCHANGED mutex
     \/ "redis" \in Faults /\ UNCHANGED mutex
     \/ "redis" \in Faults /\ mutex = Free /\ mutex' = Stray
  /\ Go(j, "checking")
  /\ UNCHANGED <<running, covered, counted, seen, clock>>

\* Mutant: no second look at the limits under the mutex.
AdmitUnchecked(j) ==
  /\ pc[j] = "checking" /\ CountsDone(j)
  /\ Go(j, "inserting")
  /\ UNCHANGED <<running, covered, mutex, counted, seen, clock>>

Admit(j) ==
  /\ pc[j] = "checking" /\ CountsDone(j) /\ CanStart(j)
  /\ Go(j, "inserting")
  /\ UNCHANGED <<running, covered, mutex, counted, seen, clock>>

Refuse(j) ==
  /\ pc[j] = "checking" /\ CountsDone(j) /\ ~CanStart(j)
  /\ Go(j, "refused")
  /\ UNCHANGED <<running, covered, mutex, counted, seen, clock>>

\* persist_fn commits the row.
Insert(j) ==
  /\ pc[j] = "inserting"
  /\ running' = running \cup {j}
  /\ covered' = IF mutex = j THEN covered \cup {j} ELSE covered
  /\ Go(j, "admitted")
  /\ UNCHANGED <<mutex, counted, seen, clock>>

\* A database statement raises: the exception leaves the block, if any.
DatabaseError(j) ==
  /\ "db" \in Faults
  /\ \/ pc[j] \in {"checking", "inserting"} /\ Go(j, "raising")
     \/ pc[j] = "polling" /\ Go(j, "idle")
  /\ StartCounting(j)
  /\ UNCHANGED <<running, covered, mutex, clock>>

AfterBlock(j) ==
  CASE pc[j] = "admitted" -> "working"
    [] pc[j] = "raising" -> "idle"
    [] pc[j] = "refused" ->
         IF j \in NoWait \/ clock[j] > 0 THEN "idle" ELSE "polling"

\* Mutant: a plain DEL, as in release_agent_job_lock.
LeaveDeleting(j) ==
  /\ pc[j] \in {"admitted", "refused", "raising"}
  /\ mutex' = Free
  /\ Go(j, AfterBlock(j))
  /\ StartCounting(j)
  /\ UNCHANGED <<running, covered, clock>>

\* Mutant: the next round starts from the counts of this one.
LeaveKeepingCounts(j) ==
  /\ pc[j] \in {"admitted", "refused", "raising"}
  /\ mutex' = IF mutex = j THEN Free ELSE mutex
  /\ Go(j, AfterBlock(j))
  /\ UNCHANGED <<running, covered, counted, seen, clock>>

\* The compare-and-delete that ends the block.  A caller without the mutex
\* does not try it, and its token is not in the key: the same effect.
Leave(j) ==
  /\ pc[j] \in {"admitted", "refused", "raising"}
  /\ \/ mutex' = IF mutex = j THEN Free ELSE mutex
     \/ "redis" \in Faults /\ mutex' = IF mutex = j THEN Stray ELSE mutex
  /\ Go(j, AfterBlock(j))
  /\ StartCounting(j)
  /\ UNCHANGED <<running, covered, clock>>
-------------------------------------------------------------------------------
(* The environment of a caller *)

\* run_job ends: the row leaves status "running".
EndJob(j) ==
  /\ pc[j] = "working"
  /\ running' = running \ {j}
  /\ covered' = covered \ {j}
  /\ Go(j, "idle")
  /\ UNCHANGED <<mutex, counted, seen, clock>>

\* cancel_job closes the row while its worker goes on.
CancelRow(j) ==
  /\ j \in running
  /\ running' = running \ {j}
  /\ covered' = covered \ {j}
  /\ UNCHANGED <<mutex, pc, counted, seen, clock>>

FailOrphanedJobs(a) ==
  /\ Pool!OfAgent(running, a) # {}
  /\ running' = running \ Pool!OfAgent(running, a)
  /\ covered' = covered \ Pool!OfAgent(covered, a)
  /\ UNCHANGED <<mutex, pc, counted, seen, clock>>

\* Time: first the deadline of the outer loop, then the later one of the wait.
DeadlinePasses(j) ==
  /\ pc[j] \in InCall /\ j \notin NoWait /\ clock[j] < 2
  /\ clock' = [clock EXCEPT ![j] = @ + 1]
  /\ UNCHANGED <<running, covered, mutex, pc, counted, seen>>

\* Mutant: SET without EX, a lost token stays for ever.
ExpireMutexNever ==
  /\ mutex \in Jobs /\ "expiry" \in Faults
  /\ mutex' = Free
  /\ UNCHANGED <<running, covered, pc, counted, seen, clock>>

\* Redis drops the key 30 s after the SET.
ExpireMutex ==
  /\ \/ mutex = Stray
     \/ mutex \in Jobs /\ "expiry" \in Faults
  /\ mutex' = Free
  /\ UNCHANGED <<running, covered, pc, counted, seen, clock>>

\* The subprocess of one agent is killed: its threads stop where they are, its
\* rows stay "running" and its token stays in the key.
Crash(a) ==
  /\ "crash" \in Faults
  /\ \E j \in Jobs : AgentOf[j] = a /\ pc[j] # "idle"
  /\ pc' = [j \in Jobs |-> IF AgentOf[j] = a THEN "idle" ELSE pc[j]]
  /\ mutex' = IF mutex \in Jobs /\ AgentOf[mutex] = a THEN Stray ELSE mutex
  /\ counted' = [j \in Jobs |-> IF AgentOf[j] = a THEN 0 ELSE counted[j]]
  /\ seen' = [j \in Jobs |-> IF AgentOf[j] = a THEN {} ELSE seen[j]]
  /\ UNCHANGED <<running, covered, clock>>
-------------------------------------------------------------------------------
\* What the thread of caller j does next.
Step(j) ==
  \/ CountKind(j) \/ SlotSeen(j) \/ SlotTaken(j) \/ WaitTimesOut(j)
  \/ AcquireMutex(j) \/ ProceedWithoutMutex(j)
  \/ Admit(j) \/ Refuse(j) \/ Insert(j) \/ Leave(j)

Next ==
  \/ \E j \in Jobs :
       Call(j) \/ Step(j) \/ DatabaseError(j) \/ EndJob(j) \/ CancelRow(j) \/ DeadlinePasses(j)
  \/ \E a \in Agents : FailOrphanedJobs(a) \/ Crash(a)
  \/ ExpireMutex

Spec == Init /\ [][Next]_vars

\* Threads are scheduled, deadlines pass and Redis expires keys.  Nothing obliges
\* a job to end, a row to be cancelled or a caller to call.
Fairness ==
  /\ \A j \in Jobs : WF_vars(Step(j)) /\ WF_vars(DeadlinePasses(j))
  /\ WF_vars(ExpireMutex)

FairSpec == Spec /\ Fairness
-------------------------------------------------------------------------------
(* Properties *)

\* The running rows never exceed a limit.  True as long as every caller enters
\* the block with the mutex and keeps it (job_concurrency.py: "two concurrent
\* creators cannot both observe the same free slot and overshoot the limit").
WithinLimits == Pool!Fits(running)

\* Whatever fails, the rows inserted by callers that did hold the mutex stay
\* within the limits among themselves: every row too many was inserted by a
\* caller that went on without the mutex or lost it to the TTL.
CoveredWithinLimits == Pool!Fits(covered)

\* A caller's token is in the key only while the caller is in the block.
MutexHeldInside == mutex \in Jobs => pc[mutex] \in InBlock

\* The owner of the mutex has seen every covered row of the kinds it counted.
CountsCover ==
  \A j \in Jobs : mutex = j /\ pc[j] = "checking" =>
    \A i \in 1..counted[j] : Pool!OfKind(covered, KindOrder[i]) \subseteq seen[j]

\* When the owner of the mutex decides to insert, its row still fits.
RoomLeft ==
  \A j \in Jobs : mutex = j /\ pc[j] = "inserting" => Pool!Fits(covered \cup {j})

\* The inductive invariant behind CoveredWithinLimits: no step of another
\* caller adds a covered row while the mutex has an owner.
AdmissionInv ==
  TypeOK /\ MutexHeldInside /\ CountsCover /\ RoomLeft /\ CoveredWithinLimits

\* The mutex cannot be missed, nor be lost inside the block.
MutexReliable == Faults \cap {"redis", "timeout", "expiry"} = {}

\* What holds in addition when the mutex is reliable: whoever is in the block
\* owns it, every running row is covered, and a caller has no row before its insert.
ReliableInv ==
  /\ \A j \in Jobs : pc[j] \in InBlock => mutex = j
  /\ covered = running
  /\ \A j \in Jobs : pc[j] \in InCall \ {"admitted"} => j \notin running

\* A token is in the key until its caller has left the block or the TTL ends:
\* no other caller's release deletes it (locks.py: "an expired-then-reacquired
\* lock is never deleted by us").
MutexNotStolen ==
  [][\A j \in Jobs : mutex = j /\ mutex' # j => pc'[j] \notin InBlock \/ pc' = pc]_vars

\* admit_and_create implements the pool of slots.
ImplementsSlotPool == Pool!Spec

\* Every call of admit_and_create returns or raises, even when the slots stay
\* occupied for ever or the holder of the mutex dies.
CallReturns == \A j \in Jobs : []<>(pc[j] \notin InCall)

\* The mutex always comes free again, whoever died or failed to release it.
MutexComesFree == []<>(mutex = Free)
===============================================================================
