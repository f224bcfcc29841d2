------------------------ MODULE PipelineAndPageProofs -------------------------
(***************************************************************************)
(* Theorems about PipelineRun, for any agents, processes, conversations,   *)
(* batches, commands and faults, and about StatusPage, for any agents,     *)
(* loads, clicks and failures: a pipeline and the page that shows it, each *)
(* alone.                                                                  *)
(*                                                                         *)
(* PipelineRun: a row runs only while its thread is at work or has raised  *)
(* (RowsInv), so a stage that is joined without a raise leaves none, and   *)
(* one that raised leads to the cleanup.  An analysis has one job, about   *)
(* all that was imported (ScopeInv), so what is new for it is in a job to  *)
(* come or at work, or given up by the step that ends it (ClaimInv).       *)
(*                                                                         *)
(* StatusPage: what is awaited and every timer belong to a page with an    *)
(* agent selected (Watching); unless the agent was changed while a load    *)
(* was under way, all loads under way are about the selected agent, so     *)
(* that what they bring into the log is too (AboutSelected); and once a    *)
(* page was left with nothing under way, nothing is left that could set a  *)
(* timer again (AtRest).                                                   *)
(***************************************************************************)
EXTENDS PipelineRun, StatusPage, TLAPS

-------------------------------------------------------------------------------
(* PipelineRun *)

\* The jobs that see conversations of S.
Jobs(S) ==
  [at : {"none", "queued", "running", "returned", "raised"},
   row : {"none", "running", "complete", "failed", "cancelled"}, tries : 0..MaxRetries,
   sees : SUBSET S]

-------------------------------------------------------------------------------
(* The operators the actions are made of *)

\* A stage begins with jobs that are queued or none, and the rows that are left
\* without a thread are noted as orphans.
LEMMA EnterFacts ==
  ASSUME TypeOK, NEW r \in Runs, NEW s \in PcValues, NEW list, Enter(r, s, list)
  PROVE  /\ pc' \in [Runs -> PcValues] /\ pc'[r] = s
         /\ job' \in [Runs -> [Batches -> Jobs(stored)]]
         /\ orphan' \in [Agents -> BOOLEAN]
         /\ \A q \in Runs \ {r} : pc'[q] = pc[q] /\ job'[q] = job[q]
         /\ \A b \in Batches : job'[r][b] \in {NoJob, Queued}
         /\ s \in JobStages \ {"ingest"} => job'[r][1] = Queued
         /\ s # "ingest" => \A b \in Batches \ {1} : job'[r][b] = NoJob
         /\ \A a \in Agents : orphan'[a] = (orphan[a] \/ (a = AgentOf[r] /\ LeavesRow(r)))
<1> DEFINE queued(b) ==
             \/ s = "ingest" /\ \E c \in Convs : list[c] = "listed" /\ BatchOf[c] = b
             \/ s \in JobStages \ {"ingest"} /\ b = 1
           fresh == [b \in Batches |-> IF queued(b) THEN Queued ELSE NoJob]
<1>1. /\ pc' = [pc EXCEPT ![r] = s]
      /\ job' = [job EXCEPT ![r] = fresh]
      /\ orphan' = [orphan EXCEPT ![AgentOf[r]] = @ \/ LeavesRow(r)]
  BY DEF Enter
<1>2. NoJob \in Jobs(stored) /\ Queued \in Jobs(stored)
  BY FaultsAssumption DEF NoJob, Queued, Jobs
<1>3. fresh \in [Batches -> Jobs(stored)]
  BY <1>2
<1>4. job \in [Runs -> [Batches -> Jobs(stored)]] /\ pc \in [Runs -> PcValues]
  BY DEF TypeOK, Jobs
<1>5. pc' \in [Runs -> PcValues] /\ pc'[r] = s /\ \A q \in Runs \ {r} : pc'[q] = pc[q]
  BY <1>1, <1>4
<1>6. /\ job' \in [Runs -> [Batches -> Jobs(stored)]]
      /\ job'[r] = fresh /\ \A q \in Runs \ {r} : job'[q] = job[q]
  <2> HIDE DEF fresh
  <2> QED
    BY <1>1, <1>3, <1>4
<1>7. /\ orphan' \in [Agents -> BOOLEAN]
      /\ \A a \in Agents : orphan'[a] = (orphan[a] \/ (a = AgentOf[r] /\ LeavesRow(r)))
  <2>1. AgentOf[r] \in Agents /\ orphan \in [Agents -> BOOLEAN] /\ LeavesRow(r) \in BOOLEAN
    BY AgentsAssumption DEF TypeOK, LeavesRow
  <2> QED
    BY <1>1, <2>1
<1>8. 1 \in Batches
  BY BatchesAssumption
<1> QED
  BY <1>5, <1>6, <1>7, <1>8

\* What Exit leaves of a process: nothing but its rows.
LEMMA ExitFacts ==
  ASSUME TypeOK, NEW r \in Runs, Exit(r)
  PROVE  /\ Enter(r, "idle", entry[r])
         /\ entry' \in [Runs -> [Convs -> {"out", "listed", "skipped", "imported"}]]
         /\ command' \in [Runs -> CommandSet]
         /\ \A q \in Runs \ {r} : entry'[q] = entry[q] /\ command'[q] = command[q]
         /\ \A c \in Convs : entry'[r][c] = "out"
BY DEF Exit, TypeOK, CommandSet

\* The orphans of an agent are failed: its rows no longer run, and nothing else
\* changes in a job.
LEMMA FailOrphanedFacts ==
  ASSUME TypeOK, NEW a \in Agents, FailOrphaned(a)
  PROVE  /\ job' \in [Runs -> [Batches -> Jobs(stored)]]
         /\ orphan' \in [Agents -> BOOLEAN] /\ crashed' \in [Agents -> BOOLEAN]
         /\ ~orphan'[a] /\ ~crashed'[a]
         /\ \A x \in Agents \ {a} : orphan'[x] = orphan[x] /\ crashed'[x] = crashed[x]
         /\ \A q \in Runs : \A b \in Batches :
              /\ job'[q][b].at = job[q][b].at /\ job'[q][b].sees = job[q][b].sees
              /\ job'[q][b].row = "running" => job[q][b].row = "running" /\ AgentOf[q] # a
<1>1. job \in [Runs -> [Batches -> Jobs(stored)]]
  BY DEF TypeOK, Jobs
<1>2. ASSUME NEW q \in Runs, NEW b \in Batches
      PROVE  /\ job'[q][b] \in Jobs(stored)
             /\ job'[q][b].at = job[q][b].at /\ job'[q][b].sees = job[q][b].sees
             /\ job'[q][b].row = "running" => job[q][b].row = "running" /\ AgentOf[q] # a
  <2>1. job[q][b] \in Jobs(stored)
    BY <1>1
  <2>2. job'[q][b] = IF AgentOf[q] = a /\ job[q][b].row = "running"
                     THEN [job[q][b] EXCEPT !.row = "failed"] ELSE job[q][b]
    BY DEF FailOrphaned
  <2> QED
    BY <2>1, <2>2 DEF Jobs
<1>3. job' \in [Runs -> [Batches -> Jobs(stored)]]
  BY <1>2 DEF FailOrphaned
<1>4. /\ orphan' \in [Agents -> BOOLEAN] /\ crashed' \in [Agents -> BOOLEAN]
      /\ ~orphan'[a] /\ ~crashed'[a]
      /\ \A x \in Agents \ {a} : orphan'[x] = orphan[x] /\ crashed'[x] = crashed[x]
  BY DEF FailOrphaned, TypeOK
<1> QED
  BY <1>2, <1>3, <1>4

\* A conversation is stored: all that has not seen it may claim it.
LEMMA StoreFacts ==
  ASSUME TypeOK, NEW c \in Convs, Store(c)
  PROVE  /\ pending' \subseteq Convs /\ stored' = stored \cup {c}
         /\ job' \in [Runs -> [Batches -> Jobs(stored')]]
         /\ todo' \in [Analyses -> SUBSET stored']
         /\ \A s \in Analyses : todo'[s] \subseteq todo[s] \cup {c}
         /\ \A q \in Runs : \A b \in Batches :
              /\ job'[q][b].at = job[q][b].at /\ job'[q][b].row = job[q][b].row
              /\ job'[q][b].sees = job[q][b].sees \ {c}
<1>1. job \in [Runs -> [Batches -> Jobs(stored)]]
  BY DEF TypeOK, Jobs
<1>2. stored' = stored \cup {c} /\ pending' \subseteq Convs
  BY DEF Store, TypeOK
<1>3. ASSUME NEW q \in Runs, NEW b \in Batches
      PROVE  /\ job'[q][b] \in Jobs(stored')
             /\ job'[q][b].at = job[q][b].at /\ job'[q][b].row = job[q][b].row
             /\ job'[q][b].sees = job[q][b].sees \ {c}
  <2>1. job[q][b] \in Jobs(stored)
    BY <1>1
  <2>2. job'[q][b] = [job[q][b] EXCEPT !.sees = @ \ {c}]
    BY DEF Store
  <2> QED
    BY <1>2, <2>1, <2>2 DEF Jobs
<1>4. job' \in [Runs -> [Batches -> Jobs(stored')]]
  BY <1>3 DEF Store
<1>5. /\ todo' \in [Analyses -> SUBSET stored']
      /\ \A s \in Analyses : todo'[s] \subseteq todo[s] \cup {c}
  BY <1>2 DEF Store, TypeOK
<1> QED
  BY <1>2, <1>3, <1>4, <1>5

-------------------------------------------------------------------------------
(* One job *)

\* Job b of process r becomes j, the other jobs stay as they are.
OneJob(r, b, j) ==
  /\ job' \in [Runs -> [Batches -> Jobs(stored)]]
  /\ job'[r][b] = j
  /\ \A q \in Runs : \A d \in Batches : q # r \/ d # b => job'[q][d] = job[q][d]

\* A job that is replaced by a well-formed one is the only one that changes.
LEMMA OneJobFacts ==
  ASSUME TypeOK, NEW r \in Runs, NEW b \in Batches, NEW j \in Jobs(stored),
         job' = [job EXCEPT ![r][b] = j]
  PROVE  OneJob(r, b, j)
<1>1. job \in [Runs -> [Batches -> Jobs(stored)]]
  BY DEF TypeOK, Jobs
<1>2. job' \in [Runs -> [Batches -> Jobs(stored)]]
  BY <1>1
<1> QED
  BY <1>1, <1>2 DEF OneJob

\* A job is about stored conversations, and about those the run imported if any.
LEMMA ScopeFacts ==
  ASSUME TypeOK, ScopeInv, NEW r \in Runs
  PROVE  Scope(r) \subseteq stored /\ (Processed(r) # {} => Scope(r) \subseteq Processed(r))
BY DEF Scope, ScopeInv

\* A job that begins has a running row and is about the scope of its run.
LEMMA CreateFacts ==
  ASSUME TypeOK, ScopeInv, NEW r \in Runs, NEW b \in Batches, Create(r, b)
  PROVE  OneJob(r, b, [at |-> "running", row |-> "running", tries |-> job[r][b].tries,
                       sees |-> Scope(r)])
<1>1. job[r][b] \in Jobs(stored)
  BY DEF TypeOK, Jobs
<1>2. job' = [job EXCEPT ![r][b] = [at |-> "running", row |-> "running",
                                    tries |-> job[r][b].tries, sees |-> Scope(r)]]
  BY <1>1 DEF Create, Jobs
<1> QED
  BY <1>1, <1>2, OneJobFacts, ScopeFacts DEF Jobs

\* A job that ends keeps its count of attempts and sees nothing any more.
LEMMA EndedFacts ==
  ASSUME TypeOK, NEW r \in Runs, NEW b \in Batches, NEW at \in {"returned", "raised"},
         NEW row \in {"complete", "failed", "cancelled"}, Ended(r, b, at, row)
  PROVE  OneJob(r, b, [at |-> at, row |-> row, tries |-> job[r][b].tries, sees |-> {}])
<1>1. job[r][b] \in Jobs(stored)
  BY DEF TypeOK, Jobs
<1>2. job' = [job EXCEPT ![r][b] = [at |-> at, row |-> row,
                                    tries |-> job[r][b].tries, sees |-> {}]]
  BY <1>1 DEF Ended, Jobs
<1> QED
  BY <1>1, <1>2, OneJobFacts DEF Jobs

\* A refused job has raised; its row is as it was.
LEMMA RefuseFacts ==
  ASSUME TypeOK, NEW r \in Runs, NEW b \in Batches, Refuse(r, b)
  PROVE  OneJob(r, b, [job[r][b] EXCEPT !.at = "raised"])
<1>1. job[r][b] \in Jobs(stored)
  BY DEF TypeOK, Jobs
<1>2. job' = [job EXCEPT ![r][b] = [job[r][b] EXCEPT !.at = "raised"]]
  BY <1>1 DEF Refuse, Jobs
<1> QED
  BY <1>1, <1>2, OneJobFacts DEF Jobs

\* A cancelled job goes on: only its row changes.
LEMMA CancelFacts ==
  ASSUME TypeOK, NEW r \in Runs, NEW b \in Batches, Cancel(r, b)
  PROVE  OneJob(r, b, [job[r][b] EXCEPT !.row = "cancelled"])
<1>1. job[r][b] \in Jobs(stored)
  BY DEF TypeOK, Jobs
<1>2. job' = [job EXCEPT ![r][b] = [job[r][b] EXCEPT !.row = "cancelled"]]
  BY <1>1 DEF Cancel, Jobs
<1> QED
  BY <1>1, <1>2, OneJobFacts DEF Jobs

\* An attempt that raises is the last one, or the next one starts afresh.
LEMMA RaiseFacts ==
  ASSUME TypeOK, ScopeInv, NEW r \in Runs, NEW b \in Batches, Raise(r, b)
  PROVE  \E tries \in 0..MaxRetries :
           \/ OneJob(r, b, [at |-> "running", row |-> job[r][b].row, tries |-> tries,
                            sees |-> Scope(r)])
           \/ OneJob(r, b, [at |-> "raised", row |-> job[r][b].row, tries |-> tries,
                            sees |-> {}])
<1>1. job[r][b] \in Jobs(stored) /\ job[r][b].at = "running"
  BY DEF TypeOK, Jobs, Raise
<1>2. PICK tries \in 0..MaxRetries, last \in BOOLEAN :
        job' = [job EXCEPT ![r][b] =
          [at |-> IF last THEN "raised" ELSE "running", row |-> job[r][b].row,
           tries |-> tries, sees |-> IF last THEN {} ELSE Scope(r)]]
  <2> DEFINE retried == pc[r] # "questions" /\ job[r][b].tries < MaxRetries
             t == IF retried THEN job[r][b].tries + 1 ELSE job[r][b].tries
  <2>1. t \in 0..MaxRetries /\ retried \in BOOLEAN
    BY <1>1, FaultsAssumption DEF Jobs
  <2>2. job' = [job EXCEPT ![r][b] =
          [at |-> IF ~retried THEN "raised" ELSE "running", row |-> job[r][b].row,
           tries |-> t, sees |-> IF ~retried THEN {} ELSE Scope(r)]]
    BY <1>1 DEF Raise, Jobs
  <2> QED
    BY <2>1, <2>2
<1>3. [at |-> IF last THEN "raised" ELSE "running", row |-> job[r][b].row,
       tries |-> tries, sees |-> IF last THEN {} ELSE Scope(r)] \in Jobs(stored)
  BY <1>1, <1>2, ScopeFacts DEF Jobs
<1>4. OneJob(r, b, [at |-> IF last THEN "raised" ELSE "running", row |-> job[r][b].row,
                    tries |-> tries, sees |-> IF last THEN {} ELSE Scope(r)])
  BY <1>2, <1>3, OneJobFacts
<1> QED
  BY <1>2, <1>4

-------------------------------------------------------------------------------
(* Type correctness *)

\* The type of the jobs, in terms of Jobs.
LEMMA JobTypes == ASSUME TypeOK PROVE job \in [Runs -> [Batches -> Jobs(stored)]]
BY DEF TypeOK, Jobs

\* The faults stay within their bound.
LEMMA FaultsType == ASSUME TypeOK, NEW kind, MayFail(kind) PROVE faults' \in 0..MaxFaults
BY FaultsAssumption DEF MayFail, TypeOK

\* What an attempt that ends early leaves to an analysis is still stored.
LEMMA PartlyFacts ==
  ASSUME TypeOK, NEW r \in Runs, NEW b \in Batches, Partly(r, b)
  PROVE  /\ todo' \in [Analyses -> SUBSET stored]
         /\ \A s \in Analyses : s # pc[r] => todo'[s] = todo[s]
         /\ \A s \in Analyses : todo'[s] \subseteq todo[s] \cup job[r][b].sees
         /\ pc[r] # "insights" => \A s \in Analyses : todo'[s] \subseteq todo[s]
<1>1. job[r][b].sees \subseteq stored /\ todo \in [Analyses -> SUBSET stored]
  BY JobTypes DEF TypeOK, Jobs
<1>2. CASE pc[r] \in Analyses
  <2>1. PICK S \in SUBSET job[r][b].sees :
          todo' = [todo EXCEPT ![pc[r]] = IF pc[r] = "insights" THEN @ \cup S ELSE @ \ S]
    BY <1>2 DEF Partly
  <2> QED
    BY <1>1, <1>2, <2>1
<1>3. CASE pc[r] \notin Analyses
  BY <1>1, <1>3 DEF Partly
<1> QED
  BY <1>2, <1>3

\* Every step keeps the types.
LEMMA TypeStep ==
  ASSUME TypeOK, ScopeInv, [Next]_vars
  PROVE  TypeOK'
<1> USE DEF Analyses, PcValues, JobStages
<1>1. ASSUME NEW r \in Runs, Acquire(r) PROVE TypeOK'
  BY <1>1, FaultsType, AgentsAssumption DEF Acquire, TypeOK, rows, data
<1>2. ASSUME NEW r \in Runs, Count(r) PROVE TypeOK'
  BY <1>2 DEF Count, TypeOK, rows, data, history
<1>3. ASSUME NEW r \in Runs, Steal(r) PROVE TypeOK'
  BY <1>3, FaultsType, AgentsAssumption DEF Steal, Unlock, TypeOK, rows, data
<1>4. ASSUME NEW r \in Runs, Clear(r) PROVE TypeOK'
  <2>1. FailOrphaned(AgentOf[r]) /\ AgentOf[r] \in Agents
    BY <1>4, AgentsAssumption DEF Clear
  <2> QED
    BY <1>4, <2>1, FailOrphanedFacts DEF Clear, TypeOK, data, Jobs
<1>5. ASSUME NEW r \in Runs, List(r) PROVE TypeOK'
  <2>1. PICK S \in SUBSET Convs, e \in {"listed", "imported"},
             s \in {"intents", "ingest", "warming", "sentiment"} :
          LET list == [c \in Convs |-> IF c \in S THEN e ELSE "out"] IN
          entry' = [entry EXCEPT ![r] = list] /\ Enter(r, s, list)
    BY <1>5 DEF List, ConvsOf
  <2>2. entry' \in [Runs -> [Convs -> {"out", "listed", "skipped", "imported"}]]
    BY <2>1 DEF TypeOK
  <2> QED
    BY <1>5, <2>1, <2>2, EnterFacts DEF List, TypeOK, data, history, Jobs
<1>6. ASSUME NEW r \in Runs, NEW c \in Convs, Ingest(r, c) PROVE TypeOK'
  <2>1. /\ entry' \in [Runs -> [Convs -> {"out", "listed", "skipped", "imported"}]]
        /\ cut' \subseteq Convs
    <3>1. /\ \E e \in {"skipped", "imported"} : entry' = [entry EXCEPT ![r][c] = e]
          /\ cut' \subseteq cut
      BY <1>6 DEF Ingest
    <3> QED
      BY <3>1 DEF TypeOK
  <2>2. Store(c) \/ UNCHANGED <<data, job>>
    BY <1>6 DEF Ingest
  <2> QED
    BY <1>6, <2>1, <2>2, StoreFacts DEF Ingest, TypeOK, data, process, Jobs
<1>7. ASSUME NEW r \in Runs, NEW c \in Convs, FailConversation(r, c) PROVE TypeOK'
  <2>1. /\ entry' \in [Runs -> [Convs -> {"out", "listed", "skipped", "imported"}]]
        /\ cut' \subseteq Convs
    <3>1. /\ entry' = [entry EXCEPT ![r][c] = "skipped"]
          /\ cut' = cut \/ cut' = cut \cup {c}
      BY <1>7 DEF FailConversation
    <3> QED
      BY <3>1 DEF TypeOK
  <2>2. Store(c) \/ UNCHANGED <<data, job>>
    BY <1>7 DEF FailConversation
  <2> QED
    BY <1>7, <2>1, <2>2, StoreFacts, FaultsType DEF FailConversation, TypeOK, data, process, Jobs
<1>8. ASSUME NEW r \in Runs, NEW b \in Batches, Create(r, b) PROVE TypeOK'
  BY <1>8, CreateFacts DEF Create, OneJob, TypeOK, process, data, history, Jobs
<1>9. ASSUME NEW r \in Runs, NEW b \in Batches, Complete(r, b) PROVE TypeOK'
  <2>1. todo' \in [Analyses -> SUBSET stored]
    BY <1>9 DEF Complete, TypeOK
  <2> QED
    BY <1>9, <2>1, EndedFacts DEF Complete, OneJob, TypeOK, process, history, Jobs
<1>10. ASSUME NEW r \in Runs, Advance(r) PROVE TypeOK'
  <2>1. NextStage(r) \in PcValues
    BY <1>10 DEF Advance, NextStage
  <2> QED
    BY <1>10, <2>1, EnterFacts DEF Advance, TypeOK, data, history, Jobs
<1>11. ASSUME NEW r \in Runs, Fail(r), UNCHANGED <<lock, data>>, faults' \in 0..MaxFaults
       PROVE  TypeOK'
  <2>1. cut' \subseteq Convs
    BY <1>11 DEF Fail, GiveUp, Processed, TypeOK
  <2>2. CASE command[r] = "referred-intent"
    <3>1. crashed' \in [Agents -> BOOLEAN]
      <4>1. LeavesRow(r) \in BOOLEAN /\ AgentOf[r] \in Agents
        BY AgentsAssumption DEF LeavesRow
      <4> QED
        BY <1>11, <2>2, <4>1 DEF Fail, TypeOK
    <3> QED
      BY <1>11, <2>1, <2>2, <3>1, ExitFacts, EnterFacts DEF Fail, TypeOK, data, Jobs
  <2>3. CASE command[r] # "referred-intent"
    BY <1>11, <2>1, <2>3 DEF Fail, TypeOK, data, rows
  <2> QED
    BY <2>2, <2>3
<1>12. ASSUME NEW r \in Runs, Warm(r) PROVE TypeOK'
  <2>1. CASE command[r] = "referred-intent"
    BY <1>12, <2>1, ExitFacts, EnterFacts DEF Warm, TypeOK, data, history, Jobs
  <2>2. CASE command[r] # "referred-intent"
    BY <1>12, <2>2 DEF Warm, TypeOK, data, history, rows
  <2> QED
    BY <2>1, <2>2
<1>13. ASSUME NEW r \in Runs, Cleanup(r) PROVE TypeOK'
  <2>1. FailOrphaned(AgentOf[r]) /\ AgentOf[r] \in Agents
    BY <1>13, AgentsAssumption DEF Cleanup
  <2> QED
    BY <1>13, <2>1, FailOrphanedFacts DEF Cleanup, TypeOK, data, Jobs
<1>14. ASSUME NEW r \in Runs, Release(r) PROVE TypeOK'
  <2>1. lock' \in [Agents -> BOOLEAN] /\ faults' \in 0..MaxFaults
    BY <1>14, FaultsType DEF Release, Unlock, TypeOK
  <2> QED
    BY <1>14, <2>1, ExitFacts, EnterFacts DEF Release, TypeOK, data, Jobs
<1>15. ASSUME NEW r \in Runs, NEW b \in Batches, Refuse(r, b) PROVE TypeOK'
  BY <1>15, RefuseFacts, FaultsType DEF Refuse, OneJob, TypeOK, process, data, Jobs
<1>16. ASSUME NEW r \in Runs, NEW b \in Batches, ReturnEarly(r, b), OneJob(r, b, job'[r][b]),
              faults' \in 0..MaxFaults
       PROVE  TypeOK'
  <2>1. todo' \in [Analyses -> SUBSET stored]
    BY <1>16, PartlyFacts DEF ReturnEarly
  <2>2. cut' \subseteq Convs
    BY <1>16 DEF ReturnEarly, TypeOK, Scope, ConvsOf, Processed
  <2> QED
    BY <1>16, <2>1, <2>2 DEF ReturnEarly, OneJob, TypeOK, process, Jobs
<1>17. ASSUME NEW r \in Runs, NEW b \in Batches, FailJob(r, b) PROVE TypeOK'
  <2>1. OneJob(r, b, job'[r][b])
    BY <1>17, EndedFacts DEF FailJob, OneJob
  <2> QED
    BY <1>16, <1>17, <2>1, FaultsType DEF FailJob
<1>18. ASSUME NEW r \in Runs, NEW b \in Batches, NoticeCancel(r, b) PROVE TypeOK'
  <2>1. OneJob(r, b, job'[r][b])
    BY <1>18, EndedFacts DEF NoticeCancel, OneJob
  <2>2. faults' \in 0..MaxFaults
    BY <1>18 DEF NoticeCancel, TypeOK
  <2> QED
    BY <1>16, <1>18, <2>1, <2>2 DEF NoticeCancel
<1>19. ASSUME NEW r \in Runs, NEW b \in Batches, Raise(r, b) PROVE TypeOK'
  <2>1. job' \in [Runs -> [Batches -> Jobs(stored)]]
    BY <1>19, RaiseFacts DEF OneJob
  <2>2. todo' \in [Analyses -> SUBSET stored]
    BY <1>19, PartlyFacts DEF Raise
  <2>3. entry' \in [Runs -> [Convs -> {"out", "listed", "skipped", "imported"}]]
    BY <1>19 DEF Raise, TypeOK
  <2>4. cut' \subseteq Convs
    BY <1>19 DEF Raise, TypeOK, Processed
  <2>5. faults' \in 0..MaxFaults
    BY <1>19, FaultsType DEF Raise
  <2> QED
    BY <1>19, <2>1, <2>2, <2>3, <2>4, <2>5 DEF Raise, TypeOK, process, Jobs
<1>20. ASSUME NEW r \in Runs, NEW b \in Batches, Cancel(r, b) PROVE TypeOK'
  BY <1>20, CancelFacts, FaultsType DEF Cancel, OneJob, TypeOK, process, data, Jobs
<1>21. ASSUME NEW r \in Runs, FailCleanup(r) PROVE TypeOK'
  BY <1>21, FaultsType DEF FailCleanup, TypeOK, data, rows
<1>22. ASSUME NEW r \in Runs, Leak(r) PROVE TypeOK'
  BY <1>22, FaultsType, ExitFacts, EnterFacts DEF Leak, TypeOK, data, Jobs
<1>23. ASSUME NEW r \in Runs, Kill(r) PROVE TypeOK'
  <2>1. cut' \subseteq Convs /\ crashed' \in [Agents -> BOOLEAN]
    BY <1>23 DEF Kill, GiveUp, Processed, TypeOK
  <2> QED
    BY <1>23, <2>1, FaultsType, ExitFacts, EnterFacts DEF Kill, TypeOK, data, Jobs
<1>24. ASSUME NEW r \in Runs, NEW cmd \in CommandSet, Launch(r, cmd) PROVE TypeOK'
  <2>1. command' \in [Runs -> CommandSet]
    BY <1>24 DEF Launch, TypeOK
  <2> QED
    BY <1>24, <2>1, EnterFacts DEF Launch, TypeOK, data, history, rows, Jobs
<1>25. ASSUME NEW c \in Convs, Activity(c) PROVE TypeOK'
  BY <1>25 DEF Activity, TypeOK, process, rows, history
<1>26. ASSUME NEW a \in Agents, Expire(a) PROVE TypeOK'
  BY <1>26, FaultsType DEF Expire, TypeOK, process, rows, data
<1>27. CASE UNCHANGED vars
  BY <1>27 DEF TypeOK, vars, process, rows, data, history
<1>28. ASSUME NEW r \in Runs, Stumble(r) \/ Abort(r) PROVE TypeOK'
  <2>1. Fail(r) /\ UNCHANGED <<lock, data>>
    BY <1>28 DEF Stumble, Abort
  <2>2. faults' \in 0..MaxFaults
    BY <1>28, FaultsType DEF Stumble, Abort, TypeOK
  <2> QED
    BY <1>11, <2>1, <2>2
<1> QED
  BY <1>1, <1>2, <1>3, <1>4, <1>5, <1>6, <1>7, <1>8, <1>9, <1>10, <1>12, <1>13, <1>14, <1>15,
     <1>17, <1>18, <1>19, <1>20, <1>21, <1>22, <1>23, <1>24, <1>25, <1>26, <1>27, <1>28
  DEF Next, Step, Fault

-------------------------------------------------------------------------------
(* Rows and orphans *)

\* A process outside its stages has a running row only if a cleanup failed.
LEMMA NoRowOutside ==
  ASSUME RowsInv, NEW r \in Runs,
         pc[r] \notin JobStages \cup {"failing", "releasing"}
  PROVE  ~LeavesRow(r)
BY DEF RowsInv, LeavesRow

\* A stage whose threads have ended without raising leaves no running row.
LEMMA NoRowJoined ==
  ASSUME RowsInv, NEW r \in Runs, Joined(r), ~Raised(r)
  PROVE  ~LeavesRow(r)
BY DEF RowsInv, LeavesRow, Joined, Raised

\* A stage that begins has no running row yet.
LEMMA EnterRows ==
  ASSUME TypeOK, RowsInv, NEW r \in Runs, NEW s \in PcValues, NEW list, Enter(r, s, list),
         \A a \in Agents : crashed[a] => crashed'[a]
  PROVE  RowsInv'
<1>1. \A b \in Batches : job'[r][b].row = "none"
  BY EnterFacts DEF NoJob, Queued
<1>2. \A q \in Runs : AgentOf[q] \in Agents
  BY AgentsAssumption
<1> QED
  BY <1>1, <1>2, EnterFacts DEF RowsInv

\* Failing the orphans of a takes the rows with the mark of the failed cleanup.
LEMMA FailOrphanedRows ==
  ASSUME TypeOK, RowsInv, NEW r \in Runs, FailOrphaned(AgentOf[r]),
         \A q \in Runs \ {r} : pc'[q] = pc[q]
  PROVE  RowsInv'
<1>1. \A q \in Runs : AgentOf[q] \in Agents
  BY AgentsAssumption
<1> QED
  BY <1>1, FailOrphanedFacts DEF RowsInv

\* A change of one job keeps RowsInv when the row does not run or works.
LEMMA OneJobRows ==
  ASSUME RowsInv, NEW r \in Runs, NEW b \in Batches, NEW j, OneJob(r, b, j),
         UNCHANGED <<pc, crashed>>,
         j.row = "running" => pc[r] \in JobStages /\ j.at \in {"running", "raised"}
  PROVE  RowsInv'
BY DEF RowsInv, OneJob

\* A process that goes elsewhere keeps RowsInv when it leaves no running row or
\* is to clean up.
LEMMA MoveRows ==
  ASSUME TypeOK, RowsInv, NEW r \in Runs, NEW s, pc' = [pc EXCEPT ![r] = s],
         UNCHANGED <<job, crashed>>, ~LeavesRow(r) \/ s = "failing"
  PROVE  RowsInv'
<1>1. pc'[r] = s /\ \A q \in Runs \ {r} : pc'[q] = pc[q]
  BY DEF TypeOK
<1>2. \A b \in Batches : job[r][b].row = "running" => s = "failing"
  BY DEF LeavesRow
<1> QED
  BY <1>1, <1>2 DEF RowsInv

\* Every step keeps RowsInv.
LEMMA RowsStep ==
  ASSUME TypeOK, RowsInv, ScopeInv, [Next]_vars
  PROVE  RowsInv'
<1> USE DEF Analyses, PcValues, JobStages
<1>1. ASSUME NEW r \in Runs, Acquire(r) \/ Count(r) \/ Steal(r) PROVE RowsInv'
  <2>1. PICK s \in PcValues : pc' = [pc EXCEPT ![r] = s]
    BY <1>1 DEF Acquire, Count, Steal
  <2>2. ~LeavesRow(r) /\ UNCHANGED <<job, crashed>>
    BY <1>1, NoRowOutside DEF Acquire, Count, Steal, rows, history
  <2> QED
    BY <2>1, <2>2, MoveRows
<1>2. ASSUME NEW r \in Runs, Clear(r) \/ Cleanup(r) PROVE RowsInv'
  BY <1>2, FailOrphanedRows DEF Clear, Cleanup, TypeOK
<1>3. ASSUME NEW r \in Runs, List(r) PROVE RowsInv'
  BY <1>3, EnterRows DEF List, history
<1>4. ASSUME NEW c \in Convs, Store(c) \/ UNCHANGED job, UNCHANGED <<pc, crashed>> PROVE RowsInv'
  BY <1>4, StoreFacts DEF RowsInv
<1>5. ASSUME NEW r \in Runs, NEW b \in Batches, Create(r, b) PROVE RowsInv'
  <2>1. pc[r] \in JobStages /\ UNCHANGED <<pc, crashed>>
    BY <1>5 DEF Create, process, history
  <2> QED
    BY <1>5, <2>1, CreateFacts, OneJobRows
<1>6. ASSUME NEW r \in Runs, NEW b \in Batches,
             Complete(r, b) \/ FailJob(r, b) \/ NoticeCancel(r, b)
      PROVE  RowsInv'
  <2>1. UNCHANGED <<pc, crashed>>
    BY <1>6 DEF Complete, FailJob, NoticeCancel, ReturnEarly, process, history
  <2>2. PICK at \in {"returned", "raised"}, row \in {"complete", "failed", "cancelled"} :
          Ended(r, b, at, row)
    BY <1>6 DEF Complete, FailJob, NoticeCancel
  <2>3. OneJob(r, b, [at |-> at, row |-> row, tries |-> job[r][b].tries, sees |-> {}])
    BY <2>2, EndedFacts
  <2> QED
    BY <2>1, <2>3 DEF RowsInv, OneJob
<1>7. ASSUME NEW r \in Runs, NEW b \in Batches, Refuse(r, b) PROVE RowsInv'
  <2>1. UNCHANGED <<pc, crashed>> /\ job[r][b] \in Jobs(stored) /\ job[r][b].row # "running"
    BY <1>7, JobTypes DEF Refuse, process, RowsInv
  <2>2. OneJob(r, b, [job[r][b] EXCEPT !.at = "raised"])
    BY <1>7, RefuseFacts
  <2>3. [job[r][b] EXCEPT !.at = "raised"].row # "running"
    BY <2>1 DEF Jobs
  <2> QED
    BY <2>1, <2>2, <2>3, OneJobRows
<1>8. ASSUME NEW r \in Runs, NEW b \in Batches, Cancel(r, b) PROVE RowsInv'
  <2>1. UNCHANGED <<pc, crashed>> /\ job[r][b] \in Jobs(stored)
    BY <1>8, JobTypes DEF Cancel, process
  <2> QED
    BY <1>8, <2>1, CancelFacts, OneJobRows DEF Jobs
<1>9. ASSUME NEW r \in Runs, NEW b \in Batches, Raise(r, b) PROVE RowsInv'
  <2>1. UNCHANGED <<pc, crashed>> /\ pc[r] \in JobStages
    BY <1>9 DEF Raise, process
  <2> QED
    BY <1>9, <2>1, RaiseFacts, OneJobRows
<1>10. ASSUME NEW r \in Runs, Advance(r) PROVE RowsInv'
  <2>1. NextStage(r) \in PcValues
    BY <1>10 DEF Advance, NextStage
  <2> QED
    BY <1>10, <2>1, EnterRows DEF Advance, history
<1>11. ASSUME NEW r \in Runs, Fail(r) PROVE RowsInv'
  <2>1. CASE command[r] = "referred-intent"
    <3>1. \A a \in Agents : crashed[a] => crashed'[a]
      BY <1>11, <2>1 DEF Fail, TypeOK
    <3> QED
      BY <1>11, <2>1, <3>1, ExitFacts, EnterRows DEF Fail
  <2>2. CASE command[r] # "referred-intent"
    BY <1>11, <2>2, MoveRows DEF Fail, rows
  <2> QED
    BY <2>1, <2>2
<1>12. ASSUME NEW r \in Runs, Warm(r) PROVE RowsInv'
  <2>1. CASE command[r] = "referred-intent"
    BY <1>12, <2>1, ExitFacts, EnterRows DEF Warm, history
  <2>2. CASE command[r] # "referred-intent"
    BY <1>12, <2>2, NoRowOutside, MoveRows DEF Warm, history, rows
  <2> QED
    BY <2>1, <2>2
<1>13. ASSUME NEW r \in Runs, Release(r) \/ Leak(r) \/ Kill(r) PROVE RowsInv'
  <2>1. \A a \in Agents : crashed[a] => crashed'[a]
    BY <1>13 DEF Release, Leak, Kill, TypeOK
  <2>2. Exit(r)
    BY <1>13 DEF Release, Leak, Kill
  <2> QED
    BY <2>1, <2>2, ExitFacts, EnterRows
<1>14. ASSUME NEW r \in Runs, FailCleanup(r) PROVE RowsInv'
  <2>1. AgentOf[r] \in Agents
    BY AgentsAssumption
  <2> QED
    BY <1>14, <2>1, AgentsAssumption DEF FailCleanup, RowsInv, TypeOK, rows
<1>15. ASSUME NEW r \in Runs, NEW cmd \in CommandSet, Launch(r, cmd) PROVE RowsInv'
  <2>1. CASE cmd = "referred-intent"
    BY <1>15, <2>1, EnterRows DEF Launch, history
  <2>2. CASE cmd # "referred-intent"
    BY <1>15, <2>2, NoRowOutside, MoveRows DEF Launch, history, rows
  <2> QED
    BY <2>1, <2>2
<1>16. CASE UNCHANGED <<pc, job, crashed>>
  BY <1>16 DEF RowsInv
<1>17. ASSUME NEW r \in Runs, NEW c \in Convs, Ingest(r, c) \/ FailConversation(r, c) PROVE RowsInv'
  BY <1>4, <1>17 DEF Ingest, FailConversation, process
<1>18. ASSUME (\E c \in Convs : Activity(c)) \/ (\E a \in Agents : Expire(a)) \/ UNCHANGED vars
       PROVE  RowsInv'
  BY <1>16, <1>18 DEF Activity, Expire, vars, process, rows, history
<1> QED
  BY <1>1, <1>2, <1>3, <1>5, <1>6, <1>7, <1>8, <1>9, <1>10, <1>11, <1>12, <1>13, <1>14, <1>15,
     <1>17, <1>18
  DEF Next, Step, Fault, Stumble, Abort

\* Every step keeps OrphansFromCrashes.
LEMMA OrphansStep ==
  ASSUME TypeOK, RowsInv, OrphansFromCrashes, [Next]_vars
  PROVE  OrphansFromCrashes'
<1> USE DEF Analyses, PcValues, JobStages
<1>1. ASSUME NEW r \in Runs, NEW s \in PcValues, NEW list, Enter(r, s, list),
             \A a \in Agents : crashed[a] => crashed'[a], LeavesRow(r) => crashed'[AgentOf[r]]
      PROVE  OrphansFromCrashes'
  BY <1>1, EnterFacts DEF OrphansFromCrashes
<1>2. ASSUME NEW r \in Runs, Clear(r) \/ Cleanup(r) PROVE OrphansFromCrashes'
  BY <1>2, FailOrphanedFacts, AgentsAssumption DEF Clear, Cleanup, OrphansFromCrashes
<1>3. ASSUME NEW r \in Runs, List(r) PROVE OrphansFromCrashes'
  <2>1. ~LeavesRow(r) /\ crashed' = crashed
    BY <1>3, NoRowOutside DEF List, history
  <2> QED
    BY <1>1, <1>3, <2>1 DEF List
<1>4. ASSUME NEW r \in Runs, Advance(r) PROVE OrphansFromCrashes'
  <2>1. ~LeavesRow(r) /\ crashed' = crashed
    BY <1>4, NoRowJoined DEF Advance, history
  <2>2. NextStage(r) \in PcValues
    BY <1>4 DEF Advance, NextStage
  <2> QED
    BY <1>1, <1>4, <2>1, <2>2 DEF Advance
<1>5. ASSUME NEW r \in Runs, Fail(r) PROVE OrphansFromCrashes'
  <2>1. CASE command[r] = "referred-intent"
    <3>1. AgentOf[r] \in Agents /\ LeavesRow(r) \in BOOLEAN /\ crashed \in [Agents -> BOOLEAN]
      BY AgentsAssumption DEF LeavesRow, TypeOK
    <3>2. crashed' = [crashed EXCEPT ![AgentOf[r]] = @ \/ LeavesRow(r)]
      BY <1>5, <2>1 DEF Fail
    <3>3. /\ \A a \in Agents : crashed[a] => crashed'[a]
          /\ LeavesRow(r) => crashed'[AgentOf[r]]
      BY <3>1, <3>2
    <3>4. Enter(r, "idle", entry[r])
      BY <1>5, <2>1 DEF Fail, Exit
    <3> QED
      BY <1>1, <3>3, <3>4
  <2>2. CASE command[r] # "referred-intent"
    BY <1>5, <2>2 DEF Fail, OrphansFromCrashes, rows
  <2> QED
    BY <2>1, <2>2
<1>6. ASSUME NEW r \in Runs, Warm(r) PROVE OrphansFromCrashes'
  <2>1. CASE command[r] = "referred-intent"
    <3>1. ~LeavesRow(r) /\ crashed' = crashed /\ Enter(r, "idle", entry[r])
      BY <1>6, <2>1, NoRowOutside DEF Warm, history, Exit
    <3> QED
      BY <1>1, <3>1
  <2>2. CASE command[r] # "referred-intent"
    BY <1>6, <2>2 DEF Warm, OrphansFromCrashes, history, rows
  <2> QED
    BY <2>1, <2>2
<1>7. ASSUME NEW r \in Runs, Release(r) PROVE OrphansFromCrashes'
  <2>1. crashed' = crashed /\ Enter(r, "idle", entry[r]) /\ pc[r] = "releasing"
    BY <1>7 DEF Release, Exit
  <2>2. LeavesRow(r) => crashed[AgentOf[r]]
    BY <2>1 DEF RowsInv, LeavesRow
  <2> QED
    BY <1>1, <2>1, <2>2
<1>8. ASSUME NEW r \in Runs, Leak(r) PROVE OrphansFromCrashes'
  <2>1. ~LeavesRow(r) /\ crashed' = crashed /\ Enter(r, "idle", entry[r])
    BY <1>8, NoRowOutside DEF Leak, Exit
  <2> QED
    BY <1>1, <2>1
<1>9. ASSUME NEW r \in Runs, Kill(r) PROVE OrphansFromCrashes'
  <2>1. /\ \A a \in Agents : crashed[a] => crashed'[a]
        /\ crashed'[AgentOf[r]] /\ Enter(r, "idle", entry[r])
    BY <1>9, AgentsAssumption DEF Kill, Exit, TypeOK
  <2> QED
    BY <1>1, <2>1
<1>10. ASSUME NEW r \in Runs, FailCleanup(r) PROVE OrphansFromCrashes'
  BY <1>10 DEF FailCleanup, OrphansFromCrashes, TypeOK, rows
<1>11. ASSUME NEW r \in Runs, NEW cmd \in CommandSet, Launch(r, cmd) PROVE OrphansFromCrashes'
  <2>1. CASE cmd = "referred-intent"
    <3>1. ~LeavesRow(r) /\ crashed' = crashed /\ Enter(r, "intents", entry[r])
      BY <1>11, <2>1, NoRowOutside DEF Launch, history
    <3> QED
      BY <1>1, <3>1
  <2>2. CASE cmd # "referred-intent"
    BY <1>11, <2>2 DEF Launch, OrphansFromCrashes, history, rows
  <2> QED
    BY <2>1, <2>2
<1>12. CASE UNCHANGED <<orphan, crashed>>
  BY <1>12 DEF OrphansFromCrashes
<1>13. ASSUME NEW r \in Runs,
              \/ Acquire(r) \/ Count(r) \/ Steal(r)
              \/ \E c \in Convs : Ingest(r, c) \/ FailConversation(r, c)
       PROVE  UNCHANGED <<orphan, crashed>>
  BY <1>13 DEF Acquire, Count, Steal, Ingest, FailConversation, rows, history
<1>14. ASSUME NEW r \in Runs, NEW b \in Batches,
              \/ Create(r, b) \/ Complete(r, b) \/ Refuse(r, b) \/ FailJob(r, b)
              \/ Raise(r, b) \/ Cancel(r, b) \/ NoticeCancel(r, b)
       PROVE  UNCHANGED <<orphan, crashed>>
  BY <1>14 DEF Create, Complete, Refuse, FailJob, Raise, Cancel, NoticeCancel, ReturnEarly, history
<1>15. ASSUME (\E c \in Convs : Activity(c)) \/ (\E a \in Agents : Expire(a)) \/ UNCHANGED vars
       PROVE  UNCHANGED <<orphan, crashed>>
  BY <1>15 DEF Activity, Expire, vars, rows, history
<1> QED
  BY <1>2, <1>3, <1>4, <1>5, <1>6, <1>7, <1>8, <1>9, <1>10, <1>11, <1>12, <1>13, <1>14, <1>15
  DEF Next, Step, Fault, Stumble, Abort

-------------------------------------------------------------------------------
(* What jobs are about *)

\* A stage that begins has jobs that have not seen anything.
LEMMA EnterScope ==
  ASSUME TypeOK, ScopeInv, NEW r \in Runs, NEW s \in PcValues, NEW list, Enter(r, s, list),
         stored' = stored, \A q \in Runs \ {r} : entry'[q] = entry[q],
         Processed(r)' \subseteq stored
  PROVE  ScopeInv'
<1>1. \A q \in Runs \ {r} : Processed(q)' = Processed(q)
  BY DEF Processed
<1>2. 1 \in Batches
  BY BatchesAssumption
<1> QED
  BY <1>1, <1>2, EnterFacts, SMTT(30) DEF ScopeInv, NoJob, Queued

\* A process goes on outside its stages, or to clean up.
LEMMA MoveScope ==
  ASSUME ScopeInv, NEW r \in Runs, pc'[r] \notin JobStages,
         UNCHANGED <<entry, stored>>,
         \A q \in Runs \ {r} : pc'[q] = pc[q],
         \A q \in Runs : \A b \in Batches :
           job'[q][b].at = job[q][b].at /\ job'[q][b].sees = job[q][b].sees
  PROVE  ScopeInv'
<1>1. \A q \in Runs : Processed(q)' = Processed(q)
  BY DEF Processed
<1>2. 1 \in Batches
  BY BatchesAssumption
<1> QED
  BY <1>1, <1>2 DEF ScopeInv, JobStages

\* A change of one job keeps ScopeInv when the job had begun, or is to begin, and
\* is then about what the process imported.
LEMMA OneJobScope ==
  ASSUME ScopeInv, NEW r \in Runs, NEW b \in Batches, NEW j, OneJob(r, b, j),
         job[r][b].at # "none", UNCHANGED <<pc, entry, stored>>,
         pc[r] = "insights" => j.sees \subseteq Processed(r)
  PROVE  ScopeInv'
<1>1. \A q \in Runs : Processed(q)' = Processed(q)
  BY DEF Processed
<1>2. 1 \in Batches
  BY BatchesAssumption
<1> QED
  BY <1>1, <1>2 DEF ScopeInv, OneJob

\* In a later stage the job at work is the only one.
LEMMA TheJob ==
  ASSUME ScopeInv, NEW r \in Runs, NEW b \in Batches, job[r][b].at # "none",
         pc[r] \in JobStages \ {"ingest"}
  PROVE  b = 1
BY DEF ScopeInv

\* After ingest a job is about what its run imported, if it imported anything.
LEMMA ScopeIsProcessed ==
  ASSUME NEW r \in Runs, pc[r] \in JobStages \ {"ingest"},
         Processed(r) # {} \/ pc[r] # "intents"
  PROVE  Scope(r) = Processed(r)
BY DEF Scope

\* An attempt that raises in ingest starts from its list again.
LEMMA RaiseEntry ==
  ASSUME TypeOK, NEW r \in Runs, NEW b \in Batches, Raise(r, b)
  PROVE  /\ \A q \in Runs \ {r} : Processed(q)' = Processed(q)
         /\ pc[r] # "ingest" => Processed(r)' = Processed(r)
         /\ Processed(r)' = {c \in Processed(r) : pc[r] = "ingest" => BatchOf[c] # b}
<1>1. entry' = [entry EXCEPT ![r] = [c \in Convs |->
        IF pc[r] = "ingest" /\ BatchOf[c] = b /\ entry[r][c] # "out" THEN "listed" ELSE entry[r][c]]]
  BY DEF Raise
<1> QED
  BY <1>1 DEF Processed, TypeOK

\* Conversation c of the list of r is done with.
LEMMA DoneEntry ==
  ASSUME TypeOK, NEW r \in Runs, NEW c \in Convs, Working(r, c), NEW e,
         entry' = [entry EXCEPT ![r][c] = e]
  PROVE  /\ \A q \in Runs \ {r} : Processed(q)' = Processed(q)
         /\ Processed(r)' = IF e = "imported" THEN Processed(r) \cup {c} ELSE Processed(r)
BY DEF Processed, TypeOK, Working

\* Every step keeps ScopeInv.
LEMMA ScopeStep ==
  ASSUME TypeOK, ScopeInv, [Next]_vars
  PROVE  ScopeInv'
<1> USE DEF PcValues, JobStages
<1>1. ASSUME NEW r \in Runs, Acquire(r) \/ Count(r) \/ Steal(r) \/ FailCleanup(r) PROVE ScopeInv'
  <2>1. pc'[r] \notin JobStages /\ \A q \in Runs \ {r} : pc'[q] = pc[q]
    BY <1>1 DEF Acquire, Count, Steal, FailCleanup, TypeOK
  <2> QED
    BY <1>1, <2>1, MoveScope DEF Acquire, Count, Steal, FailCleanup, rows, data
<1>2. ASSUME NEW r \in Runs, Clear(r) \/ Cleanup(r) PROVE ScopeInv'
  <2>1. pc'[r] \notin JobStages /\ \A q \in Runs \ {r} : pc'[q] = pc[q]
    BY <1>2 DEF Clear, Cleanup, TypeOK
  <2>2. FailOrphaned(AgentOf[r]) /\ AgentOf[r] \in Agents
    BY <1>2, AgentsAssumption DEF Clear, Cleanup
  <2> QED
    BY <1>2, <2>1, <2>2, FailOrphanedFacts, MoveScope DEF Clear, Cleanup, data
<1>3. ASSUME NEW r \in Runs, List(r) PROVE ScopeInv'
  <2>1. CASE command[r] = "run"
    <3>1. PICK S \in SUBSET Convs, s \in {"intents", "ingest"} :
            LET list == [c \in Convs |-> IF c \in S THEN "listed" ELSE "out"] IN
            entry' = [entry EXCEPT ![r] = list] /\ Enter(r, s, list)
      BY <1>3, <2>1 DEF List, ConvsOf
    <3>2. Processed(r)' = {} /\ \A q \in Runs \ {r} : entry'[q] = entry[q]
      BY <3>1 DEF Processed, TypeOK
    <3> QED
      BY <1>3, <3>1, <3>2, EnterScope DEF List, data
  <2>2. CASE command[r] # "run"
    <3>1. PICK s \in {"warming", "sentiment"} :
            LET list == [c \in Convs |-> IF c \in ConvsOf(AgentOf[r]) \cap stored
                                         THEN "imported" ELSE "out"] IN
            entry' = [entry EXCEPT ![r] = list] /\ Enter(r, s, list)
      BY <1>3, <2>2 DEF List
    <3>2. Processed(r)' \subseteq stored /\ \A q \in Runs \ {r} : entry'[q] = entry[q]
      BY <3>1 DEF Processed, TypeOK
    <3> QED
      BY <1>3, <3>1, <3>2, EnterScope DEF List, data
  <2> QED
    BY <2>1, <2>2
<1>4. ASSUME NEW r \in Runs, NEW c \in Convs, Ingest(r, c) \/ FailConversation(r, c) PROVE ScopeInv'
  <2>1. Working(r, c) /\ pc[r] = "ingest" /\ pc' = pc
    BY <1>4 DEF Ingest, FailConversation, Working, process
  <2>2. PICK e \in {"imported", "skipped"} :
          /\ entry' = [entry EXCEPT ![r][c] = e]
          /\ Store(c) \/ (e = "skipped" /\ UNCHANGED <<stored, job>>)
    BY <1>4 DEF Ingest, FailConversation, data
  <2>3. /\ stored \subseteq stored'
        /\ e = "imported" => c \in stored'
        /\ \A q \in Runs : \A b \in Batches : job'[q][b].at = job[q][b].at
        /\ \A q \in Runs : \A b \in Batches : job'[q][b].sees \subseteq job[q][b].sees
    BY <2>2, StoreFacts
  <2>4. /\ \A q \in Runs \ {r} : Processed(q)' = Processed(q)
        /\ Processed(r)' = IF e = "imported" THEN Processed(r) \cup {c} ELSE Processed(r)
    BY <2>1, <2>2, DoneEntry
  <2>5. 1 \in Batches
    BY BatchesAssumption
  <2> QED
    BY <2>1, <2>3, <2>4, <2>5 DEF ScopeInv
<1>5. ASSUME NEW r \in Runs, NEW b \in Batches, Create(r, b) PROVE ScopeInv'
  <2>1. pc[r] = "insights" => Scope(r) \subseteq Processed(r)
    BY ScopeIsProcessed
  <2> QED
    BY <1>5, <2>1, CreateFacts, OneJobScope DEF Create, process, data
<1>6. ASSUME NEW r \in Runs, NEW b \in Batches,
             Complete(r, b) \/ FailJob(r, b) \/ NoticeCancel(r, b)
      PROVE  ScopeInv'
  <2>1. UNCHANGED <<pc, entry, stored>> /\ job[r][b].at = "running"
    BY <1>6 DEF Complete, FailJob, NoticeCancel, ReturnEarly, process
  <2>2. PICK at \in {"returned", "raised"}, row \in {"complete", "failed", "cancelled"} :
          Ended(r, b, at, row)
    BY <1>6 DEF Complete, FailJob, NoticeCancel
  <2>3. OneJob(r, b, [at |-> at, row |-> row, tries |-> job[r][b].tries, sees |-> {}])
    BY <2>2, EndedFacts
  <2> QED
    BY <2>1, <2>3, OneJobScope
<1>7. ASSUME NEW r \in Runs, NEW b \in Batches, Refuse(r, b) \/ Cancel(r, b) PROVE ScopeInv'
  <2>1. UNCHANGED <<pc, entry, stored>> /\ job[r][b] \in Jobs(stored)
    BY <1>7, JobTypes DEF Refuse, Cancel, process, data
  <2>2. PICK j : /\ OneJob(r, b, j) /\ j.sees = job[r][b].sees
                 /\ j.at = job[r][b].at \/ job[r][b].at # "none"
    <3>1. CASE Refuse(r, b)
      <4> WITNESS [job[r][b] EXCEPT !.at = "raised"]
      <4> QED
        BY <2>1, <3>1, RefuseFacts DEF Jobs, Refuse
    <3>2. CASE Cancel(r, b)
      <4> WITNESS [job[r][b] EXCEPT !.row = "cancelled"]
      <4> QED
        BY <2>1, <3>2, CancelFacts DEF Jobs, Cancel
    <3> QED
      BY <1>7, <3>1, <3>2
  <2>3. \A q \in Runs : Processed(q)' = Processed(q)
    BY <2>1 DEF Processed
  <2>4. 1 \in Batches
    BY BatchesAssumption
  <2> QED
    BY <2>1, <2>2, <2>3, <2>4 DEF ScopeInv, OneJob
<1>8. ASSUME NEW r \in Runs, NEW b \in Batches, Raise(r, b) PROVE ScopeInv'
  <2>1. UNCHANGED <<pc, stored>> /\ job[r][b].at = "running"
    BY <1>8 DEF Raise, process
  <2>2. PICK j : OneJob(r, b, j) /\ j.sees \in {Scope(r), {}}
    <3>1. PICK tries \in 0..MaxRetries, at \in {"running", "raised"}, sees \in {Scope(r), {}} :
            OneJob(r, b, [at |-> at, row |-> job[r][b].row, tries |-> tries, sees |-> sees])
      BY <1>8, RaiseFacts
    <3> WITNESS [at |-> at, row |-> job[r][b].row, tries |-> tries, sees |-> sees]
    <3> QED
      BY <3>1
  <2>3. /\ \A q \in Runs : Processed(q)' \subseteq Processed(q)
        /\ \A q \in Runs : pc[q] = "insights" => Processed(q)' = Processed(q)
    BY <1>8, RaiseEntry DEF Processed
  <2>4. pc[r] = "insights" => j.sees \subseteq Processed(r)
    BY <2>2, ScopeIsProcessed
  <2>5. 1 \in Batches
    BY BatchesAssumption
  <2> QED
    BY <2>1, <2>2, <2>3, <2>4, <2>5 DEF ScopeInv, OneJob
<1>9. ASSUME NEW r \in Runs, Advance(r) PROVE ScopeInv'
  <2>1. NextStage(r) \in PcValues
    BY <1>9 DEF Advance, NextStage
  <2>2. Processed(r)' \subseteq stored
    BY <1>9 DEF Advance, Processed, ScopeInv
  <2> QED
    BY <1>9, <2>1, <2>2, EnterScope DEF Advance, data
<1>10. ASSUME NEW r \in Runs, Exit(r), stored' = stored PROVE ScopeInv'
  <2>1. Processed(r)' = {}
    BY <1>10, ExitFacts DEF Processed
  <2> QED
    BY <1>10, <2>1, ExitFacts, EnterScope
<1>11. ASSUME NEW r \in Runs, Fail(r) \/ Warm(r), stored' = stored PROVE ScopeInv'
  <2>1. CASE command[r] = "referred-intent"
    BY <1>10, <1>11, <2>1 DEF Fail, Warm
  <2>2. CASE command[r] # "referred-intent"
    <3>1. pc'[r] \notin JobStages /\ \A q \in Runs \ {r} : pc'[q] = pc[q]
      BY <1>11, <2>2 DEF Fail, Warm, TypeOK
    <3> QED
      BY <1>11, <2>2, <3>1, MoveScope DEF Fail, Warm, rows
  <2> QED
    BY <2>1, <2>2
<1>12. ASSUME NEW r \in Runs, Stumble(r) \/ Abort(r) \/ Warm(r) PROVE ScopeInv'
  BY <1>11, <1>12 DEF Stumble, Abort, Warm, data
<1>13. ASSUME NEW r \in Runs, Release(r) \/ Leak(r) \/ Kill(r) PROVE ScopeInv'
  BY <1>10, <1>13 DEF Release, Leak, Kill, data
<1>14. ASSUME NEW r \in Runs, NEW cmd \in CommandSet, Launch(r, cmd) PROVE ScopeInv'
  <2>1. CASE cmd = "referred-intent"
    <3>1. Processed(r)' \subseteq stored
      BY <1>14 DEF Launch, Processed, ScopeInv
    <3> QED
      BY <1>14, <2>1, <3>1, EnterScope DEF Launch, data
  <2>2. CASE cmd # "referred-intent"
    <3>1. pc'[r] \notin JobStages /\ \A q \in Runs \ {r} : pc'[q] = pc[q]
      BY <1>14, <2>2 DEF Launch, TypeOK
    <3> QED
      BY <1>14, <2>2, <3>1, MoveScope DEF Launch, rows, data
  <2> QED
    BY <2>1, <2>2
<1>15. CASE UNCHANGED <<pc, job, entry, stored>>
  BY <1>15 DEF ScopeInv, Processed
<1>16. ASSUME (\E c \in Convs : Activity(c)) \/ (\E a \in Agents : Expire(a)) \/ UNCHANGED vars
       PROVE  ScopeInv'
  BY <1>15, <1>16 DEF Activity, Expire, vars, process, rows, data
<1> QED
  BY <1>1, <1>2, <1>3, <1>4, <1>5, <1>6, <1>7, <1>8, <1>9, <1>12, <1>13, <1>14, <1>16
  DEF Next, Step, Fault

-------------------------------------------------------------------------------
(* Claims *)

\* A process that leaves its stages, having given up what it imported, leaves
\* the claims of the others.
LEMMA LeaveClaims ==
  ASSUME ClaimInv, NEW r \in Runs, pc[r] \notin JobStages \/ Processed(r) \subseteq cut',
         \A q \in Runs \ {r} :
           /\ pc'[q] = pc[q] /\ entry'[q] = entry[q]
           /\ job'[q][1].at = job[q][1].at /\ job'[q][1].sees = job[q][1].sees,
         todo' = todo, cut \subseteq cut'
  PROVE  ClaimInv'
<1> SUFFICES ASSUME NEW s \in Analyses, NEW c \in todo'[s] \ cut'
             PROVE  \E q \in Runs : Claims(q, s, c)'
  BY DEF ClaimInv
<1>1. PICK q \in Runs : Claims(q, s, c)
  BY DEF ClaimInv
<1>2. q # r
  BY <1>1 DEF Claims, Before, JobStages, Analyses
<1>3. Claims(q, s, c)'
  BY <1>1, <1>2 DEF Claims, Processed
<1> QED
  BY <1>3

\* A job changes, and all that it claims and leaves new is still claimed.
LEMMA JobClaims ==
  ASSUME ClaimInv, NEW r \in Runs, UNCHANGED pc,
         \A q \in Runs \ {r} : Processed(q)' = Processed(q) /\ job'[q] = job[q],
         cut \subseteq cut',
         \A s \in Analyses : \A c \in todo'[s] \ cut' :
           \/ Claims(r, s, c)'
           \/ c \in todo[s] /\ ~Claims(r, s, c)
  PROVE  ClaimInv'
<1> SUFFICES ASSUME NEW s \in Analyses, NEW c \in todo'[s] \ cut', ~Claims(r, s, c)'
             PROVE  \E q \in Runs : Claims(q, s, c)'
  BY DEF ClaimInv
<1>1. c \in todo[s] \ cut /\ ~Claims(r, s, c)
  OBVIOUS
<1>2. PICK q \in Runs \ {r} : Claims(q, s, c)
  BY <1>1 DEF ClaimInv
<1>3. Claims(q, s, c)'
  BY <1>2 DEF Claims
<1> QED
  BY <1>3

\* A conversation that is stored is claimed by the process that stores it, or
\* given up by it.
LEMMA IngestClaims ==
  ASSUME TypeOK, ClaimInv, NEW r \in Runs, NEW c \in Convs, Ingest(r, c) \/ FailConversation(r, c)
  PROVE  ClaimInv'
<1>1. Working(r, c) /\ pc[r] = "ingest" /\ pc' = pc
  BY DEF Ingest, FailConversation, Working, process
<1>2. PICK e \in {"imported", "skipped"} :
        /\ entry' = [entry EXCEPT ![r][c] = e]
        /\ \/ Store(c) /\ cut' = IF e = "imported" THEN cut \ {c} ELSE cut \cup {c}
           \/ e = "skipped" /\ UNCHANGED <<job, todo, cut>>
  BY DEF Ingest, FailConversation, data
<1>3. /\ \A q \in Runs : Processed(q) \subseteq Processed(q)'
      /\ e = "imported" => c \in Processed(r)'
  <2>1. /\ \A q \in Runs \ {r} : Processed(q)' = Processed(q)
        /\ Processed(r)' = IF e = "imported" THEN Processed(r) \cup {c} ELSE Processed(r)
    BY <1>1, <1>2, DoneEntry
  <2> QED
    BY <2>1
<1>4. ASSUME NEW s \in Analyses, NEW d \in todo'[s] \ cut'
      PROVE  \E q \in Runs : Claims(q, s, d)'
  <2>1. CASE d = c /\ e = "imported"
    BY <1>1, <1>3, <2>1 DEF Claims, Before, Analyses
  <2>2. CASE d # c \/ e # "imported"
    <3>1. /\ d \in todo[s] \ cut
          /\ \A q \in Runs : /\ job'[q][1].at = job[q][1].at
                             /\ d \in job[q][1].sees => d \in job'[q][1].sees
      BY <1>2, <1>4, <2>2, StoreFacts, BatchesAssumption
    <3>2. PICK q \in Runs : Claims(q, s, d)
      BY <3>1 DEF ClaimInv
    <3>3. Claims(q, s, d)'
      BY <1>1, <1>3, <3>1, <3>2 DEF Claims
    <3> QED
      BY <3>3
  <2> QED
    BY <2>1, <2>2
<1> QED
  BY <1>4 DEF ClaimInv

\* A job that begins in an analysis is about all that was imported.
LEMMA CreateClaims ==
  ASSUME TypeOK, ScopeInv, ClaimInv, NEW r \in Runs, NEW b \in Batches, Create(r, b)
  PROVE  ClaimInv'
<1>1. /\ UNCHANGED <<pc, entry, todo, cut>> /\ pc[r] \in JobStages
      /\ job[r][b].at = "queued"
  BY DEF Create, process, data, history
<1>2. OneJob(r, b, [at |-> "running", row |-> "running", tries |-> job[r][b].tries,
                    sees |-> Scope(r)])
  BY CreateFacts
<1>3. \A q \in Runs : Processed(q)' = Processed(q)
  BY <1>1 DEF Processed
<1>4. \A q \in Runs \ {r} : job'[q] = job[q]
  BY <1>2, JobTypes DEF OneJob
<1>5. ASSUME NEW s \in Analyses, NEW c, Claims(r, s, c) PROVE Claims(r, s, c)'
  <2>1. CASE pc[r] = s
    <3>1. b = 1
      BY <1>1, <2>1, TheJob DEF Analyses
    <3>2. c \in Scope(r)
      BY <1>1, <1>5, <2>1, ScopeIsProcessed DEF Claims, Analyses
    <3> QED
      BY <1>1, <1>2, <1>3, <1>5, <3>1, <3>2 DEF Claims, OneJob
  <2>2. CASE pc[r] # s
    BY <1>1, <1>3, <1>5, <2>2 DEF Claims
  <2> QED
    BY <2>1, <2>2
<1> QED
  BY <1>1, <1>3, <1>4, <1>5, JobClaims

\* A job that is refused leaves its process to fail.
LEMMA RefuseClaims ==
  ASSUME TypeOK, ClaimInv, NEW r \in Runs, NEW b \in Batches, Refuse(r, b)
  PROVE  ClaimInv'
<1>1. UNCHANGED <<pc, entry, todo, cut>> /\ job[r][b].at = "queued"
  BY DEF Refuse, process, data
<1>2. OneJob(r, b, [job[r][b] EXCEPT !.at = "raised"]) /\ job[r][b] \in Jobs(stored)
  BY RefuseFacts, JobTypes
<1>3. \A q \in Runs : Processed(q)' = Processed(q)
  BY <1>1 DEF Processed
<1>4. \A q \in Runs \ {r} : job'[q] = job[q]
  BY <1>2, JobTypes DEF OneJob
<1>5. job'[r][1].at = "raised" \/ job'[r][1] = job[r][1]
  BY <1>2, BatchesAssumption DEF OneJob, Jobs
<1> QED
  BY <1>1, <1>3, <1>4, <1>5, JobClaims DEF Claims

\* A job that completes has done all that its process claims in this stage.
LEMMA CompleteClaims ==
  ASSUME TypeOK, ScopeInv, ClaimInv, NEW r \in Runs, NEW b \in Batches, Complete(r, b)
  PROVE  ClaimInv'
<1>1. UNCHANGED <<pc, entry, cut>> /\ pc[r] \in JobStages /\ job[r][b].at = "running"
  BY DEF Complete, process, history
<1>2. OneJob(r, b, job'[r][b])
  BY EndedFacts DEF Complete, OneJob
<1>3. \A q \in Runs : Processed(q)' = Processed(q)
  BY <1>1 DEF Processed
<1>4. \A q \in Runs \ {r} : job'[q] = job[q]
  BY <1>2, JobTypes DEF OneJob
<1>5. ASSUME NEW s \in Analyses, NEW c \in todo'[s]
      PROVE  Claims(r, s, c)' \/ (c \in todo[s] /\ ~Claims(r, s, c))
  <2>1. CASE pc[r] = s
    <3>1. b = 1
      BY <1>1, <2>1, TheJob DEF Analyses
    <3>2. todo'[s] = todo[s] \ job[r][b].sees
      BY <2>1 DEF Complete, TypeOK
    <3> QED
      BY <1>1, <1>5, <2>1, <3>1, <3>2 DEF Claims
  <2>2. CASE pc[r] # s
    <3>1. todo'[s] = todo[s]
      BY <2>2 DEF Complete, TypeOK
    <3> QED
      BY <1>1, <1>3, <1>5, <2>2, <3>1 DEF Claims
  <2> QED
    BY <2>1, <2>2
<1> QED
  BY <1>1, <1>3, <1>4, <1>5, JobClaims

\* A job that returns early gives up what it leaves.
LEMMA EarlyClaims ==
  ASSUME TypeOK, ScopeInv, ClaimInv, NEW r \in Runs, NEW b \in Batches,
         pc[r] \in JobStages, job[r][b].at = "running",
         OneJob(r, b, job'[r][b]), ReturnEarly(r, b)
  PROVE  ClaimInv'
<1>1. UNCHANGED <<pc, entry>> /\ cut \subseteq cut'
  BY DEF ReturnEarly, process
<1>2. \A q \in Runs : Processed(q)' = Processed(q)
  BY <1>1 DEF Processed
<1>3. \A q \in Runs \ {r} : job'[q] = job[q]
  BY JobTypes DEF OneJob
<1>4. ASSUME NEW s \in Analyses, NEW c \in todo'[s] \ cut'
      PROVE  Claims(r, s, c)' \/ (c \in todo[s] /\ ~Claims(r, s, c))
  <2>1. CASE pc[r] = s
    <3>1. b = 1
      BY <2>1, TheJob DEF Analyses
    <3>2. c \notin Scope(r)
      BY <1>4, <2>1 DEF ReturnEarly
    <3>3. c \notin Processed(r)
      BY <2>1, <3>2, ScopeIsProcessed DEF Analyses
    <3>4. c \in todo[s]
      <4>1. s = "insights" => job[r][b].sees \subseteq Processed(r)
        BY <2>1, <3>1 DEF ScopeInv
      <4> QED
        BY <1>4, <2>1, <3>3, <4>1, PartlyFacts DEF ReturnEarly
    <3> QED
      BY <3>3, <3>4 DEF Claims
  <2>2. CASE pc[r] # s
    <3>1. todo'[s] = todo[s]
      BY <2>2, PartlyFacts DEF ReturnEarly
    <3> QED
      BY <1>1, <1>2, <1>4, <2>2, <3>1 DEF Claims
  <2> QED
    BY <2>1, <2>2
<1> QED
  BY <1>1, <1>2, <1>3, <1>4, JobClaims

\* An attempt that raises leaves all to the next one, or to its process to give
\* up; what the next attempt of ingest does not return is given up at once.
LEMMA RaiseClaims ==
  ASSUME TypeOK, ScopeInv, ClaimInv, NEW r \in Runs, NEW b \in Batches, Raise(r, b)
  PROVE  ClaimInv'
<1>1. /\ UNCHANGED pc /\ cut \subseteq cut' /\ pc[r] \in JobStages
      /\ job[r][b].at = "running" /\ Partly(r, b)
  BY DEF Raise, process
<1>2. PICK tries \in 0..MaxRetries :
        \/ OneJob(r, b, [at |-> "running", row |-> job[r][b].row, tries |-> tries,
                         sees |-> Scope(r)])
        \/ OneJob(r, b, [at |-> "raised", row |-> job[r][b].row, tries |-> tries,
                         sees |-> {}])
  BY RaiseFacts
<1>3. \A q \in Runs \ {r} : Processed(q)' = Processed(q) /\ job'[q] = job[q]
  BY <1>2, RaiseEntry, JobTypes DEF OneJob
<1>4. ASSUME NEW s \in Analyses, NEW c \in todo'[s] \ cut'
      PROVE  Claims(r, s, c)' \/ (c \in todo[s] /\ ~Claims(r, s, c))
  <2>1. CASE pc[r] = s
    <3>1. b = 1 /\ Processed(r)' = Processed(r)
      BY <1>1, <2>1, TheJob, RaiseEntry DEF Analyses
    <3>2. c \in Processed(r) => Claims(r, s, c)'
      <4>1. c \in Processed(r) => c \in Scope(r)
        BY <1>1, <2>1, ScopeIsProcessed DEF Analyses
      <4>2. job'[r][1].at = "raised" \/ (job'[r][1].at = "running" /\ job'[r][1].sees = Scope(r))
        BY <1>2, <3>1 DEF OneJob
      <4>3. pc[r] \in Before[s]
        BY <2>1 DEF Before, Analyses
      <4> QED
        BY <1>1, <3>1, <4>1, <4>2, <4>3 DEF Claims
    <3>3. c \notin Processed(r) => c \in todo[s]
      <4>1. s = "insights" => job[r][b].sees \subseteq Processed(r)
        BY <2>1, <3>1 DEF ScopeInv
      <4> QED
        BY <1>1, <1>4, <2>1, <4>1, PartlyFacts
    <3> QED
      BY <3>2, <3>3 DEF Claims
  <2>2. CASE pc[r] # s
    <3>1. c \in todo[s]
      BY <1>1, <1>4, <2>2, PartlyFacts
    <3>2. c \in Processed(r) => c \in Processed(r)'
      <4>1. cut' = cut \cup {d \in Processed(r) : pc[r] = "ingest" /\ BatchOf[d] = b}
        BY DEF Raise
      <4> QED
        BY <1>4, <4>1, RaiseEntry
    <3> QED
      BY <1>1, <2>2, <3>1, <3>2 DEF Claims
  <2> QED
    BY <2>1, <2>2
<1> QED
  BY <1>1, <1>3, <1>4, JobClaims

\* The stage that follows is the one in which the process does what it claims,
\* or comes before it.
LEMMA AdvanceClaims ==
  ASSUME TypeOK, ClaimInv, NEW r \in Runs, Advance(r)
  PROVE  ClaimInv'
<1>1. /\ pc[r] \in JobStages /\ Joined(r) /\ ~Raised(r)
      /\ Enter(r, NextStage(r), entry[r]) /\ UNCHANGED <<entry, todo, cut>>
  BY DEF Advance, data, history
<1>2. NextStage(r) \in PcValues
  BY <1>1 DEF NextStage, JobStages, PcValues
<1>3. \A q \in Runs : Processed(q)' = Processed(q)
  BY <1>1 DEF Processed
<1>4. ASSUME NEW s \in Analyses, NEW c \in Convs, NEW q \in Runs, Claims(q, s, c)
      PROVE  Claims(q, s, c)'
  <2>1. CASE q # r
    BY <1>1, <1>2, <1>3, <1>4, <2>1, EnterFacts DEF Claims
  <2>2. CASE q = r
    <3>1. pc[r] # s
      BY <1>1, <1>4, <2>2, BatchesAssumption DEF Claims, Joined, Raised
    <3>2. NextStage(r) \in Before[s]
      BY <1>1, <1>4, <2>2, <3>1 DEF Claims, Before, NextStage, Analyses
    <3>3. NextStage(r) = s => job'[r][1] = Queued
      BY <1>1, <1>2, EnterFacts DEF Analyses, JobStages
    <3>4. pc'[r] = NextStage(r)
      BY <1>1, <1>2, EnterFacts
    <3> QED
      BY <1>3, <1>4, <2>2, <3>2, <3>3, <3>4 DEF Claims, Queued, NoJob
  <2> QED
    BY <2>1, <2>2
<1>5. \A s \in Analyses : \A c \in todo[s] : c \in Convs
  BY DEF TypeOK
<1> QED
  BY <1>1, <1>4, <1>5 DEF ClaimInv

\* Every step keeps ClaimInv.
LEMMA ClaimStep ==
  ASSUME TypeOK, ScopeInv, ClaimInv, [Next]_vars
  PROVE  ClaimInv'
<1>0. 1 \in Batches
  BY BatchesAssumption
<1>1. ASSUME NEW r \in Runs, NEW s \in PcValues, NEW list, Enter(r, s, list),
             \A q \in Runs \ {r} : entry'[q] = entry[q], UNCHANGED todo, cut \subseteq cut',
             pc[r] \notin JobStages \/ Processed(r) \subseteq cut'
      PROVE  ClaimInv'
  BY <1>0, <1>1, EnterFacts, LeaveClaims
<1>2. ASSUME NEW r \in Runs, NEW s, pc' = [pc EXCEPT ![r] = s],
             UNCHANGED <<entry, job, todo>>, cut \subseteq cut',
             pc[r] \notin JobStages \/ Processed(r) \subseteq cut'
      PROVE  ClaimInv'
  <2>1. \A q \in Runs \ {r} : pc'[q] = pc[q]
    BY <1>2 DEF TypeOK
  <2> QED
    BY <1>2, <2>1, LeaveClaims
<1>3. ASSUME NEW r \in Runs, Acquire(r) \/ Count(r) \/ Steal(r) \/ FailCleanup(r) PROVE ClaimInv'
  <2>1. PICK s \in PcValues : pc' = [pc EXCEPT ![r] = s]
    BY <1>3 DEF Acquire, Count, Steal, FailCleanup, PcValues
  <2>2. UNCHANGED <<entry, job, todo, cut>> /\ pc[r] \notin JobStages
    BY <1>3 DEF Acquire, Count, Steal, FailCleanup, rows, data, history, JobStages
  <2> QED
    BY <1>2, <2>1, <2>2
<1>4. ASSUME NEW r \in Runs, Clear(r) \/ Cleanup(r) PROVE ClaimInv'
  <2>1. /\ FailOrphaned(AgentOf[r]) /\ AgentOf[r] \in Agents
        /\ UNCHANGED <<entry, todo, cut>> /\ pc[r] \notin JobStages
        /\ \A q \in Runs \ {r} : pc'[q] = pc[q]
    BY <1>4, AgentsAssumption DEF Clear, Cleanup, data, JobStages, TypeOK
  <2> QED
    BY <1>0, <2>1, FailOrphanedFacts, LeaveClaims
<1>5. ASSUME NEW r \in Runs, List(r) PROVE ClaimInv'
  <2>1. UNCHANGED <<todo, cut>> /\ pc[r] \notin JobStages
    BY <1>5 DEF List, data, history, JobStages
  <2>2. PICK S \in SUBSET Convs, e \in {"listed", "imported"},
             s \in {"intents", "ingest", "warming", "sentiment"} :
          LET list == [c \in Convs |-> IF c \in S THEN e ELSE "out"] IN
          entry' = [entry EXCEPT ![r] = list] /\ Enter(r, s, list)
    BY <1>5 DEF List, ConvsOf
  <2>3. \A q \in Runs \ {r} : entry'[q] = entry[q]
    BY <2>2 DEF TypeOK
  <2>4. s \in PcValues
    BY DEF PcValues, JobStages
  <2> QED
    BY <1>1, <2>1, <2>2, <2>3, <2>4
<1>6. ASSUME NEW r \in Runs, Exit(r), UNCHANGED todo, cut \subseteq cut',
             pc[r] \notin JobStages \/ Processed(r) \subseteq cut'
      PROVE  ClaimInv'
  BY <1>1, <1>6, ExitFacts DEF PcValues
<1>7. ASSUME NEW r \in Runs, Fail(r), UNCHANGED todo PROVE ClaimInv'
  <2>1. cut \subseteq cut' /\ Processed(r) \subseteq cut'
    BY <1>7 DEF Fail, GiveUp
  <2>2. CASE command[r] = "referred-intent"
    BY <1>6, <1>7, <2>1, <2>2 DEF Fail
  <2>3. CASE command[r] # "referred-intent"
    BY <1>2, <1>7, <2>1, <2>3 DEF Fail, rows
  <2> QED
    BY <2>2, <2>3
<1>8. ASSUME NEW r \in Runs, Stumble(r) \/ Abort(r) PROVE ClaimInv'
  BY <1>7, <1>8 DEF Stumble, Abort, data
<1>9. ASSUME NEW r \in Runs, Warm(r) PROVE ClaimInv'
  <2>1. UNCHANGED <<todo, cut>> /\ pc[r] \notin JobStages
    BY <1>9 DEF Warm, data, history, JobStages
  <2>2. CASE command[r] = "referred-intent"
    BY <1>6, <1>9, <2>1, <2>2 DEF Warm
  <2>3. CASE command[r] # "referred-intent"
    BY <1>2, <1>9, <2>1, <2>3 DEF Warm, rows
  <2> QED
    BY <2>2, <2>3
<1>10. ASSUME NEW r \in Runs, Release(r) \/ Leak(r) PROVE ClaimInv'
  BY <1>6, <1>10 DEF Release, Leak, data, JobStages
<1>11. ASSUME NEW r \in Runs, Kill(r) PROVE ClaimInv'
  BY <1>6, <1>11 DEF Kill, GiveUp, data
<1>12. ASSUME NEW r \in Runs, NEW b \in Batches, FailJob(r, b) \/ NoticeCancel(r, b) PROVE ClaimInv'
  <2>1. pc[r] \in JobStages /\ job[r][b].at = "running" /\ ReturnEarly(r, b)
    BY <1>12 DEF FailJob, NoticeCancel
  <2>2. PICK at \in {"returned", "raised"}, row \in {"complete", "failed", "cancelled"} :
          Ended(r, b, at, row)
    BY <1>12 DEF FailJob, NoticeCancel
  <2>3. OneJob(r, b, job'[r][b])
    BY <2>2, EndedFacts, ZenonT(30) DEF OneJob
  <2> QED
    BY <2>1, <2>3, EarlyClaims
<1>13. ASSUME NEW r \in Runs, NEW b \in Batches, Cancel(r, b) PROVE ClaimInv'
  <2>1. UNCHANGED <<pc, entry, todo, cut>>
    BY <1>13 DEF Cancel, process, data
  <2>2. OneJob(r, b, [job[r][b] EXCEPT !.row = "cancelled"]) /\ job[r][b] \in Jobs(stored)
    BY <1>13, CancelFacts, JobTypes
  <2>3. \A q \in Runs : /\ job'[q][1].at = job[q][1].at /\ job'[q][1].sees = job[q][1].sees
                        /\ Processed(q)' = Processed(q)
    BY <1>0, <2>1, <2>2 DEF OneJob, Jobs, Processed
  <2> QED
    BY <2>1, <2>3 DEF ClaimInv, Claims
<1>14. ASSUME NEW r \in Runs, NEW cmd \in CommandSet, Launch(r, cmd) PROVE ClaimInv'
  <2>1. UNCHANGED <<entry, todo, cut>> /\ pc[r] \notin JobStages
    BY <1>14 DEF Launch, data, history, JobStages
  <2>2. CASE cmd = "referred-intent"
    BY <1>1, <1>14, <2>1, <2>2 DEF Launch, PcValues, JobStages
  <2>3. CASE cmd # "referred-intent"
    BY <1>2, <1>14, <2>1, <2>3 DEF Launch, rows
  <2> QED
    BY <2>2, <2>3
<1>15. CASE UNCHANGED <<pc, job, entry, todo, cut>>
  BY <1>15 DEF ClaimInv, Claims, Processed
<1>16. ASSUME (\E c \in Convs : Activity(c)) \/ (\E a \in Agents : Expire(a)) \/ UNCHANGED vars
       PROVE  ClaimInv'
  BY <1>15, <1>16 DEF Activity, Expire, vars, process, rows, data, history
<1> QED
  BY <1>3, <1>4, <1>5, <1>8, <1>9, <1>10, <1>11, <1>12, <1>13, <1>14, <1>16,
     IngestClaims, CreateClaims, RefuseClaims, CompleteClaims, RaiseClaims, AdvanceClaims
  DEF Next, Step, Fault

-------------------------------------------------------------------------------
(* The theorems *)

\* PipelineInv holds at first and every step keeps it.
LEMMA PipelineStart ==
  ASSUME Init
  PROVE  PipelineInv
<1>1. TypeOK
  <2>1. NoJob \in Jobs(stored)
    BY FaultsAssumption DEF NoJob, Jobs
  <2> QED
    BY <2>1, FaultsAssumption DEF Init, TypeOK, Jobs, PcValues, CommandSet, Analyses
<1>2. RowsInv /\ OrphansFromCrashes /\ ClaimInv
  BY DEF Init, RowsInv, OrphansFromCrashes, ClaimInv, NoJob
<1>3. ScopeInv
  BY DEF Init, ScopeInv, Processed, NoJob, JobStages
<1> QED
  BY <1>1, <1>2, <1>3 DEF PipelineInv

\* Whatever processes overlap and fail, the rows, the jobs and the claims of all
\* processes fit together: PipelineInv is an invariant of the pipeline.
THEOREM PipelineInvariant == Spec => []PipelineInv
<1>1. Init => PipelineInv
  BY PipelineStart
<1>2. PipelineInv /\ [Next]_vars => PipelineInv'
  BY TypeStep, RowsStep, OrphansStep, ScopeStep, ClaimStep DEF PipelineInv
<1> QED
  BY <1>1, <1>2, PTL DEF Spec

\* Type correctness of app/pipeline.py and its job rows, for any processes.
THEOREM PipelineTypeCorrect == Spec => []TypeOK
<1>1. PipelineInv => TypeOK
  BY DEF PipelineInv
<1> QED
  BY <1>1, PipelineInvariant, PTL

\* A job row runs without a process only after a process of the agent died or
\* failed to clean up: every other end of run_agent_pipeline frees its slots.
THEOREM OrphansSafe == Spec => []OrphansFromCrashes
<1>1. PipelineInv => OrphansFromCrashes
  BY DEF PipelineInv
<1> QED
  BY <1>1, PipelineInvariant, PTL

\* What the pipeline stores is analysed by a run at work, or was given up by one:
\* retries, cancellations and overlapping processes lose nothing else.
THEOREM AnalysedSafe == Spec => []AnalysedUnlessCut
<1>1. PipelineInv => AnalysedUnlessCut
  BY DEF PipelineInv, ClaimInv, Claims, AnalysedUnlessCut
<1> QED
  BY <1>1, PipelineInvariant, PTL

-------------------------------------------------------------------------------
(* StatusPage *)

\* Something is awaited or will fire only if an agent is selected.
Watching == timer # "none" \/ UnderWay # {} \/ busy # None => sel # None

\* Loads and log are about the selected agent, but for the race.
AboutSelected ==
  ~crossed =>
    /\ \A l \in UnderWay : loads[l].agent = sel
    /\ \A e \in log : e.agent = sel

\* A page that was left with nothing under way stays still.
AtRest == ~mounted /\ ~leaving => UnderWay = {} /\ busy = None /\ timer = "none" /\ ~elapsed

PageInv == PageTypeOK /\ Watching /\ AboutSelected /\ AtRest
-------------------------------------------------------------------------------
\* A load that begins takes a free place and leaves the others alone.
LEMMA BeginFacts ==
  ASSUME PageTypeOK, NEW a \in Choices, NEW byClick \in BOOLEAN, Begin(a, byClick)
  PROVE  /\ loads' \in [Slots -> Loads \cup {None}]
         /\ \A l \in UnderWay' : loads'[l].agent = a \/ (l \in UnderWay /\ loads'[l] = loads[l])
<1>1. Load(a, byClick) \in Loads /\ Load(a, byClick).agent = a
  BY DEF Load, Loads
<1>2. PICK l \in Slots \ UnderWay : loads' = [loads EXCEPT ![l] = Load(a, byClick)]
  BY DEF Begin
<1>3. loads \in [Slots -> Loads \cup {None}]
  BY DEF PageTypeOK
<1> QED
  BY <1>1, <1>2, <1>3 DEF UnderWay

\* A load that ends frees its place and leaves the others alone.
LEMMA EndFacts ==
  ASSUME PageTypeOK, NEW l \in Slots, loads' = [loads EXCEPT ![l] = None]
  PROVE  /\ loads' \in [Slots -> Loads \cup {None}]
         /\ \A m \in UnderWay' : m \in UnderWay /\ loads'[m].agent = loads[m].agent
BY DEF PageTypeOK, UnderWay

\* An answer belongs to the load it was asked for.
LEMMA AnswerFacts ==
  ASSUME PageTypeOK, NEW l \in Slots, AnswerStatus(l) \/ AnswerJobs(l)
  PROVE  /\ loads' \in [Slots -> Loads \cup {None}]
         /\ \A m \in UnderWay' : m \in UnderWay /\ loads'[m].agent = loads[m].agent
<1>1. loads \in [Slots -> Loads \cup {None}] /\ server \in [Choices -> ServerStates]
  BY DEF PageTypeOK
<1>2. l \in UnderWay /\ loads[l] \in Loads
  BY <1>1 DEF AnswerStatus, AnswerJobs, UnderWay
<1>3. PICK new \in Loads : loads' = [loads EXCEPT ![l] = new] /\ new.agent = loads[l].agent
  <2>1. CASE AnswerStatus(l)
    <3>1. loads' = [loads EXCEPT ![l] = [loads[l] EXCEPT !.status = server[loads[l].agent]]]
      BY <1>1, <2>1 DEF AnswerStatus
    <3>2. server[loads[l].agent] \in ServerStates
      BY <1>1, <1>2 DEF Loads
    <3>3. [loads[l] EXCEPT !.status = server[loads[l].agent]] \in Loads
      BY <1>2, <3>2 DEF Loads
    <3>4. [loads[l] EXCEPT !.status = server[loads[l].agent]].agent = loads[l].agent
      BY <1>2 DEF Loads
    <3> QED
      BY <3>1, <3>3, <3>4
  <2>2. CASE AnswerJobs(l)
    <3> DEFINE s == server[loads[l].agent]
               id == IF s.live = "ingest" THEN s.id ELSE 0
    <3>1. loads' = [loads EXCEPT ![l] = [loads[l] EXCEPT !.jobs = id]]
      BY <1>1, <2>2 DEF AnswerJobs
    <3>2. s \in ServerStates
      BY <1>1, <1>2 DEF Loads
    <3>3. id \in 0..MaxRuns
      BY <3>2, PageAssumption DEF ServerStates
    <3> HIDE DEF id
    <3>4. [loads[l] EXCEPT !.jobs = id] \in Loads
      BY <1>2, <3>3 DEF Loads
    <3>5. [loads[l] EXCEPT !.jobs = id].agent = loads[l].agent
      BY <1>2 DEF Loads
    <3> QED
      BY <3>1, <3>4, <3>5
  <2> QED
    BY <2>1, <2>2
<1> QED
  BY <1>1, <1>2, <1>3 DEF UnderWay

\* What a load brings is about its agent.
LEMMA BroughtFacts ==
  ASSUME PageTypeOK, NEW l \in Slots, Resolve(l)
  PROVE  \E s \in [agent : Choices, id : 0..MaxRuns, live : Lives, running : 0..MaxRuns] :
           /\ s.agent = loads[l].agent
           /\ shown' = s /\ UpdateLogs(s) /\ elapsed' = Running(s)
           /\ SchedulePoll(s, loads[l].click)
<1> DEFINE s == [agent |-> loads[l].agent, id |-> loads[l].status.id,
                 live |-> loads[l].status.live, running |-> loads[l].jobs]
<1>1. loads[l] \in Loads /\ loads[l].status # None /\ loads[l].jobs # None
  BY DEF PageTypeOK, Resolve
<1>2. loads[l].status \in ServerStates /\ loads[l].jobs \in 0..MaxRuns /\ loads[l].agent \in Choices
  BY <1>1 DEF Loads
<1>3. s \in [agent : Choices, id : 0..MaxRuns, live : Lives, running : 0..MaxRuns]
  BY <1>2 DEF ServerStates
<1>4. /\ shown' = s /\ UpdateLogs(s) /\ elapsed' = Running(s)
      /\ SchedulePoll(s, loads[l].click)
  BY DEF Resolve
<1> QED
  BY <1>3, <1>4

\* The log takes only events of the agent that a load is about.
LEMMA LogFacts ==
  ASSUME PageTypeOK, UpdateLogs(shown'),
         shown' \in [agent : Choices, id : 0..MaxRuns, live : Lives, running : 0..MaxRuns]
  PROVE  /\ log' \subseteq Events
         /\ \A e \in log' : e \in log \/ e.agent = shown'.agent
         /\ tracked' = None \/ tracked' \in [agent : Choices, id : 1..MaxRuns]
<1> DEFINE first == [agent |-> shown'.agent, id |-> shown'.running]
           started == [agent |-> shown'.agent, what |-> "started", id |-> shown'.running]
<1>1. CASE shown'.running # 0 /\ tracked # first
  <2>1. tracked' = first /\ log' = {started}
    BY <1>1 DEF UpdateLogs
  <2>2. shown'.running \in 1..MaxRuns /\ shown'.running \in 0..MaxRuns /\ shown'.agent \in Choices
    BY <1>1, PageAssumption
  <2>3. first \in [agent : Choices, id : 1..MaxRuns]
    BY <2>2
  <2>4. started \in Events /\ started.agent = shown'.agent
    BY <2>2 DEF Events
  <2> QED
    BY <2>1, <2>3, <2>4
<1>2. CASE ~(shown'.running # 0 /\ tracked # first)
  <2>1. tracked' = tracked /\ log' = log \cup NewEvents(shown')
    BY <1>2 DEF UpdateLogs
  <2>2. NewEvents(shown') \subseteq Events /\ \A e \in NewEvents(shown') : e.agent = shown'.agent
    BY DEF NewEvents
  <2> QED
    BY <2>1, <2>2 DEF PageTypeOK
<1> QED
  BY <1>1, <1>2

\* What an agent is selected for is an agent.
LEMMA Selected ==
  ASSUME PageTypeOK, sel # None
  PROVE  sel \in Choices
BY DEF PageTypeOK
-------------------------------------------------------------------------------
LEMMA PageTypePreserved ==
  ASSUME PageTypeOK, Watching, PageNext
  PROVE  PageTypeOK'
<1> USE PageAssumption
<1>1. CASE Poll
  <2>1. sel \in Choices
    BY <1>1, Selected DEF Poll, Watching
  <2>2. loads' \in [Slots -> Loads \cup {None}]
    BY <1>1, <2>1, BeginFacts DEF Poll
  <2> QED
    BY <1>1, <2>2 DEF Poll, PageTypeOK
<1>2. CASE Refresh
  <2>1. loads' \in [Slots -> Loads \cup {None}]
    BY <1>2, Selected, BeginFacts DEF Refresh
  <2>2. clicks' \in 0..MaxClicks
    BY <1>2 DEF Refresh, PageTypeOK
  <2> QED
    BY <1>2, <2>1, <2>2 DEF Refresh, PageTypeOK
<1>3. CASE Click
  <2>1. clicks' \in 0..MaxClicks
    BY <1>3 DEF Click, PageTypeOK
  <2> QED
    BY <1>3, <2>1 DEF Click, PageTypeOK
<1>4. CASE ClickAnswered
  <2>1. busy \in Choices /\ sel \in Choices
    BY <1>4, Selected DEF ClickAnswered, PageTypeOK, Watching
  <2>2. loads' \in [Slots -> Loads \cup {None}]
    BY <1>4, <2>1, BeginFacts DEF ClickAnswered
  <2>3. server[busy].id + 1 \in 0..MaxRuns
    BY <1>4, <2>1 DEF ClickAnswered, PageTypeOK, ServerStates
  <2>4. [id |-> server[busy].id + 1, live |-> "ingest"] \in ServerStates
    BY <2>3 DEF ServerStates, Lives
  <2>5. server' \in [Choices -> ServerStates]
    BY <1>4, <2>1, <2>4 DEF ClickAnswered, PageTypeOK
  <2> QED
    BY <1>4, <2>2, <2>5 DEF ClickAnswered, PageTypeOK
<1>5. CASE ClickRefused
  BY <1>5 DEF ClickRefused, PageTypeOK
<1>6. CASE LeavePage
  BY <1>6 DEF LeavePage, PageTypeOK
<1>7. ASSUME NEW a \in Choices, Select(a)
      PROVE  PageTypeOK'
  <2>1. loads' \in [Slots -> Loads \cup {None}]
    BY <1>7, BeginFacts DEF Select
  <2>2. clicks' \in 0..MaxClicks
    BY <1>7 DEF Select, PageTypeOK
  <2>3. sel' \in Choices /\ crossed' \in BOOLEAN
    BY <1>7 DEF Select
  <2> QED
    BY <1>7, <2>1, <2>2, <2>3 DEF Select, PageTypeOK
<1>8. ASSUME NEW a \in Choices, ServerStep(a)
      PROVE  PageTypeOK'
  <2> DEFINE live == IF server[a].live = "ingest" THEN "warming" ELSE "idle"
  <2>1. server' = [server EXCEPT ![a] = [server[a] EXCEPT !.live = live]]
    BY <1>8 DEF ServerStep, PageTypeOK
  <2>2. live \in Lives
    BY DEF Lives
  <2>3. server[a] \in ServerStates
    BY DEF PageTypeOK
  <2> HIDE DEF live
  <2>4. [server[a] EXCEPT !.live = live] \in ServerStates
    BY <2>2, <2>3 DEF ServerStates
  <2>5. server' \in [Choices -> ServerStates]
    BY <2>1, <2>4 DEF PageTypeOK
  <2> QED
    BY <1>8, <2>5 DEF ServerStep, PageTypeOK
<1>9. ASSUME NEW l \in Slots, AnswerStatus(l) \/ AnswerJobs(l)
      PROVE  PageTypeOK'
  <2>1. loads' \in [Slots -> Loads \cup {None}]
    BY <1>9, AnswerFacts
  <2> QED
    BY <1>9, <2>1 DEF AnswerStatus, AnswerJobs, PageTypeOK
<1>10. ASSUME NEW l \in Slots, Resolve(l)
       PROVE  PageTypeOK'
  <2>1. PICK s \in [agent : Choices, id : 0..MaxRuns, live : Lives, running : 0..MaxRuns] :
           /\ shown' = s /\ UpdateLogs(s) /\ elapsed' = Running(s)
           /\ SchedulePoll(s, loads[l].click)
    BY <1>10, BroughtFacts
  <2>2. log' \subseteq Events /\ (tracked' = None \/ tracked' \in [agent : Choices, id : 1..MaxRuns])
    BY <2>1, LogFacts
  <2>3. timer' \in {"none", "slow", "fast"} /\ elapsed' \in BOOLEAN
    BY <2>1 DEF SchedulePoll, Running
  <2>4. loads' \in [Slots -> Loads \cup {None}]
    BY <1>10, EndFacts DEF Resolve
  <2>5. busy' \in Choices \cup {None} /\ loaded' = TRUE
    BY <1>10 DEF Resolve, PageTypeOK
  <2>6. UNCHANGED <<server, sel, mounted, clicks, failures, crossed, leaving>>
    BY <1>10 DEF Resolve
  <2> QED
    BY <2>1, <2>2, <2>3, <2>4, <2>5, <2>6 DEF PageTypeOK
<1>11. ASSUME NEW l \in Slots, LoadFails(l)
       PROVE  PageTypeOK'
  <2>1. loads' \in [Slots -> Loads \cup {None}]
    BY <1>11, EndFacts DEF LoadFails
  <2>2. failures' \in 0..MaxFailures
    BY <1>11 DEF LoadFails, PageTypeOK
  <2> QED
    BY <1>11, <2>1, <2>2 DEF LoadFails, PageTypeOK
<1> QED
  BY <1>1, <1>2, <1>3, <1>4, <1>5, <1>6, <1>7, <1>8, <1>9, <1>10, <1>11 DEF PageNext

LEMMA WatchingPreserved ==
  ASSUME PageTypeOK, Watching, PageNext
  PROVE  Watching'
<1> USE PageAssumption
<1>1. CASE Poll
  BY <1>1 DEF Poll, Watching
<1>2. CASE Refresh
  BY <1>2 DEF Refresh, Watching
<1>3. CASE Click
  BY <1>3 DEF Click, Watching, UnderWay
<1>4. CASE ClickAnswered
  BY <1>4 DEF ClickAnswered, Watching
<1>5. CASE ClickRefused
  BY <1>5 DEF ClickRefused, Watching, UnderWay
<1>6. CASE LeavePage
  BY <1>6 DEF LeavePage, Watching, UnderWay
<1>7. ASSUME NEW a \in Choices, Select(a)
      PROVE  Watching'
  BY <1>7 DEF Select, Watching
<1>8. ASSUME NEW a \in Choices, ServerStep(a)
      PROVE  Watching'
  BY <1>8 DEF ServerStep, Watching, UnderWay
<1>9. ASSUME NEW l \in Slots, AnswerStatus(l) \/ AnswerJobs(l)
      PROVE  Watching'
  <2>1. UnderWay' # {} => UnderWay # {}
    BY <1>9, AnswerFacts
  <2>2. UNCHANGED <<sel, timer, busy>>
    BY <1>9 DEF AnswerStatus, AnswerJobs
  <2> QED
    BY <2>1, <2>2 DEF Watching
<1>10. ASSUME NEW l \in Slots, Resolve(l) \/ LoadFails(l)
       PROVE  Watching'
  <2>1. l \in UnderWay /\ UNCHANGED sel
    BY <1>10 DEF Resolve, LoadFails, UnderWay
  <2> QED
    BY <2>1 DEF Watching
<1> QED
  BY <1>1, <1>2, <1>3, <1>4, <1>5, <1>6, <1>7, <1>8, <1>9, <1>10 DEF PageNext

LEMMA AboutSelectedPreserved ==
  ASSUME PageTypeOK, Watching, AboutSelected, PageNext
  PROVE  AboutSelected'
<1> USE PageAssumption
<1>1. CASE Poll \/ Refresh \/ ClickAnswered
  <2>1. sel \in Choices /\ UNCHANGED <<sel, log, crossed>>
    BY <1>1, Selected DEF Poll, Refresh, ClickAnswered, Watching
  <2>2. Begin(sel, FALSE) \/ Begin(sel, TRUE)
    BY <1>1 DEF Poll, Refresh, ClickAnswered
  <2>3. \A l \in UnderWay' : loads'[l].agent = sel \/ (l \in UnderWay /\ loads'[l] = loads[l])
    BY <2>1, <2>2, BeginFacts
  <2> QED
    BY <2>1, <2>3 DEF AboutSelected
<1>2. CASE Click \/ ClickRefused \/ LeavePage
  BY <1>2 DEF Click, ClickRefused, LeavePage, AboutSelected, UnderWay
<1>3. ASSUME NEW a \in Choices, Select(a)
      PROVE  AboutSelected'
  <2>1. \A l \in UnderWay' : loads'[l].agent = a \/ (l \in UnderWay /\ loads'[l] = loads[l])
    BY <1>3, BeginFacts DEF Select
  <2>2. sel' = a /\ log' = {} /\ crossed' = (UnderWay # {})
    BY <1>3 DEF Select
  <2> QED
    BY <2>1, <2>2 DEF AboutSelected
<1>4. ASSUME NEW a \in Choices, ServerStep(a)
      PROVE  AboutSelected'
  BY <1>4 DEF ServerStep, AboutSelected, UnderWay
<1>5. ASSUME NEW l \in Slots, AnswerStatus(l) \/ AnswerJobs(l)
      PROVE  AboutSelected'
  <2>1. \A m \in UnderWay' : m \in UnderWay /\ loads'[m].agent = loads[m].agent
    BY <1>5, AnswerFacts
  <2>2. UNCHANGED <<sel, log, crossed>>
    BY <1>5 DEF AnswerStatus, AnswerJobs
  <2> QED
    BY <2>1, <2>2 DEF AboutSelected
<1>6. ASSUME NEW l \in Slots, Resolve(l)
      PROVE  AboutSelected'
  <2>1. PICK s \in [agent : Choices, id : 0..MaxRuns, live : Lives, running : 0..MaxRuns] :
           s.agent = loads[l].agent /\ shown' = s /\ UpdateLogs(s)
    BY <1>6, BroughtFacts
  <2>2. \A e \in log' : e \in log \/ e.agent = loads[l].agent
    BY <2>1, LogFacts
  <2>3. \A m \in UnderWay' : m \in UnderWay /\ loads'[m].agent = loads[m].agent
    BY <1>6, EndFacts DEF Resolve
  <2>4. l \in UnderWay /\ UNCHANGED <<sel, crossed>>
    BY <1>6 DEF Resolve, UnderWay
  <2> QED
    BY <2>2, <2>3, <2>4 DEF AboutSelected
<1>7. ASSUME NEW l \in Slots, LoadFails(l)
      PROVE  AboutSelected'
  <2>1. \A m \in UnderWay' : m \in UnderWay /\ loads'[m].agent = loads[m].agent
    BY <1>7, EndFacts DEF LoadFails
  <2>2. UNCHANGED <<sel, log, crossed>>
    BY <1>7 DEF LoadFails
  <2> QED
    BY <2>1, <2>2 DEF AboutSelected
<1> QED
  BY <1>1, <1>2, <1>3, <1>4, <1>5, <1>6, <1>7 DEF PageNext

LEMMA AtRestPreserved ==
  ASSUME PageTypeOK, AtRest, PageNext
  PROVE  AtRest'
<1>1. CASE Poll
  BY <1>1 DEF Poll, AtRest
<1>2. CASE Refresh
  BY <1>2 DEF Refresh, AtRest
<1>3. CASE Click
  BY <1>3 DEF Click, AtRest
<1>4. CASE ClickAnswered
  BY <1>4 DEF ClickAnswered, AtRest
<1>5. CASE ClickRefused
  BY <1>5 DEF ClickRefused, AtRest
<1>6. CASE LeavePage
  BY <1>6 DEF LeavePage, AtRest, UnderWay
<1>7. ASSUME NEW a \in Choices, Select(a)
      PROVE  AtRest'
  BY <1>7 DEF Select, AtRest
<1>8. ASSUME NEW a \in Choices, ServerStep(a)
      PROVE  AtRest'
  BY <1>8 DEF ServerStep, AtRest, UnderWay
<1>9. ASSUME NEW l \in Slots, AnswerStatus(l) \/ AnswerJobs(l)
      PROVE  AtRest'
  <2>1. l \in UnderWay /\ UNCHANGED <<mounted, leaving>>
    BY <1>9 DEF AnswerStatus, AnswerJobs, UnderWay
  <2> QED
    BY <2>1 DEF AtRest
<1>10. ASSUME NEW l \in Slots, Resolve(l) \/ LoadFails(l)
       PROVE  AtRest'
  <2>1. l \in UnderWay /\ UNCHANGED <<mounted, leaving>>
    BY <1>10 DEF Resolve, LoadFails, UnderWay
  <2> QED
    BY <2>1 DEF AtRest
<1> QED
  BY <1>1, <1>2, <1>3, <1>4, <1>5, <1>6, <1>7, <1>8, <1>9, <1>10 DEF PageNext
-------------------------------------------------------------------------------
LEMMA PageInvInit == PageInit => PageInv
<1> SUFFICES ASSUME PageInit PROVE PageInv
  OBVIOUS
<1> USE PageAssumption
<1>1. loads \in [Slots -> Loads \cup {None}] /\ \A l \in UnderWay : loads[l].agent = sel /\ sel # None
  <2>1. sel # None => Load(sel, FALSE) \in Loads /\ Load(sel, FALSE).agent = sel
    BY DEF PageInit, Load, Loads
  <2> QED
    BY <2>1 DEF PageInit, UnderWay
<1>2. server \in [Choices -> ServerStates]
  BY DEF PageInit, ServerStates, Lives
<1>3. PageTypeOK
  <2>1. /\ sel \in Choices \cup {None} /\ shown = None /\ tracked = None /\ log = {}
        /\ timer = "none" /\ busy = None /\ clicks = 0 /\ failures = 0
    BY DEF PageInit
  <2>2. {mounted, elapsed, loaded, crossed, leaving} \subseteq BOOLEAN
    BY DEF PageInit
  <2>3. 0 \in 0..MaxClicks /\ 0 \in 0..MaxFailures
    OBVIOUS
  <2> QED
    BY <1>1, <1>2, <2>1, <2>2, <2>3 DEF PageTypeOK
<1>4. Watching /\ AboutSelected /\ AtRest
  BY <1>1 DEF PageInit, Watching, AboutSelected, AtRest
<1> QED
  BY <1>3, <1>4 DEF PageInv

\* The invariant holds in every state a visit can reach.
THEOREM PageInvariant == PageSpec => []PageInv
<1>1. PageInit => PageInv
  BY PageInvInit
<1>2. PageInv /\ [PageNext]_pageVars => PageInv'
  <2> SUFFICES ASSUME PageInv, [PageNext]_pageVars PROVE PageInv'
    OBVIOUS
  <2>1. CASE PageNext
    BY <2>1, PageTypePreserved, WatchingPreserved, AboutSelectedPreserved, AtRestPreserved DEF PageInv
  <2>2. CASE UNCHANGED pageVars
    BY <2>2 DEF pageVars, PageInv, PageTypeOK, Watching, AboutSelected, AtRest, UnderWay
  <2> QED
    BY <2>1, <2>2
<1> QED
  BY <1>1, <1>2, PTL DEF PageSpec

\* Whatever loads overlap, fail or end out of order, the log of the page is about
\* the selected agent unless the agent was changed while a load was under way, and
\* no timer outlives the page unless a load or a button did (loadStatus,
\* watch(agentId) and onUnmounted of usePipelineRunner.js).
THEOREM PageAlwaysSafe == PageSpec => []PageSafe
<1>1. PageInv => PageSafe
  BY DEF PageInv, PageSafe, StaleOnlyByRace, AboutSelected, AtRest
<1> QED
  BY <1>1, PageInvariant, PTL
===============================================================================
