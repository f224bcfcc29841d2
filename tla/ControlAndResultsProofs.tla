----------------------- MODULE ControlAndResultsProofs ------------------------
(***************************************************************************)
(* Theorems about JobControl, for any processes, kinds and requests, and   *)
(* about ResultsPage, for any agents, conversations, clicks and failures.  *)
(*                                                                         *)
(* Rows: an id that was not given out yet has no row (Unused), and         *)
(* the id of a job is one that was given out, unless the ids restarted     *)
(* under it; so an insert hits nothing, and nobody else's row gets the id  *)
(* (Own).  All other writes are updates of rows that are there, or         *)
(* deletions, which is what JobLedger promises.                            *)
(*                                                                         *)
(* Pause: what is left of a request determines what the pause is for       *)
(* (ScriptInv, PauseInv).  Fetch: once the agent's rows are gone, nothing  *)
(* marks it as synced unless a process was alive (FetchInv).  Cancel: the  *)
(* row of a job is listed, flagged and cancelled under the eyes of the     *)
(* process that made it, so that it will meet the flag, or had looked for  *)
(* the last time, or somebody deleted the flag (WarnedInv).                *)
(*                                                                         *)
(* The results page, for a visit without races: every handler under way is *)
(* about the agent that is selected (SameAgent); at most one of them opens *)
(* a conversation, which is the selected one, and what it has filled so    *)
(* far is of that conversation; no list or deletion under way takes it     *)
(* away (OneSelection).  So what is open is of the selected conversation   *)
(* once no such handler is under way (OpenInv).  A list or an answer in    *)
(* the cache is of its agent, lacks nothing that is stored and has besides *)
(* only what was deleted under the cache (CacheInv); so do the list and    *)
(* the insights of the page once no handler is under way that loads them   *)
(* (LoadedInv).                                                            *)
(***************************************************************************)
EXTENDS JobControl, ResultsPage, SequenceTheorems, TLAPS

RowStatus == Verdicts \cup {"running", "absent"}

RowTypes ==
  /\ rows \in [Kinds -> [Ids -> RowStatus]]
  /\ nextId \in [Kinds -> 1..(MaxId + 1)]
  /\ maker \in [Kinds -> [Ids -> Workers \cup {NoJob}]]

JobTypes ==
  /\ pc \in [Workers -> Locations]
  /\ job \in [Workers -> Rows \cup {NoJob}]
  /\ \A w \in Workers : (pc[w] \in InJob) <=> (job[w] # NoJob)

\* No row has an id that was not given out.
Unused == \A k \in Kinds, i \in Ids : i >= nextId[k] => rows[k][i] = "absent"

\* The job of a process that was not overtaken by a full purge has an id that
\* was given out, and if the row is there, the process made it.
Own ==
  \A w \in Workers : job[w] # NoJob /\ w \notin stale =>
    /\ job[w][2] < nextId[job[w][1]]
    /\ Exists(w) => maker[job[w][1]][job[w][2]] = w

ControlInv == RowTypes /\ JobTypes /\ Unused /\ Own
-------------------------------------------------------------------------------
\* Every step is one of these.
LEMMA ControlSteps ==
  ASSUME ControlNext
  PROVE  \/ \E w \in Workers :
              \/ ScheduledCheck(w) \/ Begin(w) \/ CompleteSync(w) \/ Abort(w)
              \/ \E k \in Kinds : CreateJob(w, k)
              \/ Look(w) \/ Progress(w) \/ Finish(w) \/ WriteCancelled(w) \/ ClearFlag(w)
              \/ Raise(w) \/ FailRow(w) \/ FailRowRaises(w)
         \/ \E q \in Requests : Request(q)
         \/ Pause \/ Unpause \/ ListRunning \/ Cancel \/ Wipe \/ Sweep
         \/ Terminate \/ Truncate \/ Flush \/ PurgeConversations \/ PurgeRows
BY DEF ControlNext, WorkerNext, RequestNext

\* NoJob is not a row.
LEMMA NoRow == NoJob \notin Rows /\ Ids \subseteq Nat /\ MaxId \in Nat
BY ControlAssumption DEF Rows, Ids

\* A row and its parts.
LEMMA RowParts ==
  ASSUME NEW r \in Rows
  PROVE  r[1] \in Kinds /\ r[2] \in Ids /\ r = <<r[1], r[2]>>
BY DEF Rows

\* What Write leaves of the tables.
LEMMA WriteFacts ==
  ASSUME RowTypes, NEW r \in Rows, NEW s \in RowStatus, Write(r, s)
  PROVE  /\ rows' \in [Kinds -> [Ids -> RowStatus]]
         /\ \A k \in Kinds, i \in Ids :
              rows'[k][i] = IF k = r[1] /\ i = r[2] THEN s ELSE rows[k][i]
BY RowParts DEF RowTypes, Write

\* A process that is in a job has a row id.
LEMMA JobOfProcess ==
  ASSUME JobTypes, NEW w \in Workers, pc[w] \in InJob
  PROVE  job[w] \in Rows
BY DEF JobTypes
-------------------------------------------------------------------------------
\* A step keeps the types of the tables.
LEMMA RowTypesPreserved ==
  ASSUME RowTypes, JobTypes, [ControlNext]_controlVars
  PROVE  RowTypes'
<1>1. CASE UNCHANGED controlVars
  BY <1>1 DEF controlVars, histVars, RowTypes
<1>2. ASSUME NEW w \in Workers, ScheduledCheck(w) PROVE RowTypes'
  BY <1>2 DEF ScheduledCheck, histVars, RowTypes
<1>3. ASSUME NEW w \in Workers, Begin(w) PROVE RowTypes'
  BY <1>3 DEF Begin, histVars, RowTypes
<1>4. ASSUME NEW w \in Workers, CompleteSync(w) PROVE RowTypes'
  BY <1>4 DEF CompleteSync, histVars, RowTypes
<1>5. ASSUME NEW w \in Workers, Abort(w) PROVE RowTypes'
  BY <1>5 DEF Abort, histVars, RowTypes
<1>6. ASSUME NEW w \in Workers, NEW k \in Kinds, CreateJob(w, k) PROVE RowTypes'
  <2>1. <<k, nextId[k]>> \in Rows
    BY <1>6 DEF CreateJob, Rows
  <2>2. rows' \in [Kinds -> [Ids -> RowStatus]]
    BY <1>6, <2>1, WriteFacts DEF CreateJob, RowStatus
  <2>3. nextId' \in [Kinds -> 1..(MaxId + 1)]
    BY <1>6, NoRow DEF CreateJob, RowTypes, Ids
  <2>4. maker' \in [Kinds -> [Ids -> Workers \cup {NoJob}]]
    BY <1>6 DEF CreateJob, RowTypes
  <2> QED
    BY <2>2, <2>3, <2>4 DEF RowTypes
<1>7. ASSUME NEW w \in Workers, Look(w) PROVE RowTypes'
  BY <1>7 DEF Look, histVars, RowTypes
<1>8. ASSUME NEW w \in Workers, Progress(w) PROVE RowTypes'
  BY <1>8 DEF Progress, histVars, RowTypes
<1>9. ASSUME NEW w \in Workers, Finish(w) PROVE RowTypes'
  <2>1. job[w] \in Rows
    BY <1>9, JobOfProcess DEF Finish, InJob
  <2>2. rows' \in [Kinds -> [Ids -> RowStatus]]
    BY <1>9, <2>1, WriteFacts DEF Finish, RowStatus, Verdicts
  <2> QED
    BY <1>9, <2>2 DEF Finish, dataVars, opVars, histVars, RowTypes
<1>10. ASSUME NEW w \in Workers, WriteCancelled(w) PROVE RowTypes'
  <2>1. job[w] \in Rows
    BY <1>10, JobOfProcess DEF WriteCancelled, InJob
  <2>2. rows' \in [Kinds -> [Ids -> RowStatus]]
    BY <1>10, <2>1, WriteFacts DEF WriteCancelled, RowStatus, Verdicts
  <2> QED
    BY <1>10, <2>2 DEF WriteCancelled, dataVars, opVars, histVars, RowTypes
<1>11. ASSUME NEW w \in Workers, ClearFlag(w) PROVE RowTypes'
  BY <1>11 DEF ClearFlag, RowTypes
<1>12. ASSUME NEW w \in Workers, Raise(w) PROVE RowTypes'
  BY <1>12 DEF Raise, histVars, RowTypes
<1>13. ASSUME NEW w \in Workers, FailRow(w) PROVE RowTypes'
  <2>1. job[w] \in Rows
    BY <1>13, JobOfProcess DEF FailRow, InJob
  <2>2. rows' \in [Kinds -> [Ids -> RowStatus]]
    BY <1>13, <2>1, WriteFacts DEF FailRow, RowStatus, Verdicts, RowTypes
  <2> QED
    BY <1>13, <2>2 DEF FailRow, dataVars, opVars, histVars, RowTypes
<1>14. ASSUME NEW w \in Workers, FailRowRaises(w) PROVE RowTypes'
  BY <1>14 DEF FailRowRaises, RowTypes
<1>15. ASSUME NEW q \in Requests, Request(q) PROVE RowTypes'
  BY <1>15 DEF Request, histVars, RowTypes
<1>16. CASE Pause
  BY <1>16 DEF Pause, histVars, RowTypes
<1>17. CASE Unpause
  BY <1>17 DEF Unpause, histVars, RowTypes
<1>18. CASE ListRunning
  BY <1>18 DEF ListRunning, RowTypes
<1>19. CASE Cancel
  BY <1>19 DEF Cancel, histVars, RowTypes, RowStatus, Verdicts
<1>20. CASE Wipe
  BY <1>20 DEF Wipe, RowTypes
<1>21. CASE Sweep
  BY <1>21 DEF Sweep, RowTypes
<1>22. CASE Terminate
  BY <1>22 DEF Terminate, histVars, RowTypes
<1>23. CASE Truncate
  <2>1. 1 \in 1..(MaxId + 1)
    BY NoRow
  <2> QED
    BY <1>23, <2>1 DEF Truncate, procVars, RowTypes, RowStatus
<1>24. CASE Flush
  BY <1>24 DEF Flush, RowTypes
<1>25. CASE PurgeConversations
  BY <1>25 DEF PurgeConversations, histVars, RowTypes
<1>26. CASE PurgeRows
  BY <1>26 DEF PurgeRows, RowTypes, RowStatus
<1> QED
  BY ControlSteps, <1>1, <1>2, <1>3, <1>4, <1>5, <1>6, <1>7, <1>8, <1>9, <1>10, <1>11, <1>12, <1>13, <1>14, <1>15, <1>16, <1>17, <1>18, <1>19, <1>20, <1>21, <1>22, <1>23, <1>24, <1>25, <1>26

\* A step keeps the processes in their places, and a row id with who is in a job.
LEMMA JobTypesPreserved ==
  ASSUME RowTypes, JobTypes, [ControlNext]_controlVars
  PROVE  JobTypes'
<1>1. CASE UNCHANGED controlVars
  BY <1>1 DEF controlVars, procVars, JobTypes
<1>2. ASSUME NEW w \in Workers, ScheduledCheck(w) PROVE JobTypes'
  BY <1>2 DEF ScheduledCheck, Move, JobTypes, Locations, InJob
<1>3. ASSUME NEW w \in Workers, Begin(w) PROVE JobTypes'
  BY <1>3 DEF Begin, Move, JobTypes, Locations, InJob
<1>4. ASSUME NEW w \in Workers, CompleteSync(w) PROVE JobTypes'
  BY <1>4 DEF CompleteSync, Move, JobTypes, Locations, InJob
<1>5. ASSUME NEW w \in Workers, Abort(w) PROVE JobTypes'
  BY <1>5 DEF Abort, Move, JobTypes, Locations, InJob
<1>6. ASSUME NEW w \in Workers, NEW k \in Kinds, CreateJob(w, k) PROVE JobTypes'
  <2>1. <<k, nextId[k]>> \in Rows
    BY <1>6 DEF CreateJob, Rows
  <2>2. job' = [job EXCEPT ![w] = <<k, nextId[k]>>] /\ pc' = [pc EXCEPT ![w] = "working"]
    BY <1>6 DEF CreateJob, Move
  <2> QED
    BY <2>1, <2>2, NoRow DEF JobTypes, Locations, InJob
<1>7. ASSUME NEW w \in Workers, Look(w) PROVE JobTypes'
  BY <1>7 DEF Look, Move, JobTypes, Locations, InJob
<1>8. ASSUME NEW w \in Workers, Progress(w) PROVE JobTypes'
  BY <1>8 DEF Progress, Move, JobTypes, Locations, InJob
<1>9. ASSUME NEW w \in Workers, Finish(w) PROVE JobTypes'
  BY <1>9 DEF Finish, BackToPipeline, Move, JobTypes, Locations, InJob
<1>10. ASSUME NEW w \in Workers, WriteCancelled(w) PROVE JobTypes'
  BY <1>10 DEF WriteCancelled, Move, JobTypes, Locations, InJob
<1>11. ASSUME NEW w \in Workers, ClearFlag(w) PROVE JobTypes'
  BY <1>11 DEF ClearFlag, BackToPipeline, Move, JobTypes, Locations, InJob
<1>12. ASSUME NEW w \in Workers, Raise(w) PROVE JobTypes'
  BY <1>12 DEF Raise, Move, JobTypes, Locations, InJob
<1>13. ASSUME NEW w \in Workers, FailRow(w) PROVE JobTypes'
  BY <1>13 DEF FailRow, BackToPipeline, Move, JobTypes, Locations, InJob
<1>14. ASSUME NEW w \in Workers, FailRowRaises(w) PROVE JobTypes'
  BY <1>14 DEF FailRowRaises, BackToPipeline, Move, JobTypes, Locations, InJob
<1>15. ASSUME NEW q \in Requests, Request(q) PROVE JobTypes'
  BY <1>15 DEF Request, procVars, JobTypes
<1>16. CASE Pause
  BY <1>16 DEF Pause, procVars, JobTypes
<1>17. CASE Unpause
  BY <1>17 DEF Unpause, procVars, JobTypes
<1>18. CASE ListRunning
  BY <1>18 DEF ListRunning, procVars, JobTypes
<1>19. CASE Cancel
  BY <1>19 DEF Cancel, procVars, JobTypes
<1>20. CASE Wipe
  BY <1>20 DEF Wipe, procVars, JobTypes
<1>21. CASE Sweep
  BY <1>21 DEF Sweep, procVars, JobTypes
<1>22. CASE Terminate
  BY <1>22 DEF Terminate, JobTypes
<1>23. CASE Truncate
  BY <1>23 DEF Truncate, procVars, JobTypes
<1>24. CASE Flush
  BY <1>24 DEF Flush, procVars, JobTypes
<1>25. CASE PurgeConversations
  BY <1>25 DEF PurgeConversations, procVars, JobTypes
<1>26. CASE PurgeRows
  BY <1>26 DEF PurgeRows, procVars, JobTypes
<1> QED
  BY ControlSteps, <1>1, <1>2, <1>3, <1>4, <1>5, <1>6, <1>7, <1>8, <1>9, <1>10, <1>11, <1>12, <1>13, <1>14, <1>15, <1>16, <1>17, <1>18, <1>19, <1>20, <1>21, <1>22, <1>23, <1>24, <1>25, <1>26

\* A step gives a row to no id but the next one.
LEMMA UnusedPreserved ==
  ASSUME RowTypes, JobTypes, Unused, [ControlNext]_controlVars
  PROVE  Unused'
<1>1. CASE UNCHANGED controlVars
  BY <1>1 DEF controlVars, Unused
<1>2. ASSUME NEW w \in Workers, ScheduledCheck(w) PROVE Unused'
  BY <1>2 DEF ScheduledCheck, Unused
<1>3. ASSUME NEW w \in Workers, Begin(w) PROVE Unused'
  BY <1>3 DEF Begin, Unused
<1>4. ASSUME NEW w \in Workers, CompleteSync(w) PROVE Unused'
  BY <1>4 DEF CompleteSync, Unused
<1>5. ASSUME NEW w \in Workers, Abort(w) PROVE Unused'
  BY <1>5 DEF Abort, Unused
<1>6. ASSUME NEW w \in Workers, NEW k \in Kinds, CreateJob(w, k) PROVE Unused'
  <2>1. <<k, nextId[k]>> \in Rows
    BY <1>6 DEF CreateJob, Rows
  <2>2. \A l \in Kinds, i \in Ids :
          rows'[l][i] = IF l = k /\ i = nextId[k] THEN "running" ELSE rows[l][i]
    BY <1>6, <2>1, WriteFacts DEF CreateJob, RowStatus
  <2>3. nextId' = [nextId EXCEPT ![k] = nextId[k] + 1] /\ \A l \in Kinds : nextId[l] \in Nat
    BY <1>6, NoRow DEF CreateJob, RowTypes
  <2> QED
    BY <2>2, <2>3, NoRow DEF Unused, RowTypes
<1>7. ASSUME NEW w \in Workers, Look(w) PROVE Unused'
  BY <1>7 DEF Look, Unused
<1>8. ASSUME NEW w \in Workers, Progress(w) PROVE Unused'
  BY <1>8 DEF Progress, Unused
<1>9. ASSUME NEW w \in Workers, Finish(w) PROVE Unused'
  <2>1. job[w] \in Rows
    BY <1>9, JobOfProcess DEF Finish, InJob
  <2>2. \A k \in Kinds, i \in Ids : rows[k][i] = "absent" => rows'[k][i] = "absent"
    BY <1>9, <2>1, WriteFacts, RowParts DEF Finish, RowStatus, Verdicts, Exists, Status
  <2> QED
    BY <1>9, <2>2 DEF Finish, Unused
<1>10. ASSUME NEW w \in Workers, WriteCancelled(w) PROVE Unused'
  <2>1. job[w] \in Rows
    BY <1>10, JobOfProcess DEF WriteCancelled, InJob
  <2>2. \A k \in Kinds, i \in Ids : rows[k][i] = "absent" => rows'[k][i] = "absent"
    BY <1>10, <2>1, WriteFacts, RowParts DEF WriteCancelled, RowStatus, Verdicts, Exists, Status
  <2> QED
    BY <1>10, <2>2 DEF WriteCancelled, Unused
<1>11. ASSUME NEW w \in Workers, ClearFlag(w) PROVE Unused'
  BY <1>11 DEF ClearFlag, Unused
<1>12. ASSUME NEW w \in Workers, Raise(w) PROVE Unused'
  BY <1>12 DEF Raise, Unused
<1>13. ASSUME NEW w \in Workers, FailRow(w) PROVE Unused'
  <2>1. job[w] \in Rows
    BY <1>13, JobOfProcess DEF FailRow, InJob
  <2>2. \A k \in Kinds, i \in Ids : rows[k][i] = "absent" => rows'[k][i] = "absent"
    BY <1>13, <2>1, WriteFacts, RowParts DEF FailRow, RowStatus, Verdicts, Exists, Status
  <2> QED
    BY <1>13, <2>2 DEF FailRow, Unused
<1>14. ASSUME NEW w \in Workers, FailRowRaises(w) PROVE Unused'
  BY <1>14 DEF FailRowRaises, Unused
<1>15. ASSUME NEW q \in Requests, Request(q) PROVE Unused'
  BY <1>15 DEF Request, Unused
<1>16. CASE Pause
  BY <1>16 DEF Pause, Unused
<1>17. CASE Unpause
  BY <1>17 DEF Unpause, Unused
<1>18. CASE ListRunning
  BY <1>18 DEF ListRunning, Unused
<1>19. CASE Cancel
  BY <1>19 DEF Cancel, Unused
<1>20. CASE Wipe
  BY <1>20 DEF Wipe, Unused
<1>21. CASE Sweep
  BY <1>21 DEF Sweep, Unused
<1>22. CASE Terminate
  BY <1>22 DEF Terminate, Unused
<1>23. CASE Truncate
  BY <1>23 DEF Truncate, Unused
<1>24. CASE Flush
  BY <1>24 DEF Flush, Unused
<1>25. CASE PurgeConversations
  BY <1>25 DEF PurgeConversations, Unused
<1>26. CASE PurgeRows
  BY <1>26 DEF PurgeRows, Unused
<1> QED
  BY ControlSteps, <1>1, <1>2, <1>3, <1>4, <1>5, <1>6, <1>7, <1>8, <1>9, <1>10, <1>11, <1>12, <1>13, <1>14, <1>15, <1>16, <1>17, <1>18, <1>19, <1>20, <1>21, <1>22, <1>23, <1>24, <1>25, <1>26

\* Own is kept by a step that revives no row and leaves the ids and who made them
\* alone, whoever leaves a job with it.
LEMMA OwnKept ==
  ASSUME JobTypes, Own, nextId' = nextId, maker' = maker,
         \A k \in Kinds, i \in Ids : rows[k][i] = "absent" => rows'[k][i] = "absent",
         \/ job' = job /\ stale' = stale
         \/ \E w \in Workers : job' = [job EXCEPT ![w] = NoJob] /\ stale' = stale \ {w}
  PROVE  Own'
<1> SUFFICES ASSUME NEW v \in Workers, job'[v] # NoJob, v \notin stale'
             PROVE  job[v][2] < nextId[job[v][1]] /\ (Exists(v)' => maker[job[v][1]][job[v][2]] = v) /\ job'[v] = job[v]
  BY DEF Own
<1>1. job'[v] = job[v] /\ job[v] # NoJob /\ v \notin stale
  BY DEF JobTypes
<1>2. job[v][1] \in Kinds /\ job[v][2] \in Ids
  BY <1>1, RowParts DEF JobTypes
<1>3. Exists(v)' => Exists(v)
  BY <1>1, <1>2 DEF Exists, Status
<1> QED
  BY <1>1, <1>3 DEF Own

\* A step leaves every row of a job to the process that made it.
LEMMA OwnPreserved ==
  ASSUME RowTypes, JobTypes, Own, [ControlNext]_controlVars
  PROVE  Own'
<1>1. CASE UNCHANGED controlVars
  BY <1>1 DEF controlVars, procVars, histVars, Own, Exists, Status
<1>2. ASSUME NEW w \in Workers, ScheduledCheck(w) PROVE Own'
  BY <1>2 DEF ScheduledCheck, histVars, Own, Exists, Status
<1>3. ASSUME NEW w \in Workers, Begin(w) PROVE Own'
  BY <1>3 DEF Begin, histVars, Own, Exists, Status
<1>4. ASSUME NEW w \in Workers, CompleteSync(w) PROVE Own'
  BY <1>4 DEF CompleteSync, histVars, Own, Exists, Status
<1>5. ASSUME NEW w \in Workers, Abort(w) PROVE Own'
  BY <1>5 DEF Abort, histVars, Own, Exists, Status
<1>6. ASSUME NEW w \in Workers, NEW k \in Kinds, CreateJob(w, k) PROVE Own'
  <2>1. <<k, nextId[k]>> \in Rows /\ nextId[k] \in Nat
    BY <1>6, NoRow DEF CreateJob, Rows, RowTypes
  <2>2. \A l \in Kinds, i \in Ids :
          rows'[l][i] = IF l = k /\ i = nextId[k] THEN "running" ELSE rows[l][i]
    BY <1>6, <2>1, WriteFacts DEF CreateJob, RowStatus
  <2>3. /\ nextId'[k] = nextId[k] + 1 /\ \A l \in Kinds \ {k} : nextId'[l] = nextId[l]
        /\ maker'[k][nextId[k]] = w
        /\ \A l \in Kinds, i \in Ids : l # k \/ i # nextId[k] => maker'[l][i] = maker[l][i]
        /\ job'[w] = <<k, nextId[k]>> /\ \A v \in Workers \ {w} : job'[v] = job[v]
        /\ stale' = stale
    BY <1>6 DEF CreateJob, RowTypes, JobTypes
  <2> SUFFICES ASSUME NEW v \in Workers, job'[v] # NoJob, v \notin stale
               PROVE  job'[v][2] < nextId'[job'[v][1]] /\ (Exists(v)' => maker'[job'[v][1]][job'[v][2]] = v)
    BY <2>3 DEF Own
  <2>4. CASE v = w
    BY <2>1, <2>3, <2>4
  <2>5. CASE v # w
    <3>1. job[v] \in Rows /\ job'[v] = job[v] /\ job[v] # NoJob
      BY <2>3, <2>5 DEF JobTypes
    <3>2. job[v][2] < nextId[job[v][1]] /\ (Exists(v) => maker[job[v][1]][job[v][2]] = v)
      BY <3>1 DEF Own
    <3>3. job[v][1] \in Kinds /\ job[v][2] \in Ids
      BY <3>1, RowParts
    <3>4. job[v][1] # k \/ job[v][2] # nextId[k]
      BY <2>1, <3>2, <3>3, NoRow
    <3>5. nextId[job[v][1]] \in Nat
      BY <3>3, NoRow DEF RowTypes
    <3>6. nextId'[job[v][1]] \in Nat /\ nextId[job[v][1]] <= nextId'[job[v][1]]
      BY <2>1, <2>3, <3>3, <3>5
    <3>7. job[v][2] < nextId'[job[v][1]]
      <4>1. job[v][2] \in Nat
        BY <3>3, NoRow
      <4> QED
        BY <3>2, <3>5, <3>6, <4>1
    <3>8. Exists(v)' => Exists(v)
      BY <2>2, <3>1, <3>3, <3>4 DEF Exists, Status
    <3> QED
      BY <2>3, <3>1, <3>2, <3>3, <3>4, <3>7, <3>8
  <2> QED
    BY <2>4, <2>5
<1>7. ASSUME NEW w \in Workers, Look(w) PROVE Own'
  BY <1>7 DEF Look, histVars, Own, Exists, Status
<1>8. ASSUME NEW w \in Workers, Progress(w) PROVE Own'
  BY <1>8 DEF Progress, histVars, Own, Exists, Status
<1>9. ASSUME NEW w \in Workers, Finish(w) PROVE Own'
  <2>1. job[w] \in Rows
    BY <1>9, JobOfProcess DEF Finish, InJob
  <2>2. \A k \in Kinds, i \in Ids : rows[k][i] = "absent" => rows'[k][i] = "absent"
    BY <1>9, <2>1, WriteFacts, RowParts DEF Finish, RowStatus, Verdicts, Exists, Status
  <2>3. job' = [job EXCEPT ![w] = NoJob] /\ stale' = stale \ {w} /\ nextId' = nextId /\ maker' = maker
    BY <1>9 DEF Finish, BackToPipeline
  <2> QED
    BY <2>2, <2>3, OwnKept
<1>10. ASSUME NEW w \in Workers, WriteCancelled(w) PROVE Own'
  <2>1. job[w] \in Rows
    BY <1>10, JobOfProcess DEF WriteCancelled, InJob
  <2>2. \A k \in Kinds, i \in Ids : rows[k][i] = "absent" => rows'[k][i] = "absent"
    BY <1>10, <2>1, WriteFacts, RowParts DEF WriteCancelled, RowStatus, Verdicts, Exists, Status
  <2>3. job' = job /\ stale' = stale /\ nextId' = nextId /\ maker' = maker
    BY <1>10 DEF WriteCancelled, histVars
  <2> QED
    BY <2>2, <2>3, OwnKept
<1>11. ASSUME NEW w \in Workers, ClearFlag(w) PROVE Own'
  BY <1>11 DEF ClearFlag, BackToPipeline, JobTypes, Own, Exists, Status
<1>12. ASSUME NEW w \in Workers, Raise(w) PROVE Own'
  BY <1>12 DEF Raise, histVars, Own, Exists, Status
<1>13. ASSUME NEW w \in Workers, FailRow(w) PROVE Own'
  <2>1. job[w] \in Rows
    BY <1>13, JobOfProcess DEF FailRow, InJob
  <2>2. \A k \in Kinds, i \in Ids : rows[k][i] = "absent" => rows'[k][i] = "absent"
    BY <1>13, <2>1, WriteFacts, RowParts DEF FailRow, RowStatus, Verdicts, Exists, Status
  <2>3. job' = [job EXCEPT ![w] = NoJob] /\ stale' = stale \ {w} /\ nextId' = nextId /\ maker' = maker
    BY <1>13 DEF FailRow, BackToPipeline
  <2> QED
    BY <2>2, <2>3, OwnKept
<1>14. ASSUME NEW w \in Workers, FailRowRaises(w) PROVE Own'
  BY <1>14 DEF FailRowRaises, BackToPipeline, JobTypes, Own, Exists, Status
<1>15. ASSUME NEW q \in Requests, Request(q) PROVE Own'
  BY <1>15 DEF Request, procVars, histVars, Own, Exists, Status
<1>16. CASE Pause
  BY <1>16 DEF Pause, procVars, histVars, Own, Exists, Status
<1>17. CASE Unpause
  BY <1>17 DEF Unpause, procVars, histVars, Own, Exists, Status
<1>18. CASE ListRunning
  BY <1>18 DEF ListRunning, procVars, Own, Exists, Status
<1>19. CASE Cancel
  <2>1. \A k \in Kinds, i \in Ids : rows[k][i] = "absent" => rows'[k][i] = "absent"
    BY <1>19 DEF Cancel
  <2>2. job' = job /\ stale' = stale /\ nextId' = nextId /\ maker' = maker
    BY <1>19 DEF Cancel, procVars, histVars
  <2> QED
    BY <2>1, <2>2, OwnKept
<1>20. CASE Wipe
  BY <1>20 DEF Wipe, procVars, Own, Exists, Status
<1>21. CASE Sweep
  BY <1>21 DEF Sweep, procVars, Own, Exists, Status
<1>22. CASE Terminate
  BY <1>22 DEF Terminate, histVars, Own, Exists, Status
<1>23. CASE Truncate
  <2> SUFFICES ASSUME NEW v \in Workers, job'[v] # NoJob, v \notin stale'
               PROVE  job'[v][2] < nextId'[job'[v][1]] /\ (Exists(v)' => maker'[job'[v][1]][job'[v][2]] = v)
    BY DEF Own
  <2>1. job' = job /\ v \notin stale /\ job[v][1] \notin Covered
    BY <1>23 DEF Truncate, procVars
  <2>2. job[v] \in Rows
    BY <2>1 DEF JobTypes
  <2>3. job[v][1] \in Kinds /\ job[v][2] \in Ids
    BY <2>2, RowParts
  <2>4. LET k == job[v][1] IN rows'[k] = rows[k] /\ nextId'[k] = nextId[k] /\ maker'[k] = maker[k]
    BY <1>23, <2>1, <2>3 DEF Truncate
  <2> QED
    BY <2>1, <2>2, <2>4 DEF Own, Exists, Status
<1>24. CASE Flush
  BY <1>24 DEF Flush, procVars, Own, Exists, Status
<1>25. CASE PurgeConversations
  BY <1>25 DEF PurgeConversations, procVars, histVars, Own, Exists, Status
<1>26. CASE PurgeRows
  <2> SUFFICES ASSUME NEW v \in Workers, job'[v] # NoJob, v \notin stale'
               PROVE  job'[v][2] < nextId'[job'[v][1]] /\ (Exists(v)' => maker'[job'[v][1]][job'[v][2]] = v)
    BY DEF Own
  <2>1. job' = job /\ stale' = stale /\ nextId' = nextId
    BY <1>26 DEF PurgeRows, procVars
  <2>2. job[v] # NoJob /\ job[v] \in Rows
    BY <2>1 DEF JobTypes
  <2>3. job[v][1] \in Kinds /\ job[v][2] \in Ids
    BY <2>2, RowParts
  <2>4. CASE job[v][1] \in Covered
    <3>1. ~Exists(v)'
      BY <1>26, <2>1, <2>3, <2>4 DEF PurgeRows, Exists, Status
    <3> QED
      BY <2>1, <2>2, <3>1 DEF Own
  <2>5. CASE job[v][1] \notin Covered
    <3>1. LET k == job[v][1] IN rows'[k] = rows[k] /\ maker'[k] = maker[k]
      BY <1>26, <2>3, <2>5 DEF PurgeRows
    <3> QED
      BY <2>1, <2>2, <3>1 DEF Own, Exists, Status
  <2> QED
    BY <2>4, <2>5
<1> QED
  BY ControlSteps, <1>1, <1>2, <1>3, <1>4, <1>5, <1>6, <1>7, <1>8, <1>9, <1>10, <1>11, <1>12, <1>13, <1>14, <1>15, <1>16, <1>17, <1>18, <1>19, <1>20, <1>21, <1>22, <1>23, <1>24, <1>25, <1>26

-------------------------------------------------------------------------------
\* A verdict on a row that is there is a step of the ledger.
LEMMA VerdictJudges ==
  ASSUME RowTypes, NEW r \in Rows, Status(r) # "absent", NEW s \in Verdicts, Write(r, s)
  PROVE  Ledger!LedgerNext
<1>1. /\ rows' \in [Kinds -> [Ids -> RowStatus]]
      /\ \A k \in Kinds, i \in Ids : rows'[k][i] = IF k = r[1] /\ i = r[2] THEN s ELSE rows[k][i]
  BY WriteFacts DEF RowStatus
<1>2. \A k \in Kinds, i \in Ids :
        rows'[k][i] # rows[k][i] => rows[k][i] # "absent" /\ rows'[k][i] \in Verdicts
  BY <1>1 DEF Status
<1> QED
  BY <1>1, <1>2 DEF Ledger!LedgerNext, Ledger!Judge, Ledger!Verdicts, RowStatus, Verdicts

\* A step is a step of the ledger, or leaves the rows alone.
LEMMA StepsOfLedger ==
  ASSUME RowTypes, JobTypes, Unused, [ControlNext]_controlVars
  PROVE  Ledger!LedgerNext \/ rows' = rows
<1>1. CASE UNCHANGED controlVars
  BY <1>1 DEF controlVars
<1>2. ASSUME NEW w \in Workers, ScheduledCheck(w) PROVE Ledger!LedgerNext \/ rows' = rows
  BY <1>2 DEF ScheduledCheck
<1>3. ASSUME NEW w \in Workers, Begin(w) PROVE Ledger!LedgerNext \/ rows' = rows
  BY <1>3 DEF Begin
<1>4. ASSUME NEW w \in Workers, CompleteSync(w) PROVE Ledger!LedgerNext \/ rows' = rows
  BY <1>4 DEF CompleteSync
<1>5. ASSUME NEW w \in Workers, Abort(w) PROVE Ledger!LedgerNext \/ rows' = rows
  BY <1>5 DEF Abort
<1>6. ASSUME NEW w \in Workers, NEW k \in Kinds, CreateJob(w, k) PROVE Ledger!LedgerNext \/ rows' = rows
  <2>1. nextId[k] \in Ids /\ rows[k][nextId[k]] = "absent"
    BY <1>6, NoRow DEF CreateJob, Unused
  <2>2. rows' = [rows EXCEPT ![k][nextId[k]] = "running"]
    BY <1>6 DEF CreateJob, Write
  <2> QED
    BY <2>1, <2>2 DEF Ledger!LedgerNext, Ledger!Insert
<1>7. ASSUME NEW w \in Workers, Look(w) PROVE Ledger!LedgerNext \/ rows' = rows
  BY <1>7 DEF Look
<1>8. ASSUME NEW w \in Workers, Progress(w) PROVE Ledger!LedgerNext \/ rows' = rows
  BY <1>8 DEF Progress
<1>9. ASSUME NEW w \in Workers, Finish(w) PROVE Ledger!LedgerNext \/ rows' = rows
  <2>1. job[w] \in Rows
    BY <1>9, JobOfProcess DEF Finish, InJob
  <2> QED
    BY <1>9, <2>1, VerdictJudges DEF Finish, Verdicts, Exists
<1>10. ASSUME NEW w \in Workers, WriteCancelled(w) PROVE Ledger!LedgerNext \/ rows' = rows
  <2>1. job[w] \in Rows
    BY <1>10, JobOfProcess DEF WriteCancelled, InJob
  <2> QED
    BY <1>10, <2>1, VerdictJudges DEF WriteCancelled, Verdicts, Exists
<1>11. ASSUME NEW w \in Workers, ClearFlag(w) PROVE Ledger!LedgerNext \/ rows' = rows
  BY <1>11 DEF ClearFlag
<1>12. ASSUME NEW w \in Workers, Raise(w) PROVE Ledger!LedgerNext \/ rows' = rows
  BY <1>12 DEF Raise
<1>13. ASSUME NEW w \in Workers, FailRow(w) PROVE Ledger!LedgerNext \/ rows' = rows
  <2>1. job[w] \in Rows
    BY <1>13, JobOfProcess DEF FailRow, InJob
  <2>2. CASE Exists(w)
    BY <1>13, <2>1, <2>2, VerdictJudges DEF FailRow, Verdicts, Exists
  <2>3. CASE ~Exists(w)
    BY <1>13, <2>3 DEF FailRow
  <2> QED
    BY <2>2, <2>3
<1>14. ASSUME NEW w \in Workers, FailRowRaises(w) PROVE Ledger!LedgerNext \/ rows' = rows
  BY <1>14 DEF FailRowRaises
<1>15. ASSUME NEW q \in Requests, Request(q) PROVE Ledger!LedgerNext \/ rows' = rows
  BY <1>15 DEF Request
<1>16. CASE Pause
  BY <1>16 DEF Pause
<1>17. CASE Unpause
  BY <1>17 DEF Unpause
<1>18. CASE ListRunning
  BY <1>18 DEF ListRunning
<1>19. CASE Cancel
  <2>1. \A k \in Kinds, i \in Ids :
          rows'[k][i] # rows[k][i] => rows[k][i] # "absent" /\ rows'[k][i] = "cancelled"
    BY <1>19 DEF Cancel
  <2> QED
    BY <2>1, RowTypesPreserved DEF Ledger!LedgerNext, Ledger!Judge, Ledger!Verdicts, RowTypes, RowStatus, Verdicts
<1>20. CASE Wipe
  BY <1>20 DEF Wipe
<1>21. CASE Sweep
  BY <1>21 DEF Sweep
<1>22. CASE Terminate
  BY <1>22 DEF Terminate
<1>23. CASE Truncate
  <2>1. \A k \in Kinds, i \in Ids : rows'[k][i] \in {rows[k][i], "absent"}
    BY <1>23 DEF Truncate
  <2> QED
    BY <2>1, RowTypesPreserved DEF Ledger!LedgerNext, Ledger!Delete, Ledger!Verdicts, RowTypes, RowStatus, Verdicts
<1>24. CASE Flush
  BY <1>24 DEF Flush
<1>25. CASE PurgeConversations
  BY <1>25 DEF PurgeConversations
<1>26. CASE PurgeRows
  <2>1. \A k \in Kinds, i \in Ids : rows'[k][i] \in {rows[k][i], "absent"}
    BY <1>26 DEF PurgeRows
  <2> QED
    BY <2>1, RowTypesPreserved DEF Ledger!LedgerNext, Ledger!Delete, Ledger!Verdicts, RowTypes, RowStatus, Verdicts
<1> QED
  BY ControlSteps, <1>1, <1>2, <1>3, <1>4, <1>5, <1>6, <1>7, <1>8, <1>9, <1>10, <1>11, <1>12, <1>13, <1>14, <1>15, <1>16, <1>17, <1>18, <1>19, <1>20, <1>21, <1>22, <1>23, <1>24, <1>25, <1>26

-------------------------------------------------------------------------------
\* The invariant holds in every initial state.
LEMMA ControlInvInit ==
  ASSUME ControlInit
  PROVE  ControlInv
<1>1. RowTypes
  <2>1. 1 \in 1..(MaxId + 1)
    BY NoRow
  <2> QED
    BY <2>1 DEF ControlInit, RowTypes, RowStatus
<1>2. JobTypes /\ Unused /\ Own
  BY DEF ControlInit, JobTypes, Unused, Own, Locations, InJob
<1> QED
  BY <1>1, <1>2 DEF ControlInv

\* ControlInv is an invariant of the processes and requests.
THEOREM ControlInvariant == ControlSpec => []ControlInv
<1>1. ControlInit => ControlInv
  BY ControlInvInit
<1>2. ControlInv /\ [ControlNext]_controlVars => ControlInv'
  BY RowTypesPreserved, JobTypesPreserved, UnusedPreserved, OwnPreserved DEF ControlInv
<1> QED
  BY <1>1, <1>2, PTL DEF ControlSpec

\* Verdicts written by id (the handlers of run_job) never hit the row of another
\* process, unless a full purge has restarted the ids during the job.
THEOREM ControlRowIsOwn == ControlSpec => []RowIsOwn
<1>1. ControlInv => RowIsOwn
  BY DEF ControlInv, Own, RowIsOwn
<1> QED
  BY <1>1, ControlInvariant, PTL

\* Whatever operators and processes do to the job tables is an insert under an
\* unused id, a verdict on rows that are there, or a deletion.
THEOREM ControlImplementsLedger == ControlSpec => ImplementsLedger
<1>1. ControlInit => Ledger!LedgerInit
  BY DEF ControlInit, Ledger!LedgerInit
<1>2. ControlInv /\ [ControlNext]_controlVars => [Ledger!LedgerNext]_rows
  BY StepsOfLedger DEF ControlInv
<1> QED
  BY <1>1, <1>2, ControlInvariant, PTL DEF ControlSpec, ImplementsLedger, Ledger!LedgerSpec
-------------------------------------------------------------------------------
(* What the requests of operators do *)

\* What is left of a request: a flush is followed by a pause, a list by a
\* cancel, nothing follows a wipe; rows are held between list and cancel only.
ScriptInv ==
  /\ script \in Seq(Steps)
  /\ \A n \in DOMAIN script :
       /\ script[n] = "flush" => n + 1 \in DOMAIN script /\ script[n + 1] = "pause"
       /\ script[n] = "list" => n + 1 \in DOMAIN script /\ script[n + 1] = "cancel"
       /\ script[n] = "wipe" => n = Len(script)
  /\ listed # {} => script # <<>> /\ Head(script) = "cancel"

\* A resume has nothing to wipe, and who will wipe has paused or will.
PauseInv ==
  /\ "unpause" \in Pending => ~stopped /\ "wipe" \notin Pending
  /\ stopped \/ "wipe" \in Pending => paused \/ "pause" \in Pending

\* Nothing marks the agent as synced, and nobody is about to.
Fresh ==
  /\ ~marked /\ Alive = {}
  /\ "ingest" \in Kinds => \A i \in Ids : rows["ingest"][i] # "complete"

\* A request holds rows that have been created.
ListedInv == \A r \in listed : r \in Rows /\ r[2] < nextId[r[1]]

\* No two processes have the same row, but for a restart of the ids.
Distinct == \A v, w \in Workers \ stale : job[v] # NoJob /\ job[v] = job[w] => v = w

\* Rows that a process of before a full purge has cancelled by id.
StrayRows == {job[v] : v \in {v \in Workers : v \in stale /\ pc[v] = "clearing"}}

\* The process will not look at the flag again.
LastLook(w) == pc[w] = "looked" /\ left[w] = 0

\* It will see the flag, or one of the excuses applies.
Warned(w, excuse) ==
  \/ job[w] \in late \cup wiped \cup excuse
  \/ job[w] \in flags /\ ~LastLook(w)

\* A process at work on a row that is listed or cancelled is warned.
WarnedInv ==
  \A w \in Workers \ stale : pc[w] \in {"working", "looked"} =>
    /\ job[w] \in listed => Warned(w, {})
    /\ Status(job[w]) = "cancelled" => Warned(w, StrayRows)

\* What the processes collect and have left to do.
ProcTypes == sync \in [Workers -> {"none", "full", "incremental"}] /\ left \in [Workers -> Int]

FetchInv == deleted /\ ~met => "rows" \in Pending \/ Fresh
-------------------------------------------------------------------------------
\* A process leaves the request, the pause and the stop alone.
LEMMA WorkerKeepsRequest ==
  ASSUME NEW w \in Workers, WorkerNext(w)
  PROVE  UNCHANGED <<paused, stopped, script, listed>>
BY DEF WorkerNext, ScheduledCheck, Begin, CompleteSync, Abort, CreateJob, Look, Progress, Finish,
       WriteCancelled, ClearFlag, Raise, FailRow, FailRowRaises, opVars

\* A request goes on by taking the first of its steps.
LEMMA RequestTakes ==
  ASSUME RequestNext
  PROVE  script # <<>> /\ script' = Tail(script)
BY DEF RequestNext, Pause, Unpause, ListRunning, Cancel, Wipe, Sweep, Terminate, Truncate, Flush,
       PurgeConversations, PurgeRows, Take

\* What is left after a step.
LEMMA TailFacts ==
  ASSUME script \in Seq(Steps), script # <<>>, script' = Tail(script)
  PROVE  /\ script' \in Seq(Steps) /\ Len(script') = Len(script) - 1
         /\ Len(script) \in Nat \ {0} /\ Head(script) = script[1]
         /\ \A n \in DOMAIN script' : n + 1 \in DOMAIN script /\ script'[n] = script[n + 1]
         /\ Pending = {Head(script)} \cup Pending'
<1>1. /\ script' \in Seq(Steps) /\ Len(script') = Len(script) - 1
      /\ Len(script) \in Nat \ {0} /\ Head(script) = script[1]
      /\ DOMAIN script = 1..Len(script) /\ DOMAIN script' = 1..(Len(script) - 1)
      /\ \A n \in 1..(Len(script) - 1) : script'[n] = script[n + 1]
  OBVIOUS
<1>2. \A n \in DOMAIN script' : n + 1 \in DOMAIN script /\ script'[n] = script[n + 1]
  BY <1>1
<1>3. Pending' \subseteq Pending
  BY <1>2 DEF Pending
<1>4. Head(script) \in Pending
  BY <1>1 DEF Pending
<1>5. ASSUME NEW s \in Pending, s # Head(script) PROVE s \in Pending'
  <2>1. PICK n \in DOMAIN script : script[n] = s
    BY DEF Pending
  <2>2. n - 1 \in DOMAIN script' /\ script'[n - 1] = s
    BY <1>1, <1>5, <2>1
  <2> QED
    BY <2>2 DEF Pending
<1> QED
  BY <1>1, <1>2, <1>3, <1>4, <1>5

\* Each request, step by step.
LEMMA ScriptOf ==
  ASSUME NEW q \in Requests
  PROVE  /\ Script[q] \in Seq(Steps)
         /\ \A n \in DOMAIN Script[q] :
              /\ Script[q][n] = "flush" => n + 1 \in DOMAIN Script[q] /\ Script[q][n + 1] = "pause"
              /\ Script[q][n] = "list" => n + 1 \in DOMAIN Script[q] /\ Script[q][n + 1] = "cancel"
              /\ Script[q][n] = "wipe" => n = Len(Script[q])
         /\ (\E n \in DOMAIN Script[q] : Script[q][n] = "unpause") => q = "resume"
         /\ (\E n \in DOMAIN Script[q] : Script[q][n] = "wipe") =>
              q # "resume" /\ \E n \in DOMAIN Script[q] : Script[q][n] = "pause"
<1>1. q \in {"stop", "resume", "purge", "agent", "insights", "conversations", "keepInsights"}
  BY DEF Requests, Script
<1>2. \A n \in DOMAIN Script[q] : Script[q][n] \in Steps
  BY DEF Steps
<1>3. CASE q = "stop"
  <2>1. Script[q] = <<"pause", "list", "cancel", "wipe">>
    BY <1>3 DEF Script
  <2> QED
    BY <1>2, <1>3, <2>1
<1>4. CASE q = "resume"
  <2>1. Script[q] = <<"unpause", "sweep">>
    BY <1>4 DEF Script
  <2> QED
    BY <1>2, <1>4, <2>1
<1>5. CASE q = "purge"
  <2>1. Script[q] = <<"pause", "list", "cancel", "terminate", "truncate", "flush", "pause", "wipe">>
    BY <1>5 DEF Script, PurgeSteps
  <2> QED
    BY <1>2, <1>5, <2>1
<1>6. CASE q = "agent"
  <2>1. Script[q] = <<"list", "cancel", "conversations", "rows">>
    BY <1>6 DEF Script
  <2> QED
    BY <1>2, <1>6, <2>1
<1>7. CASE q = "insights"
  <2>1. Script[q] = <<"list", "cancel", "rows">>
    BY <1>7 DEF Script
  <2> QED
    BY <1>2, <1>7, <2>1
<1>8. CASE q = "conversations"
  <2>1. Script[q] = <<"conversations", "list", "cancel", "rows">>
    BY <1>8 DEF Script
  <2> QED
    BY <1>2, <1>8, <2>1
<1>9. CASE q = "keepInsights"
  <2>1. Script[q] = <<"conversations">>
    BY <1>9 DEF Script
  <2> QED
    BY <1>2, <1>9, <2>1
<1> QED
  BY <1>1, <1>3, <1>4, <1>5, <1>6, <1>7, <1>8, <1>9
-------------------------------------------------------------------------------
\* A step keeps the shape of what is left of a request.
LEMMA ScriptInvPreserved ==
  ASSUME ScriptInv, [ControlNext]_controlVars
  PROVE  ScriptInv'
<1>1. CASE UNCHANGED controlVars
  BY <1>1 DEF controlVars, opVars, ScriptInv
<1>2. ASSUME NEW w \in Workers, WorkerNext(w) PROVE ScriptInv'
  BY <1>2, WorkerKeepsRequest DEF ScriptInv
<1>3. ASSUME NEW q \in Requests, Request(q) PROVE ScriptInv'
  <2>1. script' = Script[q] /\ listed' = {}
    BY <1>3 DEF Request, ScriptInv
  <2> QED
    BY <2>1, ScriptOf DEF ScriptInv
<1>4. CASE RequestNext
  <2>1. script # <<>> /\ script' = Tail(script)
    BY <1>4, RequestTakes
  <2>2. \A n \in DOMAIN script' :
          /\ script'[n] = "flush" => n + 1 \in DOMAIN script' /\ script'[n + 1] = "pause"
          /\ script'[n] = "list" => n + 1 \in DOMAIN script' /\ script'[n + 1] = "cancel"
          /\ script'[n] = "wipe" => n = Len(script')
    <3> TAKE n \in DOMAIN script'
    <3>1. /\ n + 1 \in DOMAIN script /\ script'[n] = script[n + 1]
          /\ n \in 1..(Len(script) - 1) /\ Len(script) \in Nat \ {0}
          /\ DOMAIN script = 1..Len(script) /\ DOMAIN script' = 1..(Len(script) - 1)
      BY <2>1, TailFacts DEF ScriptInv
    <3>2. n + 2 \in DOMAIN script => n + 1 \in DOMAIN script' /\ script'[n + 1] = script[n + 2]
      BY <2>1, <3>1, TailFacts DEF ScriptInv
    <3>3. /\ script[n + 1] = "flush" => n + 2 \in DOMAIN script /\ script[n + 2] = "pause"
          /\ script[n + 1] = "list" => n + 2 \in DOMAIN script /\ script[n + 2] = "cancel"
          /\ script[n + 1] = "wipe" => n + 1 = Len(script)
      BY <3>1 DEF ScriptInv
    <3> QED
      BY <2>1, <3>1, <3>2, <3>3, TailFacts DEF ScriptInv
  <2>3. listed' # {} => script' # <<>> /\ Head(script') = "cancel"
    <3>1. CASE ListRunning
      <4>1. script[1] = "list" /\ 1 \in DOMAIN script
        BY <2>1, <3>1, TailFacts DEF ListRunning, Take, ScriptInv
      <4>2. 2 \in DOMAIN script /\ script[2] = "cancel"
        BY <4>1 DEF ScriptInv
      <4>3. 1 \in DOMAIN script' /\ script'[1] = "cancel"
        BY <2>1, <4>2, TailFacts DEF ScriptInv
      <4> QED
        BY <2>1, <4>3, TailFacts DEF ScriptInv
    <3>2. CASE Cancel
      BY <3>2 DEF Cancel
    <3>3. CASE Pause \/ Unpause \/ Wipe \/ Sweep \/ Terminate \/ Truncate \/ Flush \/ PurgeConversations \/ PurgeRows
      BY <3>3 DEF Pause, Unpause, Wipe, Sweep, Terminate, Truncate, Flush, PurgeConversations, PurgeRows,
                  Take, ScriptInv
    <3> QED
      BY <1>4, <3>1, <3>2, <3>3 DEF RequestNext
  <2> QED
    BY <2>1, <2>2, <2>3, TailFacts DEF ScriptInv
<1> QED
  BY <1>1, <1>2, <1>3, <1>4 DEF ControlNext

\* A step keeps the pause that a stop or a purge has set or is still to set.
LEMMA PauseInvPreserved ==
  ASSUME ScriptInv, PauseInv, [ControlNext]_controlVars
  PROVE  PauseInv'
<1>1. CASE UNCHANGED controlVars
  BY <1>1 DEF controlVars, opVars, PauseInv, Pending
<1>2. ASSUME NEW w \in Workers, WorkerNext(w) PROVE PauseInv'
  BY <1>2, WorkerKeepsRequest DEF PauseInv, Pending
<1>3. ASSUME NEW q \in Requests, Request(q) PROVE PauseInv'
  <2>1. Pending = {}
    BY <1>3 DEF Request, Pending
  <2>2. /\ "unpause" \in Pending' => q = "resume"
        /\ "wipe" \in Pending' => q # "resume" /\ "pause" \in Pending'
    BY <1>3, ScriptOf DEF Request, Pending
  <2> QED
    BY <1>3, <2>1, <2>2 DEF Request, PauseInv
<1>4. CASE RequestNext
  <2>1. Pending = {Head(script)} \cup Pending'
    BY <1>4, RequestTakes, TailFacts DEF ScriptInv
  <2>2. CASE Pause
    BY <2>1, <2>2 DEF Pause, PauseInv
  <2>3. CASE Unpause
    BY <2>1, <2>3 DEF Unpause, Take, PauseInv
  <2>4. CASE Wipe
    <3>1. 1 \in DOMAIN script /\ script[1] = "wipe"
      BY <1>4, <2>4, RequestTakes, TailFacts DEF Wipe, Take, ScriptInv
    <3>2. Len(script) = 1
      BY <3>1 DEF ScriptInv
    <3>3. Pending' = {}
      BY <1>4, <3>2, RequestTakes, TailFacts DEF ScriptInv, Pending
    <3> QED
      BY <2>1, <2>4, <3>3 DEF Wipe, Take, PauseInv
  <2>5. CASE Flush
    <3>1. 1 \in DOMAIN script /\ script[1] = "flush"
      BY <1>4, <2>5, RequestTakes, TailFacts DEF Flush, Take, ScriptInv
    <3>2. 2 \in DOMAIN script /\ script[2] = "pause"
      BY <3>1 DEF ScriptInv
    <3>3. "pause" \in Pending
      BY <3>2 DEF Pending
    <3> QED
      BY <2>1, <2>5, <3>3 DEF Flush, Take, PauseInv
  <2>6. CASE ListRunning \/ Cancel \/ Sweep \/ Terminate \/ Truncate \/ PurgeConversations \/ PurgeRows
    <3>1. paused' = paused /\ stopped' = stopped /\ Head(script) # "pause"
      BY <2>6 DEF ListRunning, Cancel, Sweep, Terminate, Truncate, PurgeConversations, PurgeRows, Take
    <3> QED
      BY <2>1, <3>1 DEF PauseInv
  <2> QED
    BY <1>4, <2>2, <2>3, <2>4, <2>5, <2>6 DEF RequestNext
<1> QED
  BY <1>1, <1>2, <1>3, <1>4 DEF ControlNext

\* From the end of a stop or purge to the next resume the scheduler is paused,
\* but for the moment in which a purge has flushed the key and not yet set it again.
THEOREM ControlStaysPaused == ControlSpec => []StaysPaused
<1>1. ControlInit => ScriptInv /\ PauseInv
  BY DEF ControlInit, ScriptInv, PauseInv, Pending
<1>2. ScriptInv /\ PauseInv /\ [ControlNext]_controlVars => (ScriptInv /\ PauseInv)'
  BY ScriptInvPreserved, PauseInvPreserved
<1>3. PauseInv => StaysPaused
  BY DEF PauseInv, StaysPaused
<1> QED
  BY <1>1, <1>2, <1>3, PTL DEF ControlSpec
-------------------------------------------------------------------------------
\* A step keeps what the processes collect and have left in its type.
LEMMA ProcTypesPreserved ==
  ASSUME ProcTypes, [ControlNext]_controlVars
  PROVE  ProcTypes'
<1>1. CASE UNCHANGED controlVars
  BY <1>1 DEF controlVars, procVars, ProcTypes
<1>2. ASSUME NEW w \in Workers, NEW k \in Kinds, CreateJob(w, k) PROVE ProcTypes'
  BY <1>2, ControlAssumption DEF CreateJob, ProcTypes
<1>3. ASSUME NEW w \in Workers, Progress(w) PROVE ProcTypes'
  BY <1>3 DEF Progress, ProcTypes
<1>4. ASSUME NEW w \in Workers, Begin(w) \/ CompleteSync(w) \/ Abort(w) PROVE ProcTypes'
  BY <1>4 DEF Begin, CompleteSync, Abort, ProcTypes
<1>5. ASSUME NEW w \in Workers, ScheduledCheck(w) \/ Look(w) \/ Finish(w) \/ WriteCancelled(w) \/ ClearFlag(w)
               \/ Raise(w) \/ FailRow(w) \/ FailRowRaises(w)
      PROVE  ProcTypes'
  BY <1>5 DEF ScheduledCheck, Look, Finish, WriteCancelled, ClearFlag, Raise, FailRow, FailRowRaises, ProcTypes
<1>6. ASSUME NEW q \in Requests, Request(q) PROVE ProcTypes'
  BY <1>6 DEF Request, procVars, ProcTypes
<1>7. CASE RequestNext
  BY <1>7 DEF RequestNext, Pause, Unpause, ListRunning, Cancel, Wipe, Sweep, Terminate, Truncate, Flush,
              PurgeConversations, PurgeRows, procVars, ProcTypes
<1> QED
  BY <1>1, <1>2, <1>3, <1>4, <1>5, <1>6, <1>7 DEF ControlNext, WorkerNext

\* A step of a process keeps FetchInv: while the agent is fresh nobody is alive,
\* and whoever begins begins a full sync.
LEMMA FetchInvOfWorker ==
  ASSUME JobTypes, ProcTypes, FetchInv, NEW w \in Workers, WorkerNext(w)
  PROVE  FetchInv'
<1>1. Pending' = Pending
  BY WorkerKeepsRequest DEF Pending
<1>2. CASE ScheduledCheck(w)
  <2>1. Alive' = Alive
    BY <1>2 DEF ScheduledCheck, Move, Alive, JobTypes
  <2> QED
    BY <1>1, <1>2, <2>1 DEF ScheduledCheck, dataVars, FetchInv, Fresh
<1>3. CASE Begin(w)
  <2>1. CASE "rows" \in Pending
    BY <1>1, <2>1 DEF FetchInv
  <2>2. CASE deleted' /\ ~met' /\ "rows" \notin Pending
    <3>1. sync'[w] = "incremental" /\ deleted /\ ~met
      BY <1>3, <2>2 DEF Begin
    <3>2. Fresh
      BY <2>2, <3>1 DEF FetchInv
    <3>3. sync' = [sync EXCEPT ![w] = "full"]
      BY <1>3, <3>2 DEF Begin, Fresh
    <3>4. FALSE
      BY <3>1, <3>3 DEF ProcTypes
    <3> QED
      BY <3>4
  <2> QED
    BY <2>1, <2>2 DEF FetchInv
<1>4. CASE CompleteSync(w) \/ Abort(w) \/ (\E k \in Kinds : CreateJob(w, k))
           \/ Look(w) \/ Progress(w) \/ Finish(w) \/ WriteCancelled(w) \/ ClearFlag(w)
           \/ Raise(w) \/ FailRow(w) \/ FailRowRaises(w)
  <2>1. w \in Alive
    BY <1>4 DEF CompleteSync, Abort, CreateJob, Look, Progress, Finish, WriteCancelled, ClearFlag,
                Raise, FailRow, FailRowRaises, Alive
  <2>2. deleted' = deleted /\ met' = met
    BY <1>4 DEF CompleteSync, Abort, CreateJob, Look, Progress, Finish, WriteCancelled, ClearFlag,
                Raise, FailRow, FailRowRaises, dataVars
  <2> QED
    BY <1>1, <2>1, <2>2 DEF FetchInv, Fresh
<1> QED
  BY <1>2, <1>3, <1>4 DEF WorkerNext

\* A step keeps FetchInv.
LEMMA FetchInvPreserved ==
  ASSUME JobTypes, ProcTypes, ScriptInv, FetchInv, [ControlNext]_controlVars
  PROVE  FetchInv'
<1>1. CASE UNCHANGED controlVars
  BY <1>1 DEF controlVars, procVars, dataVars, opVars, FetchInv, Fresh, Alive, Pending
<1>2. ASSUME NEW w \in Workers, WorkerNext(w) PROVE FetchInv'
  BY <1>2, FetchInvOfWorker
<1>3. ASSUME NEW q \in Requests, Request(q) PROVE FetchInv'
  <2>1. Pending = {}
    BY <1>3 DEF Request, Pending
  <2> QED
    BY <1>3, <2>1 DEF Request, procVars, dataVars, FetchInv, Fresh, Alive
<1>4. CASE RequestNext
  <2>1. Pending = {Head(script)} \cup Pending'
    BY <1>4, RequestTakes, TailFacts DEF ScriptInv
  <2>2. CASE PurgeRows
    BY <2>2 DEF PurgeRows, procVars, FetchInv, Fresh, Alive, Covered
  <2>3. CASE Truncate
    BY <2>3 DEF Truncate, procVars, FetchInv, Fresh, Alive, Covered
  <2>4. CASE PurgeConversations
    BY <2>4 DEF PurgeConversations, FetchInv
  <2>5. CASE Cancel
    BY <2>1, <2>5 DEF Cancel, Take, procVars, dataVars, FetchInv, Fresh, Alive
  <2>6. CASE Pause \/ Unpause \/ ListRunning \/ Wipe \/ Sweep \/ Terminate \/ Flush
    <3>1. /\ Head(script) # "rows"
          /\ UNCHANGED <<deleted, met, marked, rows, pc>>
      BY <2>6 DEF Pause, Unpause, ListRunning, Wipe, Sweep, Terminate, Flush, Take, procVars, dataVars
    <3> QED
      BY <2>1, <3>1 DEF FetchInv, Fresh, Alive
  <2> QED
    BY <1>4, <2>2, <2>3, <2>4, <2>5, <2>6 DEF RequestNext
<1> QED
  BY <1>1, <1>2, <1>3, <1>4 DEF ControlNext

\* What was deleted is collected again: a process that begins after a deletion
\* is not incremental, unless another process was alive during the deletion or
\* the request kept the agent's other rows.
THEOREM ControlFetchesAgain == ControlSpec => PurgedIsFetchedAgain
<1> DEFINE Again == \A w \in Workers :
             sync[w] = "none" /\ sync'[w] = "incremental" /\ deleted => met \/ "rows" \in Pending
<1>1. ControlInit => ProcTypes /\ ScriptInv /\ FetchInv
  BY ControlAssumption DEF ControlInit, ProcTypes, ScriptInv, FetchInv, Pending
<1>2. ControlInv /\ ProcTypes /\ ScriptInv /\ FetchInv /\ [ControlNext]_controlVars
        => (ProcTypes /\ ScriptInv /\ FetchInv)'
  BY ProcTypesPreserved, ScriptInvPreserved, FetchInvPreserved DEF ControlInv
<1>3. ProcTypes /\ FetchInv /\ [ControlNext]_controlVars => [Again]_controlVars
  <2> SUFFICES ASSUME ProcTypes, FetchInv, [ControlNext]_controlVars, NEW w \in Workers,
                      sync[w] = "none", sync'[w] = "incremental", deleted, ~met, "rows" \notin Pending
               PROVE  FALSE
    OBVIOUS
  <2>1. Fresh
    BY DEF FetchInv
  <2>2. sync' # sync
    OBVIOUS
  <2>3. PICK v \in Workers : Begin(v) \/ CompleteSync(v) \/ Abort(v)
    BY <2>2, ControlSteps DEF controlVars, procVars, ScheduledCheck, CreateJob, Look, Progress, Finish,
       WriteCancelled, ClearFlag, Raise, FailRow, FailRowRaises, Request, Pause, Unpause, ListRunning,
       Cancel, Wipe, Sweep, Terminate, Truncate, Flush, PurgeConversations, PurgeRows
  <2>4. sync' = [sync EXCEPT ![v] = "none"] \/ sync' = [sync EXCEPT ![v] = "full"]
    BY <2>1, <2>3 DEF Begin, CompleteSync, Abort, Fresh
  <2> QED
    BY <2>4 DEF ProcTypes
<1> QED
  BY <1>1, <1>2, <1>3, ControlInvariant, PTL DEF ControlSpec, PurgedIsFetchedAgain
-------------------------------------------------------------------------------
\* A process keeps the flags, and the ids that were given out.
LEMMA WorkerKeepsIds ==
  ASSUME RowTypes, NEW w \in Workers, WorkerNext(w), NEW k \in Kinds
  PROVE  nextId[k] \in Int /\ nextId'[k] \in Int /\ nextId[k] <= nextId'[k]
<1>1. nextId[k] \in Int
  BY NoRow DEF RowTypes
<1>2. CASE \E l \in Kinds : CreateJob(w, l)
  <2>1. PICK l \in Kinds : nextId' = [nextId EXCEPT ![l] = nextId[l] + 1]
    BY <1>2 DEF CreateJob
  <2> QED
    BY <1>1, <2>1 DEF RowTypes
<1>3. CASE nextId' = nextId
  BY <1>1, <1>3
<1> QED
  BY <1>2, <1>3 DEF WorkerNext, ScheduledCheck, Begin, CompleteSync, Abort, Look, Progress, Finish,
     WriteCancelled, ClearFlag, Raise, FailRow, FailRowRaises

\* A step keeps ListedInv.
LEMMA ListedInvPreserved ==
  ASSUME RowTypes, Unused, ScriptInv, ListedInv, [ControlNext]_controlVars
  PROVE  ListedInv'
<1>1. CASE UNCHANGED controlVars
  BY <1>1 DEF controlVars, opVars, ListedInv
<1>2. ASSUME NEW w \in Workers, WorkerNext(w) PROVE ListedInv'
  <2>1. listed' = listed
    BY <1>2, WorkerKeepsRequest
  <2> SUFFICES ASSUME NEW r \in listed PROVE r[2] < nextId'[r[1]]
    BY <2>1 DEF ListedInv
  <2>2. r \in Rows /\ r[2] < nextId[r[1]]
    BY DEF ListedInv
  <2>3. r[1] \in Kinds /\ r[2] \in Int
    BY <2>2, RowParts, NoRow
  <2> QED
    BY <1>2, <2>2, <2>3, WorkerKeepsIds
<1>3. ASSUME NEW q \in Requests, Request(q) PROVE ListedInv'
  BY <1>3 DEF Request, ListedInv
<1>4. CASE ListRunning
  <2> SUFFICES ASSUME NEW r \in Covered \X Ids, Status(r) = "running"
               PROVE  r \in Rows /\ r[2] < nextId[r[1]]
    BY <1>4 DEF ListRunning, ListedInv
  <2>1. r \in Rows /\ r[1] \in Kinds /\ r[2] \in Ids
    BY DEF Covered, Rows
  <2>2. ~(r[2] >= nextId[r[1]])
    BY <2>1 DEF Unused, Status
  <2>3. r[2] \in Int
    BY <2>1, NoRow DEF Ids
  <2>4. nextId[r[1]] \in 1..(MaxId + 1)
    BY <2>1 DEF RowTypes
  <2>5. nextId[r[1]] \in Int
    BY <2>4, NoRow
  <2> QED
    BY <2>1, <2>2, <2>3, <2>5
<1>5. CASE Cancel
  BY <1>5 DEF Cancel, ListedInv
<1>6. CASE Truncate
  <2>1. listed = {}
    BY <1>6 DEF Truncate, Take, ScriptInv
  <2> QED
    BY <1>6, <2>1 DEF Truncate, ListedInv
<1>7. CASE Pause \/ Unpause \/ Wipe \/ Sweep \/ Terminate \/ Flush \/ PurgeConversations \/ PurgeRows
  BY <1>7 DEF Pause, Unpause, Wipe, Sweep, Terminate, Flush, PurgeConversations, PurgeRows, ListedInv
<1> QED
  BY <1>1, <1>2, <1>3, <1>4, <1>5, <1>6, <1>7 DEF ControlNext, RequestNext

\* A step keeps Distinct: a row that is created has an id that no process has.
LEMMA DistinctPreserved ==
  ASSUME RowTypes, JobTypes, Own, Distinct, [ControlNext]_controlVars
  PROVE  Distinct'
<1>1. CASE job' = job /\ stale' = stale
  BY <1>1 DEF Distinct
<1>2. ASSUME NEW w \in Workers, BackToPipeline(w) PROVE Distinct'
  BY <1>2 DEF BackToPipeline, Distinct, JobTypes
<1>3. ASSUME NEW w \in Workers, NEW k \in Kinds, CreateJob(w, k) PROVE Distinct'
  <2>1. job' = [job EXCEPT ![w] = <<k, nextId[k]>>] /\ stale' = stale
    BY <1>3 DEF CreateJob
  <2>2. nextId[k] \in Int
    BY NoRow DEF RowTypes
  <2>3. \A v \in Workers \ stale : job[v] # <<k, nextId[k]>>
    <3> SUFFICES ASSUME NEW v \in Workers \ stale, job[v] = <<k, nextId[k]>> PROVE FALSE
      OBVIOUS
    <3>1. job[v] # NoJob
      BY <1>3, NoRow DEF CreateJob, Rows
    <3>2. job[v][2] < nextId[job[v][1]]
      BY <3>1 DEF Own
    <3> QED
      BY <2>2, <3>2
  <2> QED
    BY <2>1, <2>3 DEF Distinct, JobTypes
<1>4. CASE Truncate
  BY <1>4 DEF Truncate, procVars, Distinct
<1> QED
  BY <1>1, <1>2, <1>3, <1>4, ControlSteps DEF controlVars, procVars, histVars, ScheduledCheck, Begin,
     CompleteSync, Abort, Look, Progress, Finish, WriteCancelled, ClearFlag, Raise, FailRow, FailRowRaises,
     Request, Pause, Unpause, ListRunning, Cancel, Wipe, Sweep, Terminate, Flush, PurgeConversations, PurgeRows
-------------------------------------------------------------------------------
\* What a step leaves of the warnings about row r.
KeepsWarning(r) ==
  /\ r \in late \cup wiped => r \in late' \cup wiped'
  /\ r \in flags => r \in flags' \cup wiped'
  /\ r \in StrayRows => r \in StrayRows' \cup wiped'

\* Who looked on while process v took a step is still warned.
LEMMA OthersWarned ==
  ASSUME JobTypes, WarnedInv, NEW v \in Workers, listed' = listed,
         \A w \in Workers \ {v} :
           job'[w] = job[w] /\ pc'[w] = pc[w] /\ left'[w] = left[w] /\ (w \in stale' <=> w \in stale),
         \A w \in Workers \ (stale \cup {v}) : pc[w] \in {"working", "looked"} =>
           /\ KeepsWarning(job[w])
           /\ rows'[job[w][1]][job[w][2]] = "cancelled" =>
                Status(job[w]) = "cancelled" \/ job[w] \in StrayRows',
         v \notin stale' /\ pc'[v] \in {"working", "looked"} =>
           /\ job'[v] \in listed => Warned(v, {})'
           /\ Status(job[v])' = "cancelled" => Warned(v, StrayRows)'
  PROVE  WarnedInv'
<1> SUFFICES ASSUME NEW w \in Workers, w \notin stale', pc'[w] \in {"working", "looked"}
             PROVE  /\ job'[w] \in listed => Warned(w, {})'
                    /\ Status(job[w])' = "cancelled" => Warned(w, StrayRows)'
  BY DEF WarnedInv
<1>1. CASE w = v
  BY <1>1 DEF Status
<1>2. CASE w # v
  <2>1. /\ w \notin stale /\ job'[w] = job[w] /\ pc'[w] = pc[w] /\ left'[w] = left[w]
        /\ KeepsWarning(job[w])
        /\ rows'[job[w][1]][job[w][2]] = "cancelled" =>
             Status(job[w]) = "cancelled" \/ job[w] \in StrayRows'
    BY <1>2
  <2>2. /\ job[w] \in listed => Warned(w, {})
        /\ Status(job[w]) = "cancelled" => Warned(w, StrayRows)
    BY <2>1 DEF WarnedInv
  <2> QED
    BY <2>1, <2>2 DEF Warned, LastLook, KeepsWarning, Status
<1> QED
  BY <1>1, <1>2

\* A step of a process keeps WarnedInv.
LEMMA WarnedByWorker ==
  ASSUME RowTypes, JobTypes, ProcTypes, Own, Distinct, ListedInv, WarnedInv,
         NEW v \in Workers, WorkerNext(v)
  PROVE  WarnedInv'
<1>0. listed' = listed
  BY WorkerKeepsRequest
<1>1. \A w \in Workers \ {v} :
        job'[w] = job[w] /\ pc'[w] = pc[w] /\ left'[w] = left[w] /\ (w \in stale' <=> w \in stale)
  BY DEF WorkerNext, ScheduledCheck, Begin, CompleteSync, Abort, CreateJob, Look, Progress, Finish,
         WriteCancelled, ClearFlag, Raise, FailRow, FailRowRaises, Move, BackToPipeline, histVars, JobTypes, ProcTypes
<1>2. ASSUME pc[v] # "clearing", UNCHANGED <<late, wiped, flags>>
      PROVE  \A r : KeepsWarning(r)
  <2>1. StrayRows \subseteq StrayRows'
    BY <1>1, <1>2 DEF StrayRows
  <2> QED
    BY <1>2, <2>1 DEF KeepsWarning
<1>3. ASSUME NEW s \in RowStatus, Write(job[v], s), s # "cancelled", job[v] \in Rows
      PROVE  \A r \in Rows : rows'[r[1]][r[2]] = "cancelled" => Status(r) = "cancelled"
  BY <1>3, WriteFacts, RowParts DEF Status
<1>4. \A w \in Workers : pc[w] \in {"working", "looked"} => job[w] \in Rows /\ job[w] # NoJob
  BY JobOfProcess DEF InJob, JobTypes
<1>5. CASE ScheduledCheck(v) \/ Begin(v) \/ CompleteSync(v) \/ Abort(v) \/ Raise(v) \/ FailRowRaises(v)
  <2>1. UNCHANGED <<rows, late, wiped, flags>> /\ pc[v] # "clearing"
    BY <1>5 DEF ScheduledCheck, Begin, CompleteSync, Abort, Raise, FailRowRaises, histVars
  <2>2. pc'[v] \notin {"working", "looked"}
    BY <1>5 DEF ScheduledCheck, Begin, CompleteSync, Abort, Raise, FailRowRaises, BackToPipeline, Move, JobTypes
  <2> QED
    BY <1>0, <1>1, <1>2, <2>1, <2>2, OthersWarned DEF Status
<1>6. ASSUME NEW k \in Kinds, CreateJob(v, k) PROVE WarnedInv'
  <2> DEFINE new == <<k, nextId[k]>>
  <2>1. new \in Rows /\ nextId[k] \in Int
    BY <1>6, NoRow DEF CreateJob, Rows, RowTypes
  <2>2. \A l \in Kinds, i \in Ids :
          rows'[l][i] = IF l = k /\ i = nextId[k] THEN "running" ELSE rows[l][i]
    BY <1>6, <2>1, WriteFacts DEF CreateJob, RowStatus
  <2>3. StrayRows \subseteq StrayRows'
    BY <1>1, <1>6 DEF CreateJob, StrayRows
  <2>4. ASSUME NEW w \in Workers \ (stale \cup {v}), pc[w] \in {"working", "looked"}
        PROVE  /\ KeepsWarning(job[w])
               /\ rows'[job[w][1]][job[w][2]] = "cancelled" => Status(job[w]) = "cancelled"
    <3>1. job[w] \in Rows /\ job[w][2] < nextId[job[w][1]]
      BY <1>4, <2>4 DEF Own
    <3>2. job[w] # new
      BY <2>1, <3>1
    <3>3. KeepsWarning(job[w])
      BY <1>6, <2>3, <3>2 DEF CreateJob, KeepsWarning
    <3> QED
      BY <2>2, <3>1, <3>3, RowParts DEF Status
  <2>5. job'[v] = new /\ new \notin listed
    BY <1>6, <2>1 DEF CreateJob, JobTypes, ListedInv
  <2>6. Status(job[v])' # "cancelled" /\ job'[v] \notin listed
    <3>1. Status(job[v])' = rows'[k][nextId[k]]
      BY <1>6, <2>5 DEF Status
    <3>2. rows'[k][nextId[k]] = "running"
      BY <2>1, <2>2, RowParts
    <3> QED
      BY <2>5, <3>1, <3>2
  <2> QED
    BY <1>0, <1>1, <2>4, <2>6, OthersWarned
<1>7. CASE Look(v)
  <2>1. UNCHANGED <<rows, late, wiped, flags, job, left, stale>> /\ pc[v] = "working"
    BY <1>7 DEF Look, histVars
  <2>2. StrayRows' = StrayRows
    BY <1>1, <1>7, <2>1 DEF StrayRows, Look, Move, JobTypes
  <2>3. ASSUME v \notin stale, pc'[v] \in {"working", "looked"}
        PROVE  /\ job[v] \in listed => Warned(v, {})'
               /\ Status(job[v]) = "cancelled" => Warned(v, StrayRows)'
    <3>1. job[v] \notin flags
      BY <1>7, <2>3 DEF Look, Move, JobTypes
    <3> QED
      BY <2>1, <2>2, <2>3, <3>1 DEF WarnedInv, Warned
  <2> QED
    BY <1>0, <1>1, <1>2, <2>1, <2>3, OthersWarned DEF Status
<1>8. CASE Progress(v)
  <2>1. UNCHANGED <<rows, late, wiped, flags, job, stale>> /\ pc[v] = "looked" /\ pc'[v] = "working"
    BY <1>8 DEF Progress, Move, JobTypes, histVars
  <2>2. StrayRows' = StrayRows
    BY <1>1, <2>1 DEF StrayRows
  <2>3. ASSUME v \notin stale
        PROVE  /\ job[v] \in listed => Warned(v, {})'
               /\ Status(job[v]) = "cancelled" => Warned(v, StrayRows)'
    BY <2>1, <2>2, <2>3 DEF WarnedInv, Warned, LastLook
  <2> QED
    BY <1>0, <1>1, <1>2, <2>1, <2>3, OthersWarned DEF Status
<1>9. CASE Finish(v) \/ FailRow(v)
  <2>1. UNCHANGED <<late, wiped, flags>> /\ pc[v] \in {"looked", "raising"}
    BY <1>9 DEF Finish, FailRow
  <2>2. pc'[v] \notin {"working", "looked"}
    BY <1>9 DEF Finish, FailRow, BackToPipeline, Move, JobTypes
  <2>3. job[v] \in Rows
    BY <2>1, JobOfProcess DEF InJob
  <2>4. \A r \in Rows : rows'[r[1]][r[2]] = "cancelled" => Status(r) = "cancelled"
    <3>1. Write(job[v], "complete") \/ Write(job[v], "failed") \/ rows' = rows
      BY <1>9 DEF Finish, FailRow
    <3> QED
      BY <1>3, <2>3, <3>1 DEF RowStatus, Verdicts, Status
  <2> QED
    BY <1>0, <1>1, <1>2, <1>4, <2>1, <2>2, <2>4, OthersWarned
<1>10. CASE WriteCancelled(v)
  <2>1. UNCHANGED <<late, wiped, flags, job, stale>> /\ pc[v] = "stopping" /\ pc'[v] = "clearing"
    BY <1>10 DEF WriteCancelled, Move, JobTypes, histVars
  <2>2. job[v] \in Rows /\ job[v] # NoJob
    BY <2>1, JobOfProcess, NoRow DEF InJob
  <2>3. \A k \in Kinds, i \in Ids :
          rows'[k][i] = IF k = job[v][1] /\ i = job[v][2] THEN "cancelled" ELSE rows[k][i]
    BY <1>10, <2>2, WriteFacts DEF WriteCancelled, RowStatus, Verdicts
  <2>4. v \in stale => job[v] \in StrayRows'
    BY <2>1 DEF StrayRows
  <2>5. ASSUME NEW w \in Workers \ (stale \cup {v}), pc[w] \in {"working", "looked"},
               rows'[job[w][1]][job[w][2]] = "cancelled"
        PROVE  Status(job[w]) = "cancelled" \/ job[w] \in StrayRows'
    <3>1. job[w] \in Rows
      BY <1>4, <2>5
    <3>2. CASE job[w] = job[v]
      <4>1. v \in stale
        BY <2>2, <2>5, <3>2 DEF Distinct
      <4> QED
        BY <2>4, <3>2, <4>1
    <3>3. CASE job[w] # job[v]
      BY <2>2, <2>3, <2>5, <3>1, <3>3, RowParts DEF Status
    <3> QED
      BY <3>2, <3>3
  <2> QED
    BY <1>0, <1>1, <1>2, <2>1, <2>5, OthersWarned
<1>11. CASE ClearFlag(v)
  <2>1. /\ UNCHANGED <<rows, late>> /\ pc[v] = "clearing" /\ pc'[v] = "between"
        /\ flags' = flags \ {job[v]}
        /\ wiped' = IF v \in stale THEN wiped \cup {job[v]} ELSE wiped
    BY <1>11 DEF ClearFlag, BackToPipeline, Move, JobTypes
  <2>2. job[v] # NoJob
    BY <2>1, JobOfProcess, NoRow DEF InJob
  <2>3. StrayRows \subseteq StrayRows' \cup wiped'
    BY <1>1, <2>1 DEF StrayRows
  <2>4. ASSUME NEW w \in Workers \ (stale \cup {v})
        PROVE  KeepsWarning(job[w])
    <3>1. v \notin stale => job[w] # job[v]
      BY <2>2, <2>4 DEF Distinct
    <3> QED
      BY <2>1, <2>3, <3>1 DEF KeepsWarning
  <2> QED
    BY <1>0, <1>1, <2>1, <2>4, OthersWarned DEF Status
<1> QED
  BY <1>5, <1>6, <1>7, <1>8, <1>9, <1>10, <1>11 DEF WorkerNext

\* A step that moves no process and takes no warning away keeps WarnedInv.
LEMMA WarnedKept ==
  ASSUME WarnedInv, job' = job, pc' = pc, left' = left, stale \subseteq stale', listed' \subseteq listed,
         late' = late, wiped \subseteq wiped', flags \subseteq flags' \cup wiped',
         \A w \in Workers \ stale' : pc[w] \in {"working", "looked"} /\ Status(job[w])' = "cancelled" =>
           Status(job[w]) = "cancelled" \/ job[w] \in listed
  PROVE  WarnedInv'
<1>1. StrayRows \subseteq StrayRows'
  BY DEF StrayRows
<1> SUFFICES ASSUME NEW w \in Workers, w \notin stale', pc[w] \in {"working", "looked"}
             PROVE  /\ job[w] \in listed' => Warned(w, {})'
                    /\ Status(job[w])' = "cancelled" => Warned(w, StrayRows)'
  BY DEF WarnedInv
<1>2. /\ job[w] \in listed => Warned(w, {})
      /\ Status(job[w]) = "cancelled" => Warned(w, StrayRows)
  BY DEF WarnedInv
<1> QED
  BY <1>1, <1>2 DEF Warned, LastLook

\* A step keeps WarnedInv.
LEMMA WarnedInvPreserved ==
  ASSUME RowTypes, JobTypes, ProcTypes, Own, Distinct, ListedInv, WarnedInv, [ControlNext]_controlVars
  PROVE  WarnedInv'
<1>0. \A w \in Workers : pc[w] \in {"working", "looked"} => job[w] \in Rows
  BY JobOfProcess DEF InJob
<1>1. CASE UNCHANGED controlVars
  BY <1>1, WarnedKept DEF controlVars, procVars, opVars, histVars, Status
<1>2. ASSUME NEW w \in Workers, WorkerNext(w) PROVE WarnedInv'
  BY <1>2, WarnedByWorker
<1>3. ASSUME NEW q \in Requests, Request(q) PROVE WarnedInv'
  BY <1>3, WarnedKept DEF Request, procVars, histVars, Status
<1>4. CASE ListRunning
  <2>1. /\ UNCHANGED <<rows, job, pc, left, stale, wiped>>
        /\ listed' = {r \in Covered \X Ids : Status(r) = "running"}
        /\ flags' = flags \cup listed' /\ late' = late \cup (listed' \cap PastLastLook)
    BY <1>4 DEF ListRunning, procVars
  <2>2. StrayRows' = StrayRows
    BY <2>1 DEF StrayRows
  <2> SUFFICES ASSUME NEW w \in Workers \ stale, pc[w] \in {"working", "looked"}
               PROVE  /\ job[w] \in listed' => Warned(w, {})'
                      /\ Status(job[w]) = "cancelled" => Warned(w, StrayRows)'
    BY <2>1 DEF WarnedInv, Status
  <2>3. job[w] \in listed' => Warned(w, {})'
    BY <2>1 DEF Warned, LastLook, PastLastLook
  <2>4. Status(job[w]) = "cancelled" => Warned(w, StrayRows)'
    BY <2>1, <2>2 DEF WarnedInv, Warned, LastLook
  <2> QED
    BY <2>3, <2>4
<1>5. CASE Cancel
  <2>1. \A r \in Rows : Status(r)' = "cancelled" => Status(r) = "cancelled" \/ r \in listed
    BY <1>5, RowParts DEF Cancel, Status
  <2>2. /\ UNCHANGED <<job, pc, left, stale, late, wiped, flags>> /\ listed' = {}
    BY <1>5 DEF Cancel, procVars, histVars
  <2>3. \A w \in Workers : pc[w] \in {"working", "looked"} /\ Status(job[w])' = "cancelled" =>
          Status(job[w]) = "cancelled" \/ job[w] \in listed
    BY <1>0, <2>1, <2>2 DEF Status
  <2> QED
    BY <2>2, <2>3, WarnedKept
<1>6. CASE Truncate \/ PurgeRows
  <2>1. \A r \in Rows : rows'[r[1]][r[2]] = "cancelled" => Status(r) = "cancelled"
    BY <1>6, RowParts DEF Truncate, PurgeRows, Status
  <2>2. UNCHANGED <<job, pc, left, late, wiped, flags, listed>> /\ stale \subseteq stale'
    BY <1>6 DEF Truncate, PurgeRows, procVars
  <2>3. \A w \in Workers : pc[w] \in {"working", "looked"} /\ Status(job[w])' = "cancelled" =>
          Status(job[w]) = "cancelled"
    BY <1>0, <2>1, <2>2 DEF Status
  <2> QED
    BY <2>2, <2>3, WarnedKept
<1>7. CASE Wipe \/ Sweep \/ Flush
  <2>1. UNCHANGED <<rows, job, pc, left, stale, late, listed>>
    BY <1>7 DEF Wipe, Sweep, Flush, procVars
  <2>2. wiped \subseteq wiped' /\ flags \subseteq flags' \cup wiped'
    BY <1>7 DEF Wipe, Sweep, Flush
  <2> QED
    BY <2>1, <2>2, WarnedKept DEF Status
<1>8. CASE Pause \/ Unpause \/ Terminate \/ PurgeConversations
  <2>1. UNCHANGED <<rows, job, pc, left, stale, late, wiped, flags, listed>>
    BY <1>8 DEF Pause, Unpause, Terminate, PurgeConversations, procVars, histVars
  <2> QED
    BY <2>1, WarnedKept DEF Status
<1> QED
  BY <1>1, <1>2, <1>3, <1>4, <1>5, <1>6, <1>7, <1>8 DEF ControlNext, RequestNext

\* A job that was cancelled is reported complete only by a process that had
\* looked for the last time, whose flag somebody deleted, or whose row had that
\* id before a full purge.
THEOREM ControlCancelHonoured == ControlSpec => CancelHonoured
<1> DEFINE CancelInv == ProcTypes /\ ScriptInv /\ ListedInv /\ Distinct /\ WarnedInv
           Honoured == \A r \in Rows :
             Status(r) = "cancelled" /\ Status(r)' = "complete"
               => r \in late \cup wiped \cup {job[w] : w \in stale}
<1>1. ControlInit => CancelInv
  BY ControlAssumption
     DEF ControlInit, ProcTypes, ScriptInv, ListedInv, Distinct, WarnedInv
<1>2. ControlInv /\ CancelInv /\ [ControlNext]_controlVars => CancelInv'
  BY ProcTypesPreserved, ScriptInvPreserved, ListedInvPreserved, DistinctPreserved, WarnedInvPreserved
     DEF ControlInv
<1>3. ControlInv /\ WarnedInv /\ [ControlNext]_controlVars => [Honoured]_controlVars
  <2> SUFFICES ASSUME ControlInv, WarnedInv, [ControlNext]_controlVars,
                      NEW r \in Rows, Status(r) = "cancelled", rows'[r[1]][r[2]] = "complete"
               PROVE  r \in late \cup wiped \cup {job[w] : w \in stale}
    BY DEF Status
  <2>1. RowTypes /\ JobTypes /\ r[1] \in Kinds /\ r[2] \in Ids
    BY RowParts DEF ControlInv
  <2>2. rows' # rows
    BY DEF Status
  <2>3. CASE \E w \in Workers, k \in Kinds : CreateJob(w, k)
    <3>1. PICK w \in Workers, k \in Kinds : CreateJob(w, k)
      BY <2>3
    <3>2. <<k, nextId[k]>> \in Rows
      BY <3>1 DEF CreateJob, Rows
    <3> QED
      BY <2>1, <3>1, <3>2, WriteFacts DEF CreateJob, RowStatus, Status
  <2>4. CASE \E w \in Workers : WriteCancelled(w) \/ FailRow(w)
    <3>1. PICK w \in Workers : WriteCancelled(w) \/ FailRow(w)
      BY <2>4
    <3>2. job[w] \in Rows
      BY <2>1, <3>1, JobOfProcess DEF WriteCancelled, FailRow, InJob
    <3>3. Write(job[w], "cancelled") \/ Write(job[w], "failed")
      BY <2>2, <3>1 DEF WriteCancelled, FailRow
    <3> QED
      BY <2>1, <3>2, <3>3, WriteFacts DEF RowStatus, Verdicts, Status
  <2>5. CASE Cancel \/ Truncate \/ PurgeRows
    BY <2>1, <2>5 DEF Cancel, Truncate, PurgeRows, Status
  <2>6. CASE \E w \in Workers : Finish(w)
    <3>1. PICK w \in Workers : Finish(w)
      BY <2>6
    <3>2. job[w] \in Rows /\ pc[w] = "looked" /\ LastLook(w)
      BY <2>1, <3>1, JobOfProcess DEF Finish, InJob, LastLook
    <3>3. r = job[w]
      <4>1. r[1] = job[w][1] /\ r[2] = job[w][2]
        BY <2>1, <3>1, <3>2, WriteFacts DEF Finish, RowStatus, Verdicts, Status
      <4> QED
        BY <3>2, <4>1, RowParts
    <3>4. CASE w \in stale
      BY <3>3, <3>4
    <3>5. CASE w \notin stale
      <4>1. Warned(w, StrayRows)
        BY <3>2, <3>3, <3>5 DEF WarnedInv
      <4> QED
        BY <3>2, <3>3, <4>1 DEF Warned, StrayRows
    <3> QED
      BY <3>4, <3>5
  <2> QED
    BY <2>2, <2>3, <2>4, <2>5, <2>6, ControlSteps DEF controlVars, ScheduledCheck, Begin, CompleteSync, Abort,
       Look, Progress, ClearFlag, Raise, FailRowRaises, Request, Pause, Unpause, ListRunning, Wipe, Sweep,
       Terminate, Flush, PurgeConversations
<1>4. CancelInv => WarnedInv
  OBVIOUS
<1> QED
  BY <1>1, <1>2, <1>3, <1>4, ControlInvariant, PTL DEF ControlSpec, CancelHonoured
-------------------------------------------------------------------------------
\* The other variables have their types.
RestTypes ==
  /\ flags \subseteq Rows /\ listed \subseteq Covered \X Ids
  /\ paused \in BOOLEAN /\ marked \in BOOLEAN /\ stopped \in BOOLEAN
  /\ deleted \in BOOLEAN /\ met \in BOOLEAN
  /\ left \in [Workers -> 0..Items]
  /\ broken \subseteq Workers /\ stale \subseteq Workers
  /\ ops \in 0..MaxOps
  /\ late \subseteq Rows /\ wiped \subseteq Rows

\* The rows a request lists are rows.
LEMMA CoveredRows == Covered \X Ids \subseteq Rows
BY DEF Covered, Rows

\* A step of a process keeps them: whoever polls or writes has a row.
LEMMA RestTypesOfWorker ==
  ASSUME RowTypes, JobTypes, RestTypes, NEW w \in Workers, WorkerNext(w)
  PROVE  RestTypes'
<1>1. UNCHANGED <<paused, stopped, listed>>
  BY WorkerKeepsRequest
<1>2. CASE \E k \in Kinds : CreateJob(w, k)
  <2>1. Items \in 0..Items
    BY ControlAssumption
  <2> QED
    BY <1>1, <1>2, <2>1 DEF CreateJob, dataVars, opVars, RestTypes
<1>3. CASE Progress(w)
  <2>1. left[w] - 1 \in 0..Items
    BY <1>3, ControlAssumption DEF Progress, RestTypes
  <2> QED
    BY <1>1, <1>3, <2>1 DEF Progress, dataVars, opVars, histVars, RestTypes
<1>4. CASE ClearFlag(w)
  <2>1. job[w] \in Rows
    BY <1>4, JobOfProcess DEF ClearFlag, InJob
  <2> QED
    BY <1>1, <1>4, <2>1 DEF ClearFlag, BackToPipeline, dataVars, opVars, RestTypes
<1>5. CASE Finish(w) \/ FailRow(w) \/ FailRowRaises(w)
  BY <1>1, <1>5 DEF Finish, FailRow, FailRowRaises, BackToPipeline, dataVars, opVars, RestTypes
<1>6. CASE ScheduledCheck(w) \/ Look(w) \/ WriteCancelled(w) \/ Raise(w)
  BY <1>1, <1>6 DEF ScheduledCheck, Look, WriteCancelled, Raise, dataVars, opVars, histVars, RestTypes
<1>7. CASE Begin(w) \/ CompleteSync(w) \/ Abort(w)
  BY <1>1, <1>7 DEF Begin, CompleteSync, Abort, dataVars, opVars, histVars, RestTypes
<1> QED
  BY <1>2, <1>3, <1>4, <1>5, <1>6, <1>7 DEF WorkerNext

\* So does a step of a request: what it lists are rows, and it interrupts only
\* processes.
LEMMA RestTypesOfRequest ==
  ASSUME RowTypes, JobTypes, RestTypes, RequestNext
  PROVE  RestTypes'
<1>1. ops' \in 0..MaxOps
  BY DEF RequestNext, Pause, Unpause, ListRunning, Cancel, Wipe, Sweep, Terminate, Truncate, Flush,
         PurgeConversations, PurgeRows, Take, RestTypes
<1>2. CASE Pause \/ Unpause \/ Cancel
  BY <1>1, <1>2 DEF Pause, Unpause, Cancel, procVars, dataVars, histVars, RestTypes
<1>3. CASE ListRunning
  <2>1. listed' \subseteq Covered \X Ids /\ listed' \subseteq Rows
    BY <1>3, CoveredRows DEF ListRunning
  <2> QED
    BY <1>1, <1>3, <2>1 DEF ListRunning, procVars, dataVars, RestTypes
<1>4. CASE Wipe \/ Sweep \/ Flush
  BY <1>1, <1>4 DEF Wipe, Sweep, Flush, procVars, dataVars, RestTypes
<1>5. CASE Terminate
  BY <1>1, <1>5 DEF Terminate, dataVars, histVars, RestTypes
<1>6. CASE Truncate
  BY <1>1, <1>6 DEF Truncate, procVars, RestTypes
<1>7. CASE PurgeConversations \/ PurgeRows
  BY <1>1, <1>7 DEF PurgeConversations, PurgeRows, procVars, histVars, RestTypes
<1> QED
  BY <1>2, <1>3, <1>4, <1>5, <1>6, <1>7 DEF RequestNext

\* The variables keep their types whatever the processes and requests do, and
\* a process holds a row id exactly while it runs a job.
THEOREM ControlTypeCorrect == ControlSpec => []ControlTypeOK
<1> DEFINE Types == ProcTypes /\ ScriptInv /\ RestTypes
<1>1. ControlInit => Types
  <2> SUFFICES ASSUME ControlInit PROVE Types
    OBVIOUS
  <2>1. 0 \in 0..Items /\ 0 \in 0..MaxOps
    BY ControlAssumption
  <2>2. ProcTypes
    BY DEF ControlInit, ProcTypes
  <2>3. left \in [Workers -> 0..Items] /\ ops \in 0..MaxOps
    BY <2>1 DEF ControlInit
  <2>4. RestTypes
    BY <2>3 DEF ControlInit, RestTypes
  <2>5. ScriptInv
    BY DEF ControlInit, ScriptInv
  <2> QED
    BY <2>2, <2>4, <2>5
<1>2. ControlInv /\ Types /\ [ControlNext]_controlVars => Types'
  <2> SUFFICES ASSUME ControlInv, Types, [ControlNext]_controlVars
               PROVE  RestTypes'
    BY ProcTypesPreserved, ScriptInvPreserved
  <2>1. CASE UNCHANGED controlVars
    BY <2>1 DEF controlVars, procVars, dataVars, opVars, histVars, RestTypes
  <2>2. CASE \E w \in Workers : WorkerNext(w)
    BY <2>2, RestTypesOfWorker DEF ControlInv
  <2>3. CASE RequestNext
    BY <2>3, RestTypesOfRequest DEF ControlInv
  <2>4. ASSUME NEW q \in Requests, Request(q) PROVE RestTypes'
    <3>1. ops' \in 0..MaxOps
      BY <2>4, ControlAssumption DEF Request, RestTypes
    <3> QED
      BY <2>4, <3>1 DEF Request, procVars, dataVars, histVars, RestTypes
  <2> QED
    BY <2>1, <2>2, <2>3, <2>4 DEF ControlNext
<1>3. ControlInv /\ Types => ControlTypeOK
  BY DEF ControlInv, RowTypes, RowStatus, JobTypes, ProcTypes, ScriptInv, RestTypes, ControlTypeOK
<1> QED
  BY <1>1, <1>2, <1>3, ControlInvariant, PTL DEF ControlSpec

-------------------------------------------------------------------------------
(* The results in the browser *)

Kind(i) == flows[i].kind

\* Handlers are under way only for a selected agent.
AgentChosen == flows # <<>> => sel # None

\* A handler that names an agent names the selected one.
SameAgent == \A i \in DOMAIN flows : Kind(i) \in AgentKinds => flows[i].key = sel

\* One conversation is being opened at most.
OneSelection ==
  \A i, j \in DOMAIN flows : Kind(i) = "select" =>
    /\ Kind(j) = "select" => i = j
    /\ Kind(j) \notin {"deleteOne", "deleteAll"}
    /\ Kind(j) = "list" => flows[i].key \in stored \cap Owned(sel)

\* It is the selected one, and filled as far as its handler has come.
OpenInv ==
  /\ \A i \in DOMAIN flows : Kind(i) = "select" =>
       /\ flows[i].key = selectedId
       /\ flows[i].stage >= 2 => open["conversation"] = selectedId
       /\ flows[i].stage = 3 => open["stats"] = selectedId
  /\ selectedId = None => open = Closed
  /\ OpenIsSelected

InsightsLoaded ==
  \E shown \in SUBSET Convs : insights = [agent |-> sel, rows |-> shown] /\ InsightsOf(sel, shown)

\* What is loaded is what is stored, or outdated, but for what failed or is under way.
LoadedInv ==
  sel # None =>
    /\ ListOf(sel, list) \/ "list" \in failed \/ UnderWay({"list"})
    /\ \/ InsightsLoaded
       \/ insights = None /\ sel \notin analysed
       \/ "insights" \in failed \/ UnderWay({"insights", "deleteInsights"})
    /\ ~strayed => review \subseteq Owned(sel) /\ gaps \in {None, sel}

\* So is what the cache has, of every agent.
CacheInv ==
  \A a \in Agents :
    /\ cache["list"][a] # None => ListOf(a, cache["list"][a])
    /\ cache["insights"][a] # None => InsightsOf(a, cache["insights"][a])
    /\ cache["review"][a] # None => cache["review"][a] \subseteq Owned(a)

Unraced == SameAgent /\ OneSelection /\ OpenInv /\ LoadedInv

ResultsInv == ResultsTypeOK /\ AgentChosen /\ CacheInv /\ (~raced => Unraced)
-------------------------------------------------------------------------------
(* How the handlers under way change *)

\* The handlers t are those of s but gone, and new ones; old says which is which.
Places(s, t, gone, new, old) ==
  /\ old \in [DOMAIN t -> (DOMAIN s \ gone) \cup {0}]
  /\ \A j \in DOMAIN t : IF old[j] = 0 THEN t[j] \in new ELSE t[j] = s[old[j]]
  /\ \A j, k \in DOMAIN t : old[j] = old[k] /\ t[j] = t[k] => j = k
  /\ \A k \in DOMAIN s \ gone : \E j \in DOMAIN t : old[j] = k
  /\ \A f \in new : \E j \in DOMAIN t : t[j] = f

Change(s, t, gone, new) == t \in Seq(Flows) /\ \E old : Places(s, t, gone, new, old)

LEMMA NothingChanges ==
  ASSUME NEW s \in Seq(Flows)
  PROVE  Change(s, s, {}, {})
<1>1. DOMAIN s = 1..Len(s) /\ Len(s) \in Nat
  BY LenProperties
<1>2. Places(s, s, {}, {}, [j \in DOMAIN s |-> j])
  BY <1>1 DEF Places
<1> QED
  BY <1>2 DEF Change

LEMMA OneMore ==
  ASSUME NEW s \in Seq(Flows), NEW t, NEW gone, NEW new, NEW f \in Flows, f \notin new,
         Change(s, t, gone, new)
  PROVE  Change(s, Append(t, f), gone, new \cup {f})
<1>1. t \in Seq(Flows)
  BY DEF Change
<1>2. PICK old : Places(s, t, gone, new, old)
  BY DEF Change
<1> DEFINE u == Append(t, f)
           place == [j \in DOMAIN u |-> IF j = Len(t) + 1 THEN 0 ELSE old[j]]
<1>3. /\ u \in Seq(Flows) /\ Len(t) \in Nat /\ DOMAIN t = 1..Len(t) /\ DOMAIN u = 1..(Len(t) + 1)
      /\ \A j \in DOMAIN t : u[j] = t[j]
      /\ u[Len(t) + 1] = f
  BY <1>1, AppendProperties, LenProperties
<1> HIDE DEF u
<1>4. /\ \A j \in DOMAIN t : j \in DOMAIN u /\ place[j] = old[j]
      /\ Len(t) + 1 \in DOMAIN u /\ place[Len(t) + 1] = 0
      /\ \A j \in DOMAIN u : j \in DOMAIN t \/ j = Len(t) + 1
      /\ Len(t) + 1 \notin DOMAIN t
  BY <1>3
<1>5. place \in [DOMAIN u -> (DOMAIN s \ gone) \cup {0}]
  BY <1>2, <1>4 DEF Places
<1>6. \A j \in DOMAIN u : IF place[j] = 0 THEN u[j] \in new \cup {f} ELSE u[j] = s[place[j]]
  <2> SUFFICES ASSUME NEW j \in DOMAIN u
               PROVE  IF place[j] = 0 THEN u[j] \in new \cup {f} ELSE u[j] = s[place[j]]
    OBVIOUS
  <2>1. CASE j \in DOMAIN t
    BY <2>1, <1>2, <1>3, <1>4 DEF Places
  <2>2. CASE j = Len(t) + 1
    BY <2>2, <1>3, <1>4
  <2> QED
    BY <2>1, <2>2, <1>4
<1>7. \A j, k \in DOMAIN u : place[j] = place[k] /\ u[j] = u[k] => j = k
  <2> SUFFICES ASSUME NEW j \in DOMAIN u, NEW k \in DOMAIN u, place[j] = place[k], u[j] = u[k]
               PROVE  j = k
    OBVIOUS
  <2>1. CASE j \in DOMAIN t /\ k \in DOMAIN t
    BY <2>1, <1>2, <1>3, <1>4 DEF Places
  <2>2. ASSUME NEW m \in DOMAIN t, place[m] = 0
        PROVE  u[m] # f
    <3>1. old[m] = 0 /\ u[m] = t[m]
      BY <2>2, <1>3, <1>4
    <3> QED
      BY <3>1, <1>2 DEF Places
  <2>3. CASE j = Len(t) + 1 \/ k = Len(t) + 1
    BY <2>2, <2>3, <1>3, <1>4
  <2> QED
    BY <2>1, <2>3, <1>4
<1>8. \A k \in DOMAIN s \ gone : \E j \in DOMAIN u : place[j] = k
  <2> SUFFICES ASSUME NEW k \in DOMAIN s \ gone
               PROVE  \E j \in DOMAIN u : place[j] = k
    OBVIOUS
  <2>1. PICK j \in DOMAIN t : old[j] = k
    BY <1>2 DEF Places
  <2> QED
    BY <2>1, <1>4
<1>9. \A g \in new \cup {f} : \E j \in DOMAIN u : u[j] = g
  <2> SUFFICES ASSUME NEW g \in new \cup {f}
               PROVE  \E j \in DOMAIN u : u[j] = g
    OBVIOUS
  <2>1. CASE g = f
    BY <2>1, <1>3, <1>4
  <2>2. CASE g \in new
    <3>1. PICK j \in DOMAIN t : t[j] = g
      BY <2>2, <1>2 DEF Places
    <3> QED
      BY <3>1, <1>3, <1>4
  <2> QED
    BY <2>1, <2>2
<1> HIDE DEF place
<1>10. Places(s, u, gone, new \cup {f}, place)
  BY <1>5, <1>6, <1>7, <1>8, <1>9 DEF Places
<1> QED
  BY <1>3, <1>10 DEF Change, u

LEMMA RemovedFacts ==
  ASSUME NEW S, NEW s \in Seq(S), NEW i \in DOMAIN s
  PROVE  /\ RemoveAt(s, i) \in Seq(S)
         /\ DOMAIN RemoveAt(s, i) = 1..(Len(s) - 1)
         /\ \A j \in 1..(Len(s) - 1) : RemoveAt(s, i)[j] = IF j < i THEN s[j] ELSE s[j + 1]
<1>1. DOMAIN s = 1..Len(s) /\ Len(s) \in Nat /\ i \in Nat
  BY LenProperties
<1> DEFINE a == SubSeq(s, 1, i - 1)
           b == SubSeq(s, i + 1, Len(s))
<1>2. /\ a \in Seq(S) /\ Len(a) = i - 1
      /\ \A j \in 1..(i - 1) : a[j] = s[j]
  <2>1. \A j \in 1..(i - 1) : s[j] \in S
    BY <1>1, ElementOfSeq
  <2>2. 1 \in Int /\ i - 1 \in Int /\ 1 <= i
    BY <1>1
  <2>3. /\ a \in Seq(S) /\ Len(a) = IF 1 <= i - 1 THEN (i - 1) - 1 + 1 ELSE 0
        /\ \A j \in 1..((i - 1) - 1 + 1) : a[j] = s[1 + j - 1]
    BY <2>1, <2>2, SubSeqProperties
  <2> HIDE DEF a
  <2> QED
    BY <2>2, <2>3
<1>3. /\ b \in Seq(S) /\ Len(b) = Len(s) - i
      /\ \A j \in 1..(Len(s) - i) : b[j] = s[i + j]
  <2>1. \A j \in (i + 1)..Len(s) : s[j] \in S
    BY <1>1, ElementOfSeq
  <2>2. i + 1 \in Int /\ Len(s) \in Int /\ i <= Len(s)
    BY <1>1
  <2>3. /\ b \in Seq(S) /\ Len(b) = IF i + 1 <= Len(s) THEN Len(s) - (i + 1) + 1 ELSE 0
        /\ \A j \in 1..(Len(s) - (i + 1) + 1) : b[j] = s[(i + 1) + j - 1]
    BY <2>1, <2>2, SubSeqProperties
  <2> HIDE DEF b
  <2> QED
    BY <2>2, <2>3
<1> HIDE DEF a, b
<1>4. /\ a \o b \in Seq(S) /\ Len(a \o b) = Len(a) + Len(b)
      /\ \A j \in 1..(Len(a) + Len(b)) : (a \o b)[j] = IF j <= Len(a) THEN a[j] ELSE b[j - Len(a)]
  BY <1>2, <1>3, ConcatProperties
<1>5. RemoveAt(s, i) = a \o b
  BY DEF RemoveAt, a, b
<1>6. DOMAIN (a \o b) = 1..(Len(s) - 1)
  <2>1. DOMAIN (a \o b) = 1..Len(a \o b)
    BY <1>4, LenProperties
  <2> QED
    BY <2>1, <1>1, <1>2, <1>3, <1>4
<1>7. \A j \in 1..(Len(s) - 1) : (a \o b)[j] = IF j < i THEN s[j] ELSE s[j + 1]
  <2> SUFFICES ASSUME NEW j \in 1..(Len(s) - 1)
               PROVE  (a \o b)[j] = IF j < i THEN s[j] ELSE s[j + 1]
    OBVIOUS
  <2>1. j \in 1..(Len(a) + Len(b))
    BY <1>1, <1>2, <1>3
  <2>2. CASE j < i
    <3>1. j \in 1..(i - 1) /\ j <= Len(a)
      BY <2>2, <1>1, <1>2
    <3> QED
      BY <3>1, <2>1, <2>2, <1>2, <1>4
  <2>3. CASE ~(j < i)
    <3>1. j - (i - 1) \in 1..(Len(s) - i) /\ ~(j <= Len(a)) /\ i + (j - (i - 1)) = j + 1
      BY <2>3, <1>1, <1>2
    <3>2. (a \o b)[j] = b[j - (i - 1)]
      BY <3>1, <2>1, <1>2, <1>4
    <3> QED
      BY <3>1, <3>2, <2>3, <1>3
  <2> QED
    BY <2>2, <2>3
<1> QED
  BY <1>4, <1>5, <1>6, <1>7

LEMMA OneLess ==
  ASSUME NEW s \in Seq(Flows), NEW i \in DOMAIN s
  PROVE  Change(s, RemoveAt(s, i), {i}, {})
<1> DEFINE t == RemoveAt(s, i)
           old == [j \in DOMAIN t |-> IF j < i THEN j ELSE j + 1]
<1>1. DOMAIN s = 1..Len(s) /\ Len(s) \in Nat /\ i \in Nat
  BY LenProperties
<1>2. /\ t \in Seq(Flows) /\ DOMAIN t = 1..(Len(s) - 1)
      /\ \A j \in 1..(Len(s) - 1) : t[j] = IF j < i THEN s[j] ELSE s[j + 1]
  BY RemovedFacts
<1> HIDE DEF t
<1>3. \A j \in DOMAIN t : old[j] \in DOMAIN s \ {i} /\ old[j] # 0 /\ t[j] = s[old[j]]
  BY <1>1, <1>2
<1>4. \A j, k \in DOMAIN t : old[j] = old[k] => j = k
  BY <1>1, <1>2
<1>5. \A k \in DOMAIN s \ {i} : \E j \in DOMAIN t : old[j] = k
  <2> SUFFICES ASSUME NEW k \in DOMAIN s \ {i}
               PROVE  \E j \in DOMAIN t : old[j] = k
    OBVIOUS
  <2> DEFINE j == IF k < i THEN k ELSE k - 1
  <2>1. j \in DOMAIN t /\ old[j] = k
    BY <1>1, <1>2
  <2> QED
    BY <2>1
<1>6. old \in [DOMAIN t -> (DOMAIN s \ {i}) \cup {0}]
  BY <1>3
<1> HIDE DEF old
<1>7. Places(s, t, {i}, {}, old)
  BY <1>3, <1>4, <1>5, <1>6 DEF Places
<1> QED
  BY <1>2, <1>7 DEF Change, t

\* What a change keeps and brings, without the places.
LEMMA ChangeFacts ==
  ASSUME NEW s \in Seq(Flows), NEW t, NEW gone, NEW new, Change(s, t, gone, new)
  PROVE  /\ t \in Seq(Flows)
         /\ \A j \in DOMAIN t : t[j] \in new \/ \E k \in DOMAIN s \ gone : t[j] = s[k]
         /\ \A k \in DOMAIN s \ gone : \E j \in DOMAIN t : t[j] = s[k]
         /\ \A f \in new : \E j \in DOMAIN t : t[j] = f
<1>1. PICK old : Places(s, t, gone, new, old)
  BY DEF Change
<1>2. DOMAIN s = 1..Len(s) /\ Len(s) \in Nat
  BY LenProperties
<1>3. 0 \notin DOMAIN s
  BY <1>2
<1>4. \A j \in DOMAIN t : t[j] \in new \/ \E k \in DOMAIN s \ gone : t[j] = s[k]
  BY <1>1 DEF Places
<1>5. \A k \in DOMAIN s \ gone : \E j \in DOMAIN t : t[j] = s[k]
  <2> SUFFICES ASSUME NEW k \in DOMAIN s \ gone
               PROVE  \E j \in DOMAIN t : t[j] = s[k]
    OBVIOUS
  <2>1. PICK j \in DOMAIN t : old[j] = k
    BY <1>1 DEF Places
  <2> QED
    BY <2>1, <1>1, <1>3 DEF Places
<1> QED
  BY <1>1, <1>4, <1>5 DEF Places, Change

\* A change that opens no conversation keeps at most one handler that does.
LEMMA StillOne ==
  ASSUME NEW s \in Seq(Flows), NEW t, NEW gone, NEW new, Change(s, t, gone, new),
         \A f \in new : f.kind # "select",
         \A i, j \in DOMAIN s : s[i].kind = "select" /\ s[j].kind = "select" => i = j
  PROVE  \A i, j \in DOMAIN t : t[i].kind = "select" /\ t[j].kind = "select" => i = j
<1>1. PICK old : Places(s, t, gone, new, old)
  BY DEF Change
<1> SUFFICES ASSUME NEW i \in DOMAIN t, NEW j \in DOMAIN t, t[i].kind = "select", t[j].kind = "select"
             PROVE  i = j
  OBVIOUS
<1>2. old[i] # 0 /\ old[j] # 0
  BY <1>1 DEF Places
<1>3. old[i] \in DOMAIN s /\ old[j] \in DOMAIN s /\ t[i] = s[old[i]] /\ t[j] = s[old[j]]
  BY <1>1, <1>2 DEF Places
<1>4. old[i] = old[j]
  BY <1>3
<1> QED
  BY <1>1, <1>3, <1>4 DEF Places

\* A change that brings the first handler of its kind.
LEMMA FirstOne ==
  ASSUME NEW s \in Seq(Flows), NEW t, NEW gone, NEW f, Change(s, t, gone, {f}),
         \A i \in DOMAIN s : s[i].kind # f.kind
  PROVE  \A i, j \in DOMAIN t : t[i].kind = f.kind /\ t[j].kind = f.kind => i = j
<1>1. PICK old : Places(s, t, gone, {f}, old)
  BY DEF Change
<1> SUFFICES ASSUME NEW i \in DOMAIN t, NEW j \in DOMAIN t, t[i].kind = f.kind, t[j].kind = f.kind
             PROVE  i = j
  OBVIOUS
<1>2. old[i] = 0 /\ old[j] = 0
  BY <1>1 DEF Places
<1>3. t[i] = t[j]
  BY <1>1, <1>2 DEF Places
<1> QED
  BY <1>1, <1>2, <1>3 DEF Places

BothLoads(a, act) == {Flow("list", a, act), Flow("insights", a, act)}

LEMMA FlowTypes ==
  ASSUME NEW a \in Agents, NEW c \in Convs, NEW act \in BOOLEAN
  PROVE  /\ \A kind \in AgentKinds : Flow(kind, a, act) \in Flows
         /\ \A kind \in ConvKinds : Flow(kind, c, act) \in Flows
BY DEF Flow, Flows

LEMMA TwoMore ==
  ASSUME NEW s \in Seq(Flows), NEW rest, NEW gone, NEW a \in Agents, NEW act \in BOOLEAN,
         Change(s, rest, gone, {})
  PROVE  Change(s, rest \o <<Flow("list", a, act), Flow("insights", a, act)>>, gone, BothLoads(a, act))
<1> DEFINE f == Flow("list", a, act)
           g == Flow("insights", a, act)
<1>1. f \in Flows /\ g \in Flows
  BY DEF Flow, Flows, AgentKinds
<1>2. f # g
  BY DEF Flow
<1> HIDE DEF f, g
<1>3. Change(s, Append(rest, f), gone, {} \cup {f})
  BY <1>1, OneMore
<1>4. Change(s, Append(Append(rest, f), g), gone, ({} \cup {f}) \cup {g})
  BY <1>1, <1>2, <1>3, OneMore
<1>5. ({} \cup {f}) \cup {g} = {f, g}
  OBVIOUS
<1>6. Append(Append(rest, f), g) = rest \o <<f, g>>
  <2>1. rest \in Seq(Flows) /\ <<f>> \in Seq(Flows) /\ <<g>> \in Seq(Flows)
    BY <1>1 DEF Change
  <2>2. Append(rest, f) = rest \o <<f>> /\ rest \o <<f>> \in Seq(Flows)
    BY <1>1, <2>1, AppendIsConcat, ConcatProperties
  <2>3. Append(Append(rest, f), g) = (rest \o <<f>>) \o <<g>>
    BY <1>1, <2>2, AppendIsConcat
  <2>4. (rest \o <<f>>) \o <<g>> = rest \o (<<f>> \o <<g>>)
    BY <2>1, ConcatAssociative
  <2>5. <<f>> \o <<g>> = <<f, g>>
    <3> DEFINE u == <<f>> \o <<g>>
    <3>1. <<f>>[1] = f /\ <<g>>[1] = g /\ Len(<<f>>) = 1 /\ Len(<<g>>) = 1
      OBVIOUS
    <3>2. /\ u \in Seq(Flows) /\ Len(u) = Len(<<f>>) + Len(<<g>>)
          /\ \A i \in 1..(Len(<<f>>) + Len(<<g>>)) :
                 u[i] = IF i <= Len(<<f>>) THEN <<f>>[i] ELSE <<g>>[i - Len(<<f>>)]
      BY <2>1, ConcatProperties
    <3> HIDE DEF u
    <3>3. Len(u) = 2 /\ u[1] = f /\ u[2] = g
      BY <3>1, <3>2
    <3>4. <<f, g>> \in Seq(Flows) /\ Len(<<f, g>>) = 2 /\ <<f, g>>[1] = f /\ <<f, g>>[2] = g
      BY <1>1
    <3>5. \A i \in 1..Len(u) : u[i] = <<f, g>>[i]
      BY <3>3, <3>4
    <3>6. u = <<f, g>>
      BY <3>2, <3>3, <3>4, <3>5, SeqEqual
    <3> QED
      BY <3>6 DEF u
  <2> QED
    BY <2>3, <2>4, <2>5
<1> QED
  BY <1>4, <1>5, <1>6 DEF f, g, BothLoads
-------------------------------------------------------------------------------
(* How each action changes the handlers under way *)

KeyTyped(f) == f.key \in (IF f.kind \in ConvKinds THEN Convs ELSE Agents)
KeysTyped == \A i \in DOMAIN flows : KeyTyped(flows[i])

\* A handler that begins.
LEMMA Begins ==
  ASSUME ResultsTypeOK, NEW f \in Flows, flows' = Append(flows, f)
  PROVE  Change(flows, flows', {}, {f})
<1>1. flows \in Seq(Flows)
  BY DEF ResultsTypeOK
<1>2. Change(flows, flows, {}, {})
  BY <1>1, NothingChanges
<1>3. Change(flows, Append(flows, f), {}, {} \cup {f})
  BY <1>1, <1>2, OneMore
<1> QED
  BY <1>3

\* A handler that ends.
LEMMA EndsChange ==
  ASSUME ResultsTypeOK, NEW i \in DOMAIN flows, Ends(i)
  PROVE  Change(flows, flows', {i}, {})
BY OneLess DEF ResultsTypeOK, Ends

\* loadAll begins two, in a page where nothing or one handler has ended.
LEMMA LoadsBegin ==
  ASSUME ResultsTypeOK, NEW a \in Agents, LoadAll(flows, a, FALSE)
  PROVE  Change(flows, flows', {}, BothLoads(a, FALSE))
BY NothingChanges, TwoMore DEF ResultsTypeOK, LoadAll

LEMMA LoadsFollow ==
  ASSUME ResultsTypeOK, NEW i \in DOMAIN flows, NEW a \in Agents, LoadAll(RemoveAt(flows, i), a, TRUE)
  PROVE  Change(flows, flows', {i}, BothLoads(a, TRUE))
BY OneLess, TwoMore DEF ResultsTypeOK, LoadAll

LEMMA InsightsFollow ==
  ASSUME ResultsTypeOK, NEW i \in DOMAIN flows, NEW f \in Flows, flows' = Append(RemoveAt(flows, i), f)
  PROVE  Change(flows, flows', {i}, {f})
<1>1. flows \in Seq(Flows)
  BY DEF ResultsTypeOK
<1>2. Change(flows, Append(RemoveAt(flows, i), f), {i}, {} \cup {f})
  BY <1>1, OneLess, OneMore
<1> QED
  BY <1>2

\* The answer to the first or second request of selectConversation.
LEMMA Advances ==
  ASSUME ResultsTypeOK, NEW i \in DOMAIN flows, flows[i].stage # 3,
         flows' = [flows EXCEPT ![i].stage = @ + 1]
  PROVE  /\ flows' \in Seq(Flows) /\ DOMAIN flows' = DOMAIN flows
         /\ \A j \in DOMAIN flows : j # i => flows'[j] = flows[j]
         /\ flows'[i].kind = flows[i].kind /\ flows'[i].key = flows[i].key
         /\ flows'[i].stage = flows[i].stage + 1
         /\ flows[i].stage \in {1, 2}
<1>1. flows \in Seq(Flows) /\ DOMAIN flows = 1..Len(flows) /\ Len(flows) \in Nat
  BY LenProperties DEF ResultsTypeOK
<1>2. \A j \in 1..Len(flows) : flows[j] \in Flows
  BY <1>1, ElementOfSeq
<1>3. flows[i].stage \in {1, 2}
  BY <1>1, <1>2 DEF Flows
<1>4. [flows[i] EXCEPT !.stage = @ + 1] \in Flows
  BY <1>1, <1>2, <1>3 DEF Flows
<1>5. /\ [flows[i] EXCEPT !.stage = @ + 1].kind = flows[i].kind
      /\ [flows[i] EXCEPT !.stage = @ + 1].key = flows[i].key
      /\ [flows[i] EXCEPT !.stage = @ + 1].stage = flows[i].stage + 1
  BY <1>1, <1>2 DEF Flows
<1>6. flows' = [flows EXCEPT ![i] = [flows[i] EXCEPT !.stage = @ + 1]]
  OBVIOUS
<1>7. /\ DOMAIN flows' = DOMAIN flows
      /\ \A j \in DOMAIN flows : flows'[j] = IF j = i THEN [flows[i] EXCEPT !.stage = @ + 1] ELSE flows[j]
  <2>1. flows \in [DOMAIN flows -> Flows]
    BY <1>1
  <2> QED
    BY <2>1, <1>4, <1>6
<1>8. flows' \in Seq(Flows)
  BY <1>1, <1>4, <1>6, ExceptSeq
<1> QED
  BY <1>3, <1>5, <1>7, <1>8
-------------------------------------------------------------------------------
(* The cache *)

CacheTyped == cache \in [CacheKinds -> [Agents -> {None} \cup SUBSET Convs]]

\* The cache keeps its type and what it says when what is in it stays within bounds.
LEMMA CacheStays ==
  ASSUME CacheInv, UNCHANGED <<stored, analysed, cacheVars>>
  PROVE  CacheInv'
BY DEF CacheInv, cacheVars, ListOf, InsightsOf, Analysed, Owned

\* An answer that is kept is the only thing in the cache that changes.
LEMMA KeptFacts ==
  ASSUME CacheTyped, NEW kind \in CacheKinds, NEW a \in Agents, NEW got \in SUBSET Convs,
         cache' = [cache EXCEPT ![kind][a] = got]
  PROVE  /\ CacheTyped'
         /\ \A k \in CacheKinds, b \in Agents :
              cache'[k][b] = IF k = kind /\ b = a THEN got ELSE cache[k][b]
<1>1. cache[kind] \in [Agents -> {None} \cup SUBSET Convs]
  BY DEF CacheTyped
<1> DEFINE kept == [cache[kind] EXCEPT ![a] = got]
<1>2. kept \in [Agents -> {None} \cup SUBSET Convs]
  BY <1>1
<1>3. \A b \in Agents : kept[b] = IF b = a THEN got ELSE cache[kind][b]
  BY <1>1
<1>4. cache' = [cache EXCEPT ![kind] = kept]
  OBVIOUS
<1> HIDE DEF kept
<1>5. CacheTyped' /\ \A k \in CacheKinds : cache'[k] = IF k = kind THEN kept ELSE cache[k]
  BY <1>2, <1>4 DEF CacheTyped
<1>6. ASSUME NEW k \in CacheKinds, NEW b \in Agents
      PROVE  cache'[k][b] = IF k = kind /\ b = a THEN got ELSE cache[k][b]
  <2>1. CASE k = kind
    BY <1>3, <1>5, <2>1
  <2>2. CASE k # kind
    BY <1>5, <2>2
  <2> QED
    BY <2>1, <2>2
<1> QED
  BY <1>5, <1>6

\* The answers to the three kinds of requests that read the cache.
LEMMA ListRead ==
  ASSUME CacheTyped, CacheInv, NEW a \in Agents, NEW got \in SUBSET Convs,
         Read("list", a, {stored \cap Owned(a)}, got), stored \subseteq Convs,
         UNCHANGED <<stored, analysed, outdated>>
  PROVE  CacheTyped' /\ CacheInv' /\ ListOf(a, got)
<1> DEFINE fresh == {stored \cap Owned(a)}
<1>1. "list" \in CacheKinds /\ fresh \subseteq SUBSET Convs
  BY DEF CacheKinds
<1>2. \A S \in fresh : ListOf(a, S)
  BY DEF ListOf
<1>3. \/ got # None /\ got = cache["list"][a] /\ cache' = cache
      \/ got \in fresh /\ cache' = cache
      \/ got \in fresh /\ cache' = [cache EXCEPT !["list"][a] = got]
  BY DEF Read
<1> HIDE DEF fresh
<1>4. /\ CacheTyped'
      /\ got \in fresh \/ (got = cache["list"][a] /\ got # None)
      /\ \A k \in CacheKinds, b \in Agents :
           \/ cache'[k][b] = cache[k][b]
           \/ k = "list" /\ b = a /\ cache'[k][b] = got /\ got \in fresh
  <2>1. CASE cache' = cache
    BY <1>3, <2>1, ZenonT(30) DEF CacheTyped
  <2>2. CASE cache' = [cache EXCEPT !["list"][a] = got]
    <3>1. /\ CacheTyped'
          /\ \A k \in CacheKinds, b \in Agents :
               cache'[k][b] = IF k = "list" /\ b = a THEN got ELSE cache[k][b]
      BY <1>1, <2>2, KeptFacts
    <3> QED
      BY <1>3, <3>1
  <2> QED
    BY <1>3, <2>1, <2>2
<1>5. ListOf(a, got)
  BY <1>2, <1>4 DEF CacheInv
<1>6. CacheInv'
  <2> SUFFICES ASSUME NEW b \in Agents
               PROVE  /\ cache'["list"][b] # None => ListOf(b, cache'["list"][b])
                      /\ cache'["insights"][b] # None => InsightsOf(b, cache'["insights"][b])
                      /\ cache'["review"][b] # None => cache'["review"][b] \subseteq Owned(b)
    BY DEF CacheInv, ListOf, InsightsOf, Analysed, Owned
  <2>1. /\ cache'["insights"][b] = cache["insights"][b] /\ cache'["review"][b] = cache["review"][b]
        /\ cache'["list"][b] = cache["list"][b] \/ (b = a /\ cache'["list"][b] = got)
    BY <1>4 DEF CacheKinds
  <2> QED
    BY <1>5, <2>1 DEF CacheInv
<1> QED
  BY <1>4, <1>5, <1>6

LEMMA InsightsRead ==
  ASSUME CacheTyped, CacheInv, NEW a \in Agents, NEW got \in SUBSET Convs,
         Read("insights", a, {Analysed(a)}, got), stored \subseteq Convs,
         UNCHANGED <<stored, analysed, outdated>>
  PROVE  CacheTyped' /\ CacheInv' /\ InsightsOf(a, got)
<1> DEFINE fresh == {Analysed(a)}
<1>1. "insights" \in CacheKinds /\ fresh \subseteq SUBSET Convs
  BY DEF CacheKinds, Analysed
<1>2. \A S \in fresh : InsightsOf(a, S)
  BY DEF InsightsOf, Analysed
<1>3. \/ got # None /\ got = cache["insights"][a] /\ cache' = cache
      \/ got \in fresh /\ cache' = cache
      \/ got \in fresh /\ cache' = [cache EXCEPT !["insights"][a] = got]
  BY DEF Read
<1> HIDE DEF fresh
<1>4. /\ CacheTyped'
      /\ got \in fresh \/ (got = cache["insights"][a] /\ got # None)
      /\ \A k \in CacheKinds, b \in Agents :
           \/ cache'[k][b] = cache[k][b]
           \/ k = "insights" /\ b = a /\ cache'[k][b] = got /\ got \in fresh
  <2>1. CASE cache' = cache
    BY <1>3, <2>1, ZenonT(30) DEF CacheTyped
  <2>2. CASE cache' = [cache EXCEPT !["insights"][a] = got]
    <3>1. /\ CacheTyped'
          /\ \A k \in CacheKinds, b \in Agents :
               cache'[k][b] = IF k = "insights" /\ b = a THEN got ELSE cache[k][b]
      BY <1>1, <2>2, KeptFacts
    <3> QED
      BY <1>3, <3>1
  <2> QED
    BY <1>3, <2>1, <2>2
<1>5. InsightsOf(a, got)
  BY <1>2, <1>4 DEF CacheInv
<1>6. CacheInv'
  <2> SUFFICES ASSUME NEW b \in Agents
               PROVE  /\ cache'["list"][b] # None => ListOf(b, cache'["list"][b])
                      /\ cache'["insights"][b] # None => InsightsOf(b, cache'["insights"][b])
                      /\ cache'["review"][b] # None => cache'["review"][b] \subseteq Owned(b)
    BY DEF CacheInv, ListOf, InsightsOf, Analysed, Owned
  <2>1. /\ cache'["list"][b] = cache["list"][b] /\ cache'["review"][b] = cache["review"][b]
        /\ cache'["insights"][b] = cache["insights"][b] \/ (b = a /\ cache'["insights"][b] = got)
    BY <1>4 DEF CacheKinds
  <2> QED
    BY <1>5, <2>1 DEF CacheInv
<1> QED
  BY <1>4, <1>5, <1>6

LEMMA ReviewRead ==
  ASSUME CacheTyped, CacheInv, NEW a \in Agents, NEW got \in SUBSET Convs,
         Read("review", a, Samples(stored \cap Owned(a)), got), stored \subseteq Convs,
         UNCHANGED <<stored, analysed, outdated>>
  PROVE  CacheTyped' /\ CacheInv' /\ got \subseteq Owned(a)
<1> DEFINE fresh == Samples(stored \cap Owned(a))
<1>1. "review" \in CacheKinds /\ fresh \subseteq SUBSET Convs
  BY DEF CacheKinds, Samples
<1>2. \A S \in fresh : S \subseteq Owned(a)
  BY DEF Samples
<1>3. \/ got # None /\ got = cache["review"][a] /\ cache' = cache
      \/ got \in fresh /\ cache' = cache
      \/ got \in fresh /\ cache' = [cache EXCEPT !["review"][a] = got]
  BY DEF Read
<1> HIDE DEF fresh
<1>4. /\ CacheTyped'
      /\ got \in fresh \/ (got = cache["review"][a] /\ got # None)
      /\ \A k \in CacheKinds, b \in Agents :
           \/ cache'[k][b] = cache[k][b]
           \/ k = "review" /\ b = a /\ cache'[k][b] = got /\ got \in fresh
  <2>1. CASE cache' = cache
    BY <1>3, <2>1, ZenonT(30) DEF CacheTyped
  <2>2. CASE cache' = [cache EXCEPT !["review"][a] = got]
    <3>1. /\ CacheTyped'
          /\ \A k \in CacheKinds, b \in Agents :
               cache'[k][b] = IF k = "review" /\ b = a THEN got ELSE cache[k][b]
      BY <1>1, <2>2, KeptFacts
    <3> QED
      BY <1>3, <3>1
  <2> QED
    BY <1>3, <2>1, <2>2
<1>5. got \subseteq Owned(a)
  BY <1>2, <1>4 DEF CacheInv
<1>6. CacheInv'
  <2> SUFFICES ASSUME NEW b \in Agents
               PROVE  /\ cache'["list"][b] # None => ListOf(b, cache'["list"][b])
                      /\ cache'["insights"][b] # None => InsightsOf(b, cache'["insights"][b])
                      /\ cache'["review"][b] # None => cache'["review"][b] \subseteq Owned(b)
    BY DEF CacheInv, ListOf, InsightsOf, Analysed, Owned
  <2>1. /\ cache'["list"][b] = cache["list"][b] /\ cache'["insights"][b] = cache["insights"][b]
        /\ cache'["review"][b] = cache["review"][b] \/ (b = a /\ cache'["review"][b] = got)
    BY <1>4 DEF CacheKinds
  <2> QED
    BY <1>5, <2>1 DEF CacheInv
<1> QED
  BY <1>4, <1>5, <1>6

\* What clear_agent_cache leaves.
LEMMA ClearFacts ==
  ASSUME CacheTyped, NEW a \in Agents, NEW whole, NEW part, ClearCache(a, whole, part)
  PROVE  /\ CacheTyped'
         /\ \A k \in CacheKinds, b \in Agents :
              cache'[k][b] = cache[k][b] \/ (b = a /\ cache'[k][b] = None)
         /\ \/ outdated' = part
            \/ outdated' = whole /\ \A k \in CacheKinds : cache'[k][a] = None
<1>1. PICK kinds \in {CacheKinds, {"insights"}, {"list", "review"}, {}} :
        /\ cache' = [kind \in CacheKinds |->
                       IF kind \in kinds THEN [cache[kind] EXCEPT ![a] = None] ELSE cache[kind]]
        /\ IF kinds = CacheKinds THEN outdated' = whole ELSE outdated' = part
  BY DEF ClearCache
<1>2. ASSUME NEW k \in CacheKinds
      PROVE  /\ cache'[k] \in [Agents -> {None} \cup SUBSET Convs]
             /\ \A b \in Agents :
                  cache'[k][b] = IF k \in kinds /\ b = a THEN None ELSE cache[k][b]
  <2>1. cache[k] \in [Agents -> {None} \cup SUBSET Convs]
    BY DEF CacheTyped
  <2>2. cache'[k] = IF k \in kinds THEN [cache[k] EXCEPT ![a] = None] ELSE cache[k]
    BY <1>1
  <2> QED
    BY <2>1, <2>2
<1>3. CacheTyped'
  BY <1>1, <1>2 DEF CacheTyped
<1> QED
  BY <1>1, <1>2, <1>3
-------------------------------------------------------------------------------
(* Types *)

\* The handlers keep their type when those that begin have theirs.
LEMMA FlowsTyped ==
  ASSUME ResultsTypeOK, NEW gone, NEW new, Change(flows, flows', gone, new),
         \A f \in new : KeyTyped(f)
  PROVE  flows' \in Seq(Flows) /\ KeysTyped'
<1>1. flows \in Seq(Flows) /\ \A k \in DOMAIN flows : KeyTyped(flows[k])
  BY DEF ResultsTypeOK, KeyTyped
<1>2. /\ flows' \in Seq(Flows)
      /\ \A j \in DOMAIN flows' : flows'[j] \in new \/ \E k \in DOMAIN flows \ gone : flows'[j] = flows[k]
  BY <1>1, ChangeFacts
<1> QED
  BY <1>1, <1>2 DEF KeysTyped, KeyTyped

LEMMA OneTyped ==
  ASSUME ResultsTypeOK, NEW gone, NEW f, Change(flows, flows', gone, {f}), KeyTyped(f)
  PROVE  flows' \in Seq(Flows) /\ KeysTyped'
<1>1. \A g \in {f} : KeyTyped(g)
  OBVIOUS
<1> QED
  BY <1>1, FlowsTyped

LEMMA LoadsTyped ==
  ASSUME NEW a \in Agents, NEW act
  PROVE  \A f \in BothLoads(a, act) : KeyTyped(f)
BY DEF BothLoads, Flow, KeyTyped, ConvKinds

LEMMA ClosedTyped == Closed \in [Range(Stages) -> Convs \cup {None}]
BY DEF Closed

LEMMA StagesFacts ==
  /\ Stages[1] = "conversation" /\ Stages[2] = "stats" /\ Stages[3] = "timeline"
  /\ Range(Stages) = {"conversation", "stats", "timeline"}
<1>1. DOMAIN Stages = {1, 2, 3} /\ Stages[1] = "conversation" /\ Stages[2] = "stats" /\ Stages[3] = "timeline"
  BY DEF Stages
<1> HIDE DEF Stages
<1> QED
  BY <1>1 DEF Range

LEMMA ClosedFacts == \A p \in {"conversation", "stats", "timeline"} : Closed[p] = None
BY StagesFacts DEF Closed

LEMMA UserTypes ==
  ASSUME ResultsTypeOK, AgentChosen, User
  PROVE  ResultsTypeOK' /\ AgentChosen'
<1>1. ASSUME NEW a \in Agents, SelectAgent(a)
      PROVE  ResultsTypeOK' /\ AgentChosen'
  <2>1. flows' \in Seq(Flows) /\ KeysTyped'
    BY <1>1, LoadsBegin, LoadsTyped, FlowsTyped DEF SelectAgent
  <2>2. a # None
    BY ResultsAssumption DEF Agents
  <2> QED
    BY <1>1, <2>1, <2>2 DEF SelectAgent, cacheVars, ResultsTypeOK, KeysTyped, KeyTyped, AgentChosen
<1>2. ASSUME Refresh
      PROVE  ResultsTypeOK' /\ AgentChosen'
  <2>1. sel \in Agents
    BY <1>2 DEF Refresh, ResultsTypeOK
  <2>2. flows' \in Seq(Flows) /\ KeysTyped'
    BY <1>2, <2>1, LoadsBegin, LoadsTyped, FlowsTyped DEF Refresh
  <2> QED
    BY <1>2, <2>2 DEF Refresh, cacheVars, ResultsTypeOK, KeysTyped, KeyTyped, AgentChosen
<1>3. ASSUME NEW c \in Convs, SelectConversation(c)
      PROVE  ResultsTypeOK' /\ AgentChosen'
  <2>1. Flow("select", c, FALSE) \in Flows /\ KeyTyped(Flow("select", c, FALSE))
    BY DEF Flow, Flows, ConvKinds, KeysTyped, KeyTyped
  <2>2. flows' \in Seq(Flows) /\ KeysTyped'
    BY <1>3, <2>1, Begins, OneTyped DEF SelectConversation
  <2> QED
    BY <1>3, <2>2 DEF SelectConversation, cacheVars, Visible, ResultsTypeOK, KeysTyped, KeyTyped, AgentChosen
<1>4. ASSUME NEW kind \in ConvKinds \cup AgentKinds, NEW key, Press(kind, key),
             key \in (IF kind \in ConvKinds THEN Convs ELSE Agents)
      PROVE  flows' \in Seq(Flows) /\ KeysTyped'
  <2>1. Flow(kind, key, TRUE) \in Flows /\ KeyTyped(Flow(kind, key, TRUE))
    BY <1>4 DEF Flow, Flows, KeysTyped, KeyTyped
  <2> QED
    BY <1>4, <2>1, Begins, OneTyped DEF Press
<1>5. ASSUME DeleteSelectedConversation
      PROVE  ResultsTypeOK' /\ AgentChosen'
  <2>1. selectedId \in Convs
    BY <1>5 DEF DeleteSelectedConversation, ResultsTypeOK
  <2>2. flows' \in Seq(Flows) /\ KeysTyped'
    BY <1>4, <1>5, <2>1 DEF DeleteSelectedConversation, ConvKinds
  <2> QED
    BY <1>5, <2>2 DEF DeleteSelectedConversation, cacheVars, Press, Visible, ResultsTypeOK, KeysTyped, KeyTyped, AgentChosen
<1>6. ASSUME NEW kind \in {"deleteAll", "deleteInsights", "review", "report"}, sel # None, Press(kind, sel)
      PROVE  flows' \in Seq(Flows) /\ KeysTyped'
  <2>1. sel \in Agents /\ kind \notin ConvKinds /\ kind \in AgentKinds
    BY <1>6 DEF ResultsTypeOK, ConvKinds, AgentKinds
  <2> QED
    BY <1>4, <1>6, <2>1
<1>7. ASSUME DeleteAllAgentData
      PROVE  ResultsTypeOK' /\ AgentChosen'
  BY <1>6, <1>7 DEF DeleteAllAgentData, cacheVars, Press, ResultsTypeOK, KeysTyped, KeyTyped, AgentChosen
<1>8. ASSUME DeleteInsightsOnly
      PROVE  ResultsTypeOK' /\ AgentChosen'
  BY <1>6, <1>8 DEF DeleteInsightsOnly, cacheVars, Press, ResultsTypeOK, KeysTyped, KeyTyped, AgentChosen
<1>9. ASSUME LoadReviewSample
      PROVE  ResultsTypeOK' /\ AgentChosen'
  BY <1>6, <1>9 DEF LoadReviewSample, cacheVars, Visible, Press, ResultsTypeOK, KeysTyped, KeyTyped, AgentChosen
<1>10. ASSUME Report
       PROVE  ResultsTypeOK' /\ AgentChosen'
  BY <1>6, <1>10 DEF Report, cacheVars, Press, ResultsTypeOK, KeysTyped, KeyTyped, AgentChosen
<1> QED
  BY <1>1, <1>2, <1>3, <1>5, <1>7, <1>8, <1>9, <1>10 DEF User

LEMMA EndsTyped ==
  ASSUME ResultsTypeOK, NEW i \in DOMAIN flows, Ends(i)
  PROVE  flows' \in Seq(Flows) /\ KeysTyped'
<1>1. Change(flows, flows', {i}, {})
  BY EndsChange
<1>2. \A f \in {} : KeyTyped(f)
  OBVIOUS
<1> QED
  BY <1>1, <1>2, FlowsTyped

LEMMA AnswerTypes ==
  ASSUME ResultsTypeOK, CacheInv, AgentChosen, NEW i \in DOMAIN flows, Answer(i)
  PROVE  ResultsTypeOK' /\ AgentChosen'
<1>1. flows # <<>> /\ sel \in Agents /\ sel # None
  <2>1. flows # <<>>
    OBVIOUS
  <2> QED
    BY <2>1 DEF AgentChosen, ResultsTypeOK
<1>2. flows[i].kind \in AgentKinds => flows[i].key \in Agents
  BY DEF ResultsTypeOK, ConvKinds, AgentKinds
<1>3. flows[i].kind \in ConvKinds => flows[i].key \in Convs
  BY DEF ResultsTypeOK
<1>4. ASSUME AnswerList(i)
      PROVE  ResultsTypeOK' /\ AgentChosen'
  <2>1. PICK got \in SUBSET Convs :
          Read("list", flows[i].key, {stored \cap Owned(flows[i].key)}, got) /\ list' = got
    BY <1>4 DEF AnswerList
  <2>2. flows[i].key \in Agents
    BY <1>2, <1>4 DEF AnswerList, AgentKinds
  <2>3. CacheTyped'
    BY <1>4, <2>1, <2>2, ListRead DEF AnswerList, ResultsTypeOK, CacheTyped
  <2> QED
    BY <1>1, <1>4, <2>1, <2>3, EndsTyped, ClosedTyped
       DEF AnswerList, ResultsTypeOK, CacheTyped, KeysTyped, KeyTyped, AgentChosen
<1>5. ASSUME AnswerInsights(i)
      PROVE  ResultsTypeOK' /\ AgentChosen'
  <2>1. PICK got \in SUBSET Convs : Read("insights", flows[i].key, {Analysed(flows[i].key)}, got)
    BY <1>5 DEF AnswerInsights
  <2>2. flows[i].key \in Agents
    BY <1>2, <1>5 DEF AnswerInsights, AgentKinds
  <2>3. CacheTyped'
    BY <1>5, <2>1, <2>2, InsightsRead DEF AnswerInsights, ResultsTypeOK, CacheTyped
  <2> QED
    BY <1>1, <1>5, <2>3, EndsTyped DEF AnswerInsights, ResultsTypeOK, CacheTyped, KeysTyped, KeyTyped, AgentChosen
<1>6. ASSUME AnswerSelect(i)
      PROVE  ResultsTypeOK' /\ AgentChosen'
  <2>1. flows[i].key \in Convs
    BY <1>3, <1>6 DEF AnswerSelect, ConvKinds
  <2>2. open' \in [Range(Stages) -> Convs \cup {None}]
    BY <1>6, <2>1 DEF AnswerSelect, cacheVars, ResultsTypeOK
  <2>3. flows' \in Seq(Flows) /\ KeysTyped'
    <3>1. CASE flows[i].stage = 3
      BY <1>6, <3>1, EndsTyped DEF AnswerSelect
    <3>2. CASE flows[i].stage # 3
      <4>1. flows' = [flows EXCEPT ![i].stage = @ + 1]
        BY <1>6, <3>2 DEF AnswerSelect
      <4>2. /\ flows' \in Seq(Flows) /\ DOMAIN flows' = DOMAIN flows
            /\ \A j \in DOMAIN flows : j # i => flows'[j] = flows[j]
            /\ flows'[i].kind = flows[i].kind /\ flows'[i].key = flows[i].key
        BY <3>2, <4>1, Advances
      <4>3. \A j \in DOMAIN flows : KeyTyped(flows[j])
        BY DEF ResultsTypeOK, KeysTyped, KeyTyped
      <4>4. \A j \in DOMAIN flows : KeyTyped(flows'[j])
        BY <4>2, <4>3 DEF KeysTyped, KeyTyped
      <4> QED
        BY <4>2, <4>4 DEF KeysTyped, KeyTyped
    <3> QED
      BY <3>1, <3>2
  <2> QED
    BY <1>1, <1>6, <2>2, <2>3 DEF AnswerSelect, cacheVars, ResultsTypeOK, KeysTyped, KeyTyped, AgentChosen
<1>7. ASSUME AnswerDeleteOne(i)
      PROVE  ResultsTypeOK' /\ AgentChosen'
  <2>1. flows' \in Seq(Flows) /\ KeysTyped'
    BY <1>1, <1>7, LoadsFollow, LoadsTyped, FlowsTyped DEF AnswerDeleteOne
  <2> QED
    BY <1>1, <1>7, <2>1, ClosedTyped DEF AnswerDeleteOne, ResultsTypeOK, KeysTyped, KeyTyped, AgentChosen
<1>8. ASSUME AnswerDeleteAll(i)
      PROVE  ResultsTypeOK' /\ AgentChosen'
  <2>1. flows[i].key \in Agents
    BY <1>2, <1>8 DEF AnswerDeleteAll, AgentKinds
  <2>2. CacheTyped' /\ outdated' \subseteq Convs
    <3> DEFINE own == Owned(flows[i].key)
    <3>1. own \subseteq Convs /\ ClearCache(flows[i].key, outdated \ own, outdated \cup own)
      BY <1>8 DEF AnswerDeleteAll, Owned
    <3> HIDE DEF own
    <3>2. CacheTyped' /\ (outdated' = outdated \cup own \/ outdated' = outdated \ own)
      BY <2>1, <3>1, ClearFacts DEF ResultsTypeOK, CacheTyped
    <3> QED
      BY <3>1, <3>2 DEF ResultsTypeOK
  <2> QED
    BY <1>1, <1>8, <2>2, EndsTyped, ClosedTyped
       DEF AnswerDeleteAll, ResultsTypeOK, CacheTyped, KeysTyped, KeyTyped, AgentChosen
<1>9. ASSUME AnswerDeleteInsights(i)
      PROVE  ResultsTypeOK' /\ AgentChosen'
  <2>1. Flow("insights", sel, TRUE) \in Flows /\ KeyTyped(Flow("insights", sel, TRUE))
    BY <1>1 DEF Flow, Flows, AgentKinds, ConvKinds, KeysTyped, KeyTyped
  <2>2. flows' \in Seq(Flows) /\ KeysTyped'
    <3>1. flows' = Append(RemoveAt(flows, i), Flow("insights", sel, TRUE))
      BY <1>9 DEF AnswerDeleteInsights
    <3>2. Change(flows, flows', {i}, {Flow("insights", sel, TRUE)})
      BY <2>1, <3>1, InsightsFollow
    <3> QED
      BY <2>1, <3>2, OneTyped
  <2>3. flows[i].key \in Agents
    BY <1>2, <1>9 DEF AnswerDeleteInsights, AgentKinds
  <2>4. CacheTyped' /\ outdated' \subseteq Convs
    <3> DEFINE own == Owned(flows[i].key)
    <3>1. own \subseteq Convs /\ ClearCache(flows[i].key, outdated, outdated \cup own)
      BY <1>9 DEF AnswerDeleteInsights, Owned
    <3> HIDE DEF own
    <3>2. CacheTyped' /\ (outdated' = outdated \cup own \/ outdated' = outdated)
      BY <2>3, <3>1, ClearFacts DEF ResultsTypeOK, CacheTyped
    <3> QED
      BY <3>1, <3>2 DEF ResultsTypeOK
  <2> QED
    BY <1>1, <1>9, <2>2, <2>4
       DEF AnswerDeleteInsights, ResultsTypeOK, CacheTyped, KeysTyped, KeyTyped, AgentChosen
<1>10. ASSUME AnswerReview(i)
       PROVE  ResultsTypeOK' /\ AgentChosen'
  <2>1. PICK got \in SUBSET Convs :
          Read("review", flows[i].key, Samples(stored \cap Owned(flows[i].key)), got) /\ review' = got
    BY <1>10 DEF AnswerReview
  <2>2. flows[i].key \in Agents
    BY <1>2, <1>10 DEF AnswerReview, AgentKinds
  <2>3. CacheTyped'
    BY <1>10, <2>1, <2>2, ReviewRead DEF AnswerReview, ResultsTypeOK, CacheTyped
  <2> QED
    BY <1>1, <1>10, <2>1, <2>3, EndsTyped
       DEF AnswerReview, ResultsTypeOK, CacheTyped, KeysTyped, KeyTyped, AgentChosen
<1>11. ASSUME AnswerReport(i)
       PROVE  ResultsTypeOK' /\ AgentChosen'
  BY <1>1, <1>2, <1>11, EndsTyped DEF AnswerReport, cacheVars, ResultsTypeOK, AgentChosen, AgentKinds, KeysTyped, KeyTyped
<1>12. ASSUME NotReady(i)
       PROVE  ResultsTypeOK' /\ AgentChosen'
  BY <1>1, <1>12, EndsTyped, ClosedTyped DEF NotReady, cacheVars, ResultsTypeOK, KeysTyped, KeyTyped, AgentChosen
<1>13. ASSUME LoadFails(i)
       PROVE  ResultsTypeOK' /\ AgentChosen'
  BY <1>1, <1>13, EndsTyped DEF LoadFails, cacheVars, ResultsTypeOK, KeysTyped, KeyTyped, AgentChosen
<1>14. ASSUME ActionFails(i)
       PROVE  ResultsTypeOK' /\ AgentChosen'
  BY <1>1, <1>14, EndsTyped DEF ActionFails, cacheVars, ResultsTypeOK, KeysTyped, KeyTyped, AgentChosen
<1> QED
  BY <1>4, <1>5, <1>6, <1>7, <1>8, <1>9, <1>10, <1>11, <1>12, <1>13, <1>14 DEF Answer
-------------------------------------------------------------------------------
(* What a step keeps that does not touch what it is about *)

\* Handlers of some kinds are under way afterwards only if they were, or begin.
LEMMA UnderWayAfter ==
  ASSUME ResultsTypeOK, NEW gone, NEW new, NEW kinds, Change(flows, flows', gone, new)
  PROVE  /\ (\A f \in new : f.kind \notin kinds) /\ ~UnderWay(kinds) => ~UnderWay(kinds)'
         /\ (\A k \in gone : Kind(k) \notin kinds) /\ UnderWay(kinds) => UnderWay(kinds)'
         /\ (\E f \in new : f.kind \in kinds) => UnderWay(kinds)'
<1>1. flows \in Seq(Flows)
  BY DEF ResultsTypeOK
<1>2. /\ \A j \in DOMAIN flows' : flows'[j] \in new \/ \E k \in DOMAIN flows \ gone : flows'[j] = flows[k]
      /\ \A k \in DOMAIN flows \ gone : \E j \in DOMAIN flows' : flows'[j] = flows[k]
      /\ \A f \in new : \E j \in DOMAIN flows' : flows'[j] = f
  BY <1>1, ChangeFacts
<1> QED
  BY <1>2 DEF UnderWay, Kind

LEMMA SameAgentKept ==
  ASSUME ResultsTypeOK, SameAgent, sel' = sel, NEW gone, NEW new, Change(flows, flows', gone, new),
         \A f \in new : f.kind \in AgentKinds => f.key = sel
  PROVE  SameAgent'
<1>1. flows \in Seq(Flows)
  BY DEF ResultsTypeOK
<1>2. \A j \in DOMAIN flows' : flows'[j] \in new \/ \E k \in DOMAIN flows \ gone : flows'[j] = flows[k]
  BY <1>1, ChangeFacts
<1> QED
  BY <1>2 DEF SameAgent, Kind

LEMMA OneSelectionKept ==
  ASSUME ResultsTypeOK, OneSelection, stored' = stored, sel' = sel,
         NEW gone, NEW new, Change(flows, flows', gone, new),
         \A f \in new : f.kind \notin {"select", "deleteOne", "deleteAll", "list"}
  PROVE  OneSelection'
<1>1. flows \in Seq(Flows)
  BY DEF ResultsTypeOK
<1>2. \A j \in DOMAIN flows' : flows'[j] \in new \/ \E k \in DOMAIN flows \ gone : flows'[j] = flows[k]
  BY <1>1, ChangeFacts
<1>3. \A i, j \in DOMAIN flows : flows[i].kind = "select" /\ flows[j].kind = "select" => i = j
  BY DEF OneSelection, Kind
<1>4. \A f \in new : f.kind # "select"
  OBVIOUS
<1>5. \A i, j \in DOMAIN flows' : flows'[i].kind = "select" /\ flows'[j].kind = "select" => i = j
  BY <1>1, <1>3, <1>4, StillOne
<1> SUFFICES ASSUME NEW i \in DOMAIN flows', NEW j \in DOMAIN flows', flows'[i].kind = "select"
             PROVE  /\ flows'[j].kind \notin {"deleteOne", "deleteAll"}
                    /\ flows'[j].kind = "list" => flows'[i].key \in stored \cap Owned(sel)
  BY <1>5 DEF OneSelection, Kind, Owned
<1>6. PICK k \in DOMAIN flows : flows'[i] = flows[k]
  BY <1>2, <1>4
<1>7. CASE flows'[j] \in new
  BY <1>7
<1>8. CASE \E m \in DOMAIN flows : flows'[j] = flows[m]
  BY <1>6, <1>8 DEF OneSelection, Kind
<1> QED
  BY <1>2, <1>7, <1>8

LEMMA OpenKept ==
  ASSUME ResultsTypeOK, OpenInv, selectedId' = selectedId, open' = open,
         "select" \in failed => "select" \in failed',
         NEW gone, NEW new, Change(flows, flows', gone, new),
         \A f \in new : f.kind # "select", \A k \in gone : Kind(k) # "select"
  PROVE  OpenInv'
<1>1. flows \in Seq(Flows)
  BY DEF ResultsTypeOK
<1>2. \A j \in DOMAIN flows' : flows'[j] \in new \/ \E k \in DOMAIN flows \ gone : flows'[j] = flows[k]
  BY <1>1, ChangeFacts
<1>3. UnderWay({"select"}) => UnderWay({"select"})'
  BY UnderWayAfter
<1> QED
  BY <1>2, <1>3 DEF OpenInv, OpenIsSelected, Kind

\* A page that opens nothing: no handler for it is under way.
LEMMA NothingOpens ==
  ASSUME ~UnderWay({"select"})', selectedId' = None => open' = Closed,
         "select" \notin failed' =>
           /\ open'["conversation"] \in {None, selectedId'}
           /\ open'["stats"] = open'["conversation"] /\ open'["timeline"] = open'["conversation"]
  PROVE  OneSelection' /\ OpenInv'
<1>1. \A j \in DOMAIN flows' : flows'[j].kind # "select"
  BY DEF UnderWay
<1> QED
  BY <1>1 DEF OneSelection, OpenInv, OpenIsSelected, Kind

\* What is shown and stays is as good as it was while the data stay.
LEMMA SameData ==
  ASSUME UNCHANGED <<stored, analysed, outdated, sel>>
  PROVE  /\ list' = list => (ListOf(sel, list)' <=> ListOf(sel, list))
         /\ insights' = insights => (InsightsLoaded' <=> InsightsLoaded)
         /\ Owned(sel)' = Owned(sel)
BY DEF InsightsLoaded, ListOf, InsightsOf, Analysed, Owned

LEMMA LoadedKept ==
  ASSUME ResultsTypeOK, LoadedInv, NEW gone, NEW new, Change(flows, flows', gone, new),
         UNCHANGED <<stored, analysed, outdated, sel, list, insights, review, gaps, strayed>>,
         \A e \in {"list", "insights"} : e \in failed => e \in failed',
         \A k \in gone : Kind(k) \notin {"list", "insights", "deleteInsights"}
  PROVE  LoadedInv'
<1>1. /\ UnderWay({"list"}) => UnderWay({"list"})'
      /\ UnderWay({"insights", "deleteInsights"}) => UnderWay({"insights", "deleteInsights"})'
  BY UnderWayAfter
<1> QED
  BY <1>1, SameData DEF LoadedInv
-------------------------------------------------------------------------------
(* What the user does *)

\* Nothing is under way when a handler begins that deletes, or another agent is
\* selected.
LEMMA EmptyFacts ==
  ASSUME flows = <<>>
  PROVE  /\ \A kinds : ~UnderWay(kinds)
         /\ SameAgent
<1>1. DOMAIN flows = {}
  OBVIOUS
<1> QED
  BY <1>1 DEF UnderWay, SameAgent

LEMMA SelectAgentHonest ==
  ASSUME ResultsInv, NEW a \in Agents, SelectAgent(a), ~raced'
  PROVE  Unraced'
<1>1. ResultsTypeOK /\ flows = <<>> /\ SameAgent /\ OpenInv /\ LoadedInv /\ ~UnderWay({"select"})
  BY EmptyFacts DEF SelectAgent, ResultsInv, Unraced
<1>2. Change(flows, flows', {}, BothLoads(a, FALSE))
  BY <1>1, LoadsBegin DEF SelectAgent
<1>3. \A j \in DOMAIN flows' : flows'[j] \in BothLoads(a, FALSE)
  <2>1. flows \in Seq(Flows) /\ DOMAIN flows = {}
    BY <1>1
  <2>2. \A j \in DOMAIN flows' : \/ flows'[j] \in BothLoads(a, FALSE)
                                 \/ \E k \in DOMAIN flows \ {} : flows'[j] = flows[k]
    BY <1>2, <2>1, ChangeFacts
  <2> QED
    BY <2>1, <2>2
<1>4. \A f \in BothLoads(a, FALSE) : f.kind \in {"list", "insights"} /\ f.key = a
  BY DEF BothLoads, Flow
<1>5. SameAgent'
  BY <1>3, <1>4 DEF SameAgent, SelectAgent
<1>6. ~UnderWay({"select"})'
  BY <1>3, <1>4 DEF UnderWay
<1>7. OneSelection' /\ OpenInv'
  BY <1>1, <1>6, NothingOpens DEF SelectAgent, OpenInv, OpenIsSelected
<1>8. LoadedInv'
  <2>1. \E f \in BothLoads(a, FALSE) : f.kind \in {"list"}
    BY DEF BothLoads, Flow
  <2>2. \E f \in BothLoads(a, FALSE) : f.kind \in {"insights", "deleteInsights"}
    BY DEF BothLoads, Flow
  <2>3. UnderWay({"list"})' /\ UnderWay({"insights", "deleteInsights"})'
    BY <1>1, <1>2, <2>1, <2>2, UnderWayAfter
  <2>4. ~strayed' => review' = {} /\ gaps' = None
    BY DEF SelectAgent
  <2> QED
    BY <2>3, <2>4 DEF LoadedInv
<1> QED
  BY <1>5, <1>7, <1>8 DEF Unraced

LEMMA RefreshHonest ==
  ASSUME ResultsInv, Refresh, ~raced'
  PROVE  Unraced'
<1>1. ResultsTypeOK /\ SameAgent /\ OpenInv /\ LoadedInv /\ ~UnderWay({"select"}) /\ sel \in Agents
  BY DEF Refresh, ResultsInv, Unraced, ResultsTypeOK
<1>2. Change(flows, flows', {}, BothLoads(sel, FALSE))
  BY <1>1, LoadsBegin DEF Refresh
<1>3. \A f \in BothLoads(sel, FALSE) : f.kind \in {"list", "insights"} /\ f.key = sel
  BY DEF BothLoads, Flow
<1>4. SameAgent'
  BY <1>1, <1>2, <1>3, SameAgentKept DEF Refresh
<1>5. ~UnderWay({"select"})'
  BY <1>1, <1>2, <1>3, UnderWayAfter
<1>6. OneSelection' /\ OpenInv'
  BY <1>1, <1>5, NothingOpens DEF Refresh, OpenInv, OpenIsSelected
<1>7. LoadedInv'
  <2>1. \A k \in {} : Kind(k) \notin {"list", "insights", "deleteInsights"}
    OBVIOUS
  <2>2. UNCHANGED <<stored, analysed, outdated, sel, list, insights, review, gaps, strayed>> /\ failed' = failed
    BY DEF Refresh, cacheVars
  <2> DEFINE new == BothLoads(sel, FALSE)
  <2>3. Change(flows, flows', {}, new)
    BY <1>2
  <2> HIDE DEF new
  <2> QED
    BY <1>1, <2>1, <2>2, <2>3, LoadedKept
<1> QED
  BY <1>4, <1>6, <1>7 DEF Unraced

LEMMA SelectConversationHonest ==
  ASSUME ResultsInv, NEW c \in Convs, SelectConversation(c), ~raced'
  PROVE  Unraced'
<1> DEFINE f == Flow("select", c, FALSE)
<1>1. ResultsTypeOK /\ SameAgent /\ OneSelection /\ OpenInv /\ LoadedInv
  BY DEF SelectConversation, ResultsInv, Unraced
<1>2. /\ \A i \in DOMAIN flows : flows[i].kind \notin {"select", "deleteOne", "deleteAll"}
      /\ \A i \in DOMAIN flows : flows[i].kind = "list" => flows[i].key = AgentOf[c] /\ c \in stored
  BY DEF SelectConversation
<1>3. f \in Flows /\ f.kind = "select" /\ f.key = c /\ f.stage = 1
  BY DEF Flow, Flows, ConvKinds
<1>4. Change(flows, flows', {}, {f})
  BY <1>1, <1>3, Begins DEF SelectConversation
<1> HIDE DEF f
<1>5. /\ \A j \in DOMAIN flows' : flows'[j] = f \/ \E k \in DOMAIN flows : flows'[j] = flows[k]
      /\ \E j \in DOMAIN flows' : flows'[j] = f
  <2>1. flows \in Seq(Flows)
    BY <1>1 DEF ResultsTypeOK
  <2>2. /\ \A j \in DOMAIN flows' : flows'[j] \in {f} \/ \E k \in DOMAIN flows \ {} : flows'[j] = flows[k]
        /\ \A g \in {f} : \E j \in DOMAIN flows' : flows'[j] = g
    <3> DEFINE new == {f}
    <3>1. Change(flows, flows', {}, new)
      BY <1>4
    <3> HIDE DEF new
    <3>2. /\ \A j \in DOMAIN flows' : flows'[j] \in new \/ \E k \in DOMAIN flows \ {} : flows'[j] = flows[k]
          /\ \A g \in new : \E j \in DOMAIN flows' : flows'[j] = g
      BY <2>1, <3>1, ChangeFacts
    <3> QED
      BY <3>2 DEF new
  <2> QED
    BY <2>2
<1>6. UnderWay({"select"})'
  BY <1>3, <1>5 DEF UnderWay
<1>7. SameAgent'
  BY <1>1, <1>3, <1>4, SameAgentKept DEF SelectConversation, AgentKinds
<1>8. OneSelection'
  <2>1. \A i, j \in DOMAIN flows' : flows'[i].kind = "select" /\ flows'[j].kind = "select" => i = j
    <3>1. flows \in Seq(Flows) /\ \A i \in DOMAIN flows : flows[i].kind # f.kind
      BY <1>1, <1>2, <1>3 DEF ResultsTypeOK
    <3>2. \A i, j \in DOMAIN flows' : flows'[i].kind = f.kind /\ flows'[j].kind = f.kind => i = j
      BY <1>4, <3>1, FirstOne
    <3> QED
      BY <1>3, <3>2
  <2>2. \A j \in DOMAIN flows' : flows'[j].kind \notin {"deleteOne", "deleteAll"}
    BY <1>2, <1>3, <1>5
  <2>3. \A i \in DOMAIN flows' : flows'[i].kind = "select" => flows'[i].key = c
    BY <1>2, <1>3, <1>5
  <2>4. \A j \in DOMAIN flows' : flows'[j].kind = "list" => c \in stored \cap Owned(sel)
    <3>1. \A k \in DOMAIN flows : flows[k].kind = "list" => c \in stored \cap Owned(sel)
      BY <1>1, <1>2 DEF SameAgent, Kind, AgentKinds, Owned
    <3> QED
      BY <1>3, <1>5, <3>1
  <2>5. stored' = stored /\ Owned(sel)' = Owned(sel)
    BY DEF SelectConversation, Owned
  <2> QED
    BY <2>1, <2>2, <2>3, <2>4, <2>5 DEF OneSelection, Kind
<1>9. OpenInv'
  <2>1. \A i \in DOMAIN flows' : flows'[i].kind = "select" => flows'[i] = f
    BY <1>2, <1>5
  <2>2. selectedId' = c /\ c # None
    BY ResultsAssumption DEF SelectConversation
  <2> QED
    BY <1>3, <1>6, <2>1, <2>2 DEF OpenInv, OpenIsSelected, Kind
<1>10. LoadedInv'
  <2>1. \A k \in {} : Kind(k) \notin {"list", "insights", "deleteInsights"}
    OBVIOUS
  <2>2. UNCHANGED <<stored, analysed, outdated, sel, list, insights, review, gaps, strayed>> /\ failed' = failed
    BY DEF SelectConversation, cacheVars
  <2> QED
    BY <1>1, <1>4, <2>1, <2>2, LoadedKept
<1> QED
  BY <1>7, <1>8, <1>9, <1>10 DEF Unraced

\* A button that deletes: the page was at rest.
LEMMA DeletionHonest ==
  ASSUME ResultsInv, NEW kind \in {"deleteOne", "deleteAll", "deleteInsights"}, NEW key,
         Flow(kind, key, TRUE) \in Flows, kind \in AgentKinds => key = sel,
         Press(kind, key), ~raced'
  PROVE  /\ SameAgent' /\ OneSelection' /\ OpenInv'
         /\ LoadedInv
         /\ kind = "deleteInsights" => UnderWay({"insights", "deleteInsights"})'
         /\ ~UnderWay({"list"}) /\ ~UnderWay({"insights", "deleteInsights"})
<1> DEFINE f == Flow(kind, key, TRUE)
           new == {f}
<1>1. ResultsTypeOK /\ flows = <<>> /\ SameAgent /\ OpenInv /\ LoadedInv
  BY DEF Press, ResultsInv, Unraced
<1>2. f.kind = kind /\ f.key = key
  BY DEF Flow
<1>3. Change(flows, flows', {}, new)
  BY <1>1, Begins DEF Press
<1>4. \A g \in new : g.kind = kind /\ g.key = key
  BY <1>2
<1>5. kind = "deleteInsights" => \E g \in new : g.kind \in {"insights", "deleteInsights"}
  BY <1>2
<1> HIDE DEF f, new
<1>6. SameAgent'
  BY <1>1, <1>3, <1>4, SameAgentKept DEF Press
<1>7. ~UnderWay({"select"})'
  BY <1>1, <1>3, <1>4, EmptyFacts, UnderWayAfter
<1>8. OneSelection' /\ OpenInv'
  <2>1. ~UnderWay({"select"})
    BY <1>1, EmptyFacts
  <2> QED
    BY <1>1, <1>7, <2>1, NothingOpens DEF Press, OpenInv, OpenIsSelected
<1>9. kind = "deleteInsights" => UnderWay({"insights", "deleteInsights"})'
  BY <1>1, <1>3, <1>5, UnderWayAfter
<1> QED
  BY <1>1, <1>6, <1>8, <1>9, EmptyFacts

LEMMA DeleteSelectedHonest ==
  ASSUME ResultsInv, DeleteSelectedConversation, ~raced'
  PROVE  Unraced'
<1>1. Flow("deleteOne", selectedId, TRUE) \in Flows /\ "deleteOne" \notin AgentKinds
  BY DEF DeleteSelectedConversation, ResultsInv, ResultsTypeOK, Flow, Flows, ConvKinds, AgentKinds
<1>2. /\ SameAgent' /\ OneSelection' /\ OpenInv' /\ LoadedInv
      /\ ~UnderWay({"list"}) /\ ~UnderWay({"insights", "deleteInsights"})
  BY <1>1, DeletionHonest DEF DeleteSelectedConversation
<1>3. LoadedInv'
  BY <1>2, SameData DEF LoadedInv, cacheVars, DeleteSelectedConversation, Press
<1> QED
  BY <1>2, <1>3 DEF Unraced

LEMMA DeleteAllPressedHonest ==
  ASSUME ResultsInv, DeleteAllAgentData, ~raced'
  PROVE  Unraced'
<1>1. Flow("deleteAll", sel, TRUE) \in Flows
  BY DEF DeleteAllAgentData, ResultsInv, ResultsTypeOK, Flow, Flows, AgentKinds
<1>2. /\ SameAgent' /\ OneSelection' /\ OpenInv' /\ LoadedInv
      /\ ~UnderWay({"list"}) /\ ~UnderWay({"insights", "deleteInsights"})
  BY <1>1, DeletionHonest DEF DeleteAllAgentData
<1>3. LoadedInv'
  BY <1>2, SameData DEF LoadedInv, cacheVars, DeleteAllAgentData, Press
<1> QED
  BY <1>2, <1>3 DEF Unraced

LEMMA DeleteInsightsPressedHonest ==
  ASSUME ResultsInv, DeleteInsightsOnly, ~raced'
  PROVE  Unraced'
<1>1. Flow("deleteInsights", sel, TRUE) \in Flows
  BY DEF DeleteInsightsOnly, ResultsInv, ResultsTypeOK, Flow, Flows, AgentKinds
<1>2. /\ SameAgent' /\ OneSelection' /\ OpenInv' /\ LoadedInv
      /\ UnderWay({"insights", "deleteInsights"})' /\ ~UnderWay({"list"})
  BY <1>1, DeletionHonest DEF DeleteInsightsOnly
<1>3. LoadedInv'
  BY <1>2, SameData DEF LoadedInv, cacheVars, DeleteInsightsOnly, Press
<1> QED
  BY <1>2, <1>3 DEF Unraced

\* The sample and the report go together with anything that is under way.
LEMMA AskedHonest ==
  ASSUME ResultsInv, NEW kind \in {"review", "report"}, sel # None, Press(kind, sel), ~raced'
  PROVE  /\ SameAgent' /\ OneSelection' /\ OpenInv' /\ LoadedInv
         /\ UnderWay({"list"}) => UnderWay({"list"})'
         /\ UnderWay({"insights", "deleteInsights"}) => UnderWay({"insights", "deleteInsights"})'
<1> DEFINE f == Flow(kind, sel, TRUE)
           new == {f}
<1>1. ResultsTypeOK /\ SameAgent /\ OneSelection /\ OpenInv /\ LoadedInv
  BY DEF Press, ResultsInv, Unraced
<1>2. f \in Flows /\ f.kind = kind /\ f.key = sel
  BY <1>1 DEF ResultsTypeOK, Flow, Flows, AgentKinds
<1>3. Change(flows, flows', {}, new)
  BY <1>1, <1>2, Begins DEF Press
<1>4. \A g \in new : g.kind = kind /\ g.key = sel
  BY <1>2
<1> HIDE DEF f, new
<1>5. SameAgent'
  BY <1>1, <1>3, <1>4, SameAgentKept DEF Press
<1>6. OneSelection'
  BY <1>1, <1>3, <1>4, OneSelectionKept DEF Press
<1>7. OpenInv'
  <2>1. \A g \in new : g.kind # "select"
    BY <1>4
  <2>2. \A k \in {} : Kind(k) # "select"
    OBVIOUS
  <2>3. selectedId' = selectedId /\ open' = open /\ failed' = failed
    BY DEF Press
  <2> QED
    BY <1>1, <1>3, <2>1, <2>2, <2>3, OpenKept
<1>8. /\ UnderWay({"list"}) => UnderWay({"list"})'
      /\ UnderWay({"insights", "deleteInsights"}) => UnderWay({"insights", "deleteInsights"})'
  BY <1>1, <1>3, UnderWayAfter
<1> QED
  BY <1>1, <1>5, <1>6, <1>7, <1>8

LEMMA ReviewHonest ==
  ASSUME ResultsInv, LoadReviewSample, ~raced'
  PROVE  Unraced'
<1>1. /\ SameAgent' /\ OneSelection' /\ OpenInv' /\ LoadedInv
      /\ UnderWay({"list"}) => UnderWay({"list"})'
      /\ UnderWay({"insights", "deleteInsights"}) => UnderWay({"insights", "deleteInsights"})'
  BY AskedHonest DEF LoadReviewSample, Visible
<1>2. LoadedInv'
  BY <1>1, SameData DEF LoadedInv, cacheVars, LoadReviewSample, Press
<1> QED
  BY <1>1, <1>2 DEF Unraced

LEMMA ReportHonest ==
  ASSUME ResultsInv, Report, ~raced'
  PROVE  Unraced'
<1>1. /\ SameAgent' /\ OneSelection' /\ OpenInv' /\ LoadedInv
      /\ UnderWay({"list"}) => UnderWay({"list"})'
      /\ UnderWay({"insights", "deleteInsights"}) => UnderWay({"insights", "deleteInsights"})'
  BY AskedHonest DEF Report
<1>2. LoadedInv'
  BY <1>1, SameData DEF LoadedInv, cacheVars, Report, Press
<1> QED
  BY <1>1, <1>2 DEF Unraced

LEMMA UserHonest ==
  ASSUME ResultsInv, User, ~raced'
  PROVE  Unraced'
BY SelectAgentHonest, RefreshHonest, SelectConversationHonest, DeleteSelectedHonest,
   DeleteAllPressedHonest, DeleteInsightsPressedHonest, ReviewHonest, ReportHonest DEF User
-------------------------------------------------------------------------------
(* What the answers do *)

LoadsInsights == {"insights", "deleteInsights"}

\* A handler that ends leaves the others as they are.
LEMMA EndsHonest ==
  ASSUME ResultsInv, ~raced, NEW i \in DOMAIN flows, Ends(i), sel' = sel
  PROVE  /\ SameAgent'
         /\ stored' = stored => OneSelection'
         /\ ~UnderWay({"select"}) \/ Kind(i) = "select" => ~UnderWay({"select"})'
         /\ Kind(i) # "select" /\ UnderWay({"select"}) => UnderWay({"select"})'
         /\ Kind(i) # "list" /\ UnderWay({"list"}) => UnderWay({"list"})'
         /\ Kind(i) \notin LoadsInsights /\ UnderWay(LoadsInsights) => UnderWay(LoadsInsights)'
         /\ Kind(i) \in AgentKinds => flows[i].key = sel
         /\ \A j \in DOMAIN flows' : \E k \in DOMAIN flows \ {i} : flows'[j] = flows[k]
<1> DEFINE gone == {i}
           new == {}
<1>1. ResultsTypeOK /\ SameAgent /\ OneSelection /\ flows \in Seq(Flows)
  BY DEF ResultsInv, Unraced, ResultsTypeOK
<1>2. Change(flows, flows', gone, new)
  BY <1>1, EndsChange
<1>3. (\A f \in new : FALSE) /\ (\A k \in gone : k = i)
  OBVIOUS
<1> HIDE DEF gone, new
<1>4. SameAgent'
  BY <1>1, <1>2, <1>3, SameAgentKept
<1>5. stored' = stored => OneSelection'
  BY <1>1, <1>2, <1>3, OneSelectionKept
<1>6. \A j \in DOMAIN flows' : flows'[j] \in new \/ \E k \in DOMAIN flows \ gone : flows'[j] = flows[k]
  BY <1>1, <1>2, ChangeFacts
<1>7. \A j \in DOMAIN flows' : \E k \in DOMAIN flows \ {i} : flows'[j] = flows[k]
  BY <1>3, <1>6 DEF gone
<1>8. ~UnderWay({"select"}) => ~UnderWay({"select"})'
  BY <1>7 DEF UnderWay
<1>9. Kind(i) = "select" => ~UnderWay({"select"})'
  BY <1>1, <1>7 DEF UnderWay, OneSelection, Kind
<1>10. /\ Kind(i) # "select" /\ UnderWay({"select"}) => UnderWay({"select"})'
       /\ Kind(i) # "list" /\ UnderWay({"list"}) => UnderWay({"list"})'
       /\ Kind(i) \notin LoadsInsights /\ UnderWay(LoadsInsights) => UnderWay(LoadsInsights)'
  BY <1>1, <1>2, <1>3, UnderWayAfter
<1>11. Kind(i) \in AgentKinds => flows[i].key = sel
  BY <1>1 DEF SameAgent
<1> QED
  BY <1>4, <1>5, <1>7, <1>8, <1>9, <1>10, <1>11

\* What is open stays so when a handler ends that does not open.
LEMMA EndsOpen ==
  ASSUME ResultsInv, ~raced, NEW i \in DOMAIN flows, Ends(i), sel' = sel, Kind(i) # "select",
         selectedId' = selectedId, open' = open, "select" \in failed => "select" \in failed'
  PROVE  OpenInv'
<1> DEFINE gone == {i}
           new == {}
<1>1. ResultsTypeOK /\ OpenInv
  BY DEF ResultsInv, Unraced
<1>2. Change(flows, flows', gone, new)
  BY <1>1, EndsChange
<1>3. (\A f \in new : f.kind # "select") /\ (\A k \in gone : Kind(k) # "select")
  OBVIOUS
<1> HIDE DEF gone, new
<1> QED
  BY <1>1, <1>2, <1>3, OpenKept

\* A list that arrives keeps the selection if a handler is at work on it.
LEMMA AnswerListHonest ==
  ASSUME ResultsInv, ~raced, NEW i \in DOMAIN flows, AnswerList(i)
  PROVE  Unraced'
<1>1. OneSelection /\ OpenInv /\ LoadedInv /\ Kind(i) = "list" /\ Ends(i) /\ sel' = sel /\ stored' = stored
  BY DEF ResultsInv, Unraced, AnswerList, Kind
<1>2. /\ SameAgent' /\ OneSelection' /\ flows[i].key = sel
      /\ ~UnderWay({"select"}) => ~UnderWay({"select"})'
      /\ UnderWay({"select"}) => UnderWay({"select"})'
      /\ UnderWay(LoadsInsights) => UnderWay(LoadsInsights)'
      /\ \A j \in DOMAIN flows' : \E k \in DOMAIN flows \ {i} : flows'[j] = flows[k]
  BY <1>1, EndsHonest DEF AgentKinds, LoadsInsights
<1>3. ListOf(sel, list')
  <2>1. PICK got \in SUBSET Convs : Read("list", sel, {stored \cap Owned(sel)}, got) /\ list' = got
    BY <1>2 DEF AnswerList
  <2>2. sel \in Agents /\ stored \subseteq Convs /\ CacheTyped /\ CacheInv
    <3>1. flows # <<>>
      OBVIOUS
    <3> QED
      BY <3>1 DEF ResultsInv, ResultsTypeOK, AgentChosen, CacheTyped
  <2> QED
    BY <2>1, <2>2, ListRead DEF AnswerList
<1>4. OpenInv'
  <2>1. CASE UnderWay({"select"})
    <3>1. PICK j \in DOMAIN flows : flows[j].kind = "select"
      BY <2>1 DEF UnderWay
    <3>2. selectedId = flows[j].key /\ selectedId \in list'
      BY <1>1, <1>3, <3>1 DEF OneSelection, OpenInv, Kind, ListOf
    <3>3. selectedId' = selectedId /\ open' = open
      BY <3>2 DEF AnswerList
    <3> QED
      BY <1>1, <1>2, <2>1, <3>3 DEF OpenInv, OpenIsSelected, Kind
  <2>2. CASE ~UnderWay({"select"})
    <3>1. CASE selectedId # None /\ selectedId \notin list'
      BY <1>2, <2>2, <3>1, NothingOpens, ClosedFacts DEF AnswerList
    <3>2. CASE selectedId = None
      <4>1. open' = Closed /\ selectedId' = None
        BY <1>1, <3>2 DEF AnswerList, OpenInv
      <4> QED
        BY <1>2, <2>2, <4>1, NothingOpens, ClosedFacts
    <3>3. CASE selectedId # None /\ selectedId \in list'
      <4>1. open' = open /\ selectedId' = selectedId /\ failed' = failed \ {"list"}
        BY <3>3 DEF AnswerList
      <4> QED
        BY <1>1, <1>2, <2>2, <3>3, <4>1, NothingOpens DEF OpenInv, OpenIsSelected
    <3> QED
      BY <3>1, <3>2, <3>3
  <2> QED
    BY <2>1, <2>2
<1>5. LoadedInv'
  <2>1. ListOf(sel, list)' /\ UNCHANGED <<stored, analysed, outdated, sel, insights, review, gaps, strayed>>
    BY <1>1, <1>3 DEF AnswerList, ListOf, Owned
  <2>2. "insights" \in failed => "insights" \in failed'
    BY DEF AnswerList
  <2> QED
    BY <1>1, <1>2, <2>1, <2>2, SameData DEF LoadedInv, LoadsInsights
<1> QED
  BY <1>2, <1>4, <1>5 DEF Unraced

LEMMA AnswerInsightsHonest ==
  ASSUME ResultsInv, ~raced, NEW i \in DOMAIN flows, AnswerInsights(i)
  PROVE  Unraced'
<1>1. LoadedInv /\ Kind(i) = "insights" /\ Ends(i) /\ sel' = sel /\ stored' = stored
  BY DEF ResultsInv, Unraced, AnswerInsights, Kind
<1>2. SameAgent' /\ OneSelection' /\ flows[i].key = sel /\ (UnderWay({"list"}) => UnderWay({"list"})')
  BY <1>1, EndsHonest DEF AgentKinds
<1>3. OpenInv'
  <2>1. selectedId' = selectedId /\ open' = open /\ ("select" \in failed => "select" \in failed')
    BY DEF AnswerInsights
  <2> QED
    BY <1>1, <2>1, EndsOpen
<1>4. InsightsLoaded'
  <2>1. PICK got \in SUBSET Convs : /\ Read("insights", sel, {Analysed(sel)}, got)
                                    /\ insights' = [agent |-> sel, rows |-> got]
    BY <1>2 DEF AnswerInsights
  <2>2. sel \in Agents /\ stored \subseteq Convs /\ CacheTyped /\ CacheInv
    <3>1. flows # <<>>
      OBVIOUS
    <3> QED
      BY <3>1 DEF ResultsInv, ResultsTypeOK, AgentChosen, CacheTyped
  <2>3. InsightsOf(sel, got)
    BY <2>1, <2>2, InsightsRead DEF AnswerInsights
  <2> QED
    BY <2>1, <2>3 DEF AnswerInsights, InsightsLoaded, InsightsOf, Analysed, Owned
<1>5. LoadedInv'
  <2>1. /\ UNCHANGED <<stored, analysed, outdated, sel, list, review, gaps, strayed>>
        /\ "list" \in failed => "list" \in failed'
    BY DEF AnswerInsights
  <2> QED
    BY <1>2, <1>4, <2>1, SameData, <1>1 DEF LoadedInv
<1> QED
  BY <1>2, <1>3, <1>5 DEF Unraced

\* The last of the three answers finds the others shown.
LEMMA LastAnswerHonest ==
  ASSUME ResultsInv, ~raced, NEW i \in DOMAIN flows, AnswerSelect(i), flows[i].stage = 3
  PROVE  Unraced'
<1>1. /\ ResultsTypeOK /\ OpenInv /\ LoadedInv /\ Kind(i) = "select" /\ Ends(i)
      /\ sel' = sel /\ stored' = stored /\ selectedId' = selectedId
  BY DEF ResultsInv, Unraced, AnswerSelect, Kind
<1>2. /\ SameAgent' /\ OneSelection' /\ ~UnderWay({"select"})'
      /\ UnderWay({"list"}) => UnderWay({"list"})'
      /\ UnderWay(LoadsInsights) => UnderWay(LoadsInsights)'
  BY <1>1, EndsHonest DEF LoadsInsights
<1>3. flows[i].key = selectedId /\ open["conversation"] = selectedId /\ open["stats"] = selectedId
  BY <1>1 DEF OpenInv
<1>4. selectedId \in Convs
  BY <1>1, <1>3 DEF ResultsTypeOK, Kind, ConvKinds
<1>5. open' = [open EXCEPT !["timeline"] = selectedId]
  BY <1>3, StagesFacts DEF AnswerSelect
<1>6. open'["conversation"] = selectedId /\ open'["stats"] = selectedId /\ open'["timeline"] = selectedId
  BY <1>1, <1>3, <1>5, StagesFacts DEF ResultsTypeOK
<1>7. selectedId' # None
  BY <1>1, <1>4, ResultsAssumption
<1>8. OneSelection' /\ OpenInv'
  BY <1>1, <1>2, <1>6, <1>7, NothingOpens
<1>9. LoadedInv'
  BY <1>1, <1>2, SameData DEF LoadedInv, LoadsInsights, cacheVars, AnswerSelect
<1> QED
  BY <1>2, <1>8, <1>9 DEF Unraced

LEMMA EarlierAnswerHonest ==
  ASSUME ResultsInv, ~raced, NEW i \in DOMAIN flows, AnswerSelect(i), flows[i].stage # 3
  PROVE  Unraced'
<1>1. /\ ResultsTypeOK /\ SameAgent /\ OneSelection /\ OpenInv /\ LoadedInv /\ flows[i].kind = "select"
      /\ sel' = sel /\ stored' = stored /\ selectedId' = selectedId
      /\ flows' = [flows EXCEPT ![i].stage = @ + 1]
  BY DEF ResultsInv, Unraced, AnswerSelect, Kind
<1>2. /\ DOMAIN flows' = DOMAIN flows
      /\ \A j \in DOMAIN flows : j # i => flows'[j] = flows[j]
      /\ flows'[i].kind = flows[i].kind /\ flows'[i].key = flows[i].key
      /\ flows'[i].stage = flows[i].stage + 1 /\ flows[i].stage \in {1, 2}
  BY <1>1, Advances
<1>3. \A j \in DOMAIN flows : flows'[j].kind = flows[j].kind /\ flows'[j].key = flows[j].key
  BY <1>2
<1>4. SameAgent'
  BY <1>1, <1>2, <1>3 DEF SameAgent, Kind
<1>5. OneSelection'
  BY <1>1, <1>2, <1>3 DEF OneSelection, Kind, Owned
<1>6. \A kinds : UnderWay(kinds) => UnderWay(kinds)'
  BY <1>2, <1>3 DEF UnderWay
<1>7. OpenInv'
  <2>1. flows[i].key = selectedId /\ \A j \in DOMAIN flows : flows[j].kind = "select" => j = i
    BY <1>1 DEF OneSelection, OpenInv, Kind
  <2>2. selectedId' \in Convs /\ selectedId' # None
    BY <1>1, <2>1, ResultsAssumption DEF ResultsTypeOK, ConvKinds
  <2>3. open' = [open EXCEPT ![Stages[flows[i].stage]] = selectedId]
    BY <2>1 DEF AnswerSelect
  <2>4. flows'[i].stage >= 2 => open'["conversation"] = selectedId
    <3>1. CASE flows[i].stage = 1
      BY <1>1, <2>3, <3>1, StagesFacts DEF ResultsTypeOK
    <3>2. CASE flows[i].stage = 2
      BY <1>1, <2>3, <3>2, StagesFacts DEF ResultsTypeOK, OpenInv, Kind
    <3> QED
      BY <1>2, <3>1, <3>2
  <2>5. flows'[i].stage = 3 => open'["stats"] = selectedId
    <3>1. flows'[i].stage = 3 => flows[i].stage = 2
      BY <1>2
    <3> QED
      BY <1>1, <2>3, <3>1, StagesFacts DEF ResultsTypeOK
  <2>6. UnderWay({"select"})'
    BY <1>1, <1>2 DEF UnderWay
  <2> QED
    BY <1>1, <1>2, <1>3, <2>1, <2>2, <2>4, <2>5, <2>6 DEF OpenInv, OpenIsSelected, Kind
<1>8. LoadedInv'
  BY <1>1, <1>6, SameData DEF LoadedInv, cacheVars, AnswerSelect
<1> QED
  BY <1>4, <1>5, <1>7, <1>8 DEF Unraced

\* The page closes what it has deleted, and loads the rest.
LEMMA AnswerDeleteOneHonest ==
  ASSUME ResultsInv, ~raced, NEW i \in DOMAIN flows, AnswerDeleteOne(i)
  PROVE  Unraced'
<1> DEFINE new == BothLoads(sel, TRUE)
           gone == {i}
<1>1. /\ ResultsTypeOK /\ SameAgent /\ OneSelection /\ LoadedInv /\ Kind(i) = "deleteOne"
      /\ flows # <<>> /\ sel' = sel
  BY DEF ResultsInv, Unraced, AnswerDeleteOne, Kind
<1>2. sel \in Agents
  BY <1>1 DEF ResultsInv, AgentChosen, ResultsTypeOK
<1>3. Change(flows, flows', gone, new)
  BY <1>1, <1>2, LoadsFollow DEF AnswerDeleteOne
<1>4. /\ \A f \in new : f.kind \in {"list", "insights"} /\ f.key = sel
      /\ \E f \in new : f.kind \in {"list"}
      /\ \E f \in new : f.kind \in {"insights", "deleteInsights"}
  BY DEF BothLoads, Flow
<1> HIDE DEF new, gone
<1>5. SameAgent'
  BY <1>1, <1>3, <1>4, SameAgentKept
<1>6. ~UnderWay({"select"})'
  <2>1. ~UnderWay({"select"})
    BY <1>1 DEF UnderWay, OneSelection, Kind
  <2>2. \A f \in new : f.kind \notin {"select"}
    BY <1>4
  <2> QED
    BY <1>1, <1>3, <2>1, <2>2, UnderWayAfter
<1>7. OneSelection' /\ OpenInv'
  BY <1>6, NothingOpens, ClosedFacts DEF AnswerDeleteOne
<1>8. UnderWay({"list"})' /\ UnderWay({"insights", "deleteInsights"})'
  BY <1>1, <1>3, <1>4, UnderWayAfter
<1>9. LoadedInv'
  BY <1>1, <1>8 DEF LoadedInv, Owned, AnswerDeleteOne
<1> QED
  BY <1>5, <1>7, <1>9 DEF Unraced

LEMMA AnswerDeleteAllHonest ==
  ASSUME ResultsInv, ~raced, NEW i \in DOMAIN flows, AnswerDeleteAll(i)
  PROVE  Unraced'
<1>1. OneSelection /\ LoadedInv /\ Kind(i) = "deleteAll" /\ Ends(i) /\ sel' = sel
  BY DEF ResultsInv, Unraced, AnswerDeleteAll, Kind
<1>2. ~UnderWay({"select"})
  BY <1>1 DEF UnderWay, OneSelection, Kind
<1>3. SameAgent' /\ ~UnderWay({"select"})' /\ flows[i].key = sel
  BY <1>1, <1>2, EndsHonest DEF AgentKinds
<1>4. OneSelection' /\ OpenInv'
  BY <1>3, NothingOpens, ClosedFacts DEF AnswerDeleteAll
<1>5. ListOf(sel, list)' /\ insights' = None /\ sel' \notin analysed'
  BY <1>3 DEF AnswerDeleteAll, ListOf, Owned
<1>6. LoadedInv'
  <2>0. sel # None
    <3>1. flows # <<>>
      OBVIOUS
    <3> QED
      BY <3>1 DEF ResultsInv, AgentChosen
  <2>1. ~strayed' => review' \subseteq Owned(sel)' /\ gaps' \in {None, sel'}
    BY <1>1, <2>0 DEF LoadedInv, AnswerDeleteAll, Owned
  <2> QED
    BY <1>5, <2>1 DEF LoadedInv
<1> QED
  BY <1>3, <1>4, <1>6 DEF Unraced

LEMMA AnswerDeleteInsightsHonest ==
  ASSUME ResultsInv, ~raced, NEW i \in DOMAIN flows, AnswerDeleteInsights(i)
  PROVE  Unraced'
<1> DEFINE f == Flow("insights", sel, TRUE)
           new == {f}
           gone == {i}
<1>1. /\ ResultsTypeOK /\ SameAgent /\ OneSelection /\ OpenInv /\ LoadedInv /\ Kind(i) = "deleteInsights"
      /\ flows # <<>> /\ sel' = sel /\ stored' = stored /\ selectedId' = selectedId /\ open' = open
      /\ failed' = failed
  BY DEF ResultsInv, Unraced, AnswerDeleteInsights, Kind
<1>2. f \in Flows /\ f.kind = "insights" /\ f.key = sel
  BY <1>1 DEF ResultsInv, AgentChosen, ResultsTypeOK, Flow, Flows, AgentKinds
<1>3. Change(flows, flows', gone, new)
  BY <1>1, <1>2, InsightsFollow DEF AnswerDeleteInsights
<1>4. /\ \A g \in new : g.kind = "insights" /\ g.key = sel
      /\ \E g \in new : g.kind \in {"insights", "deleteInsights"}
      /\ \A k \in gone : Kind(k) = "deleteInsights"
  BY <1>1, <1>2
<1> HIDE DEF f, new, gone
<1>5. SameAgent'
  BY <1>1, <1>3, <1>4, SameAgentKept
<1>6. OneSelection'
  BY <1>1, <1>3, <1>4, OneSelectionKept
<1>7. OpenInv'
  <2>1. (\A g \in new : g.kind # "select") /\ (\A k \in gone : Kind(k) # "select")
    BY <1>4
  <2>2. selectedId' = selectedId /\ open' = open /\ ("select" \in failed => "select" \in failed')
    BY <1>1
  <2>3. ResultsTypeOK /\ OpenInv
    BY <1>1
  <2> QED
    BY <1>3, <2>1, <2>2, <2>3, OpenKept
<1>8. UnderWay({"insights", "deleteInsights"})' /\ (UnderWay({"list"}) => UnderWay({"list"})')
  BY <1>1, <1>3, <1>4, UnderWayAfter
<1>9. LoadedInv'
  <2>1. ListOf(sel, list) => ListOf(sel, list)'
    <3>1. outdated \subseteq outdated'
      <4> DEFINE own == Owned(flows[i].key)
      <4>1. ClearCache(flows[i].key, outdated, outdated \cup own)
        BY DEF AnswerDeleteInsights
      <4> HIDE DEF own
      <4>2. outdated' = outdated \/ outdated' = outdated \cup own
        BY <4>1 DEF ClearCache
      <4> QED
        BY <4>2
    <3> QED
      BY <1>1, <3>1 DEF ListOf, Owned, AnswerDeleteInsights
  <2> QED
    BY <1>1, <1>8, <2>1 DEF LoadedInv, Owned, AnswerDeleteInsights
<1> QED
  BY <1>5, <1>6, <1>7, <1>9 DEF Unraced

LEMMA AnswerAskedHonest ==
  ASSUME ResultsInv, ~raced, NEW i \in DOMAIN flows, AnswerReview(i) \/ AnswerReport(i)
  PROVE  Unraced'
<1>1. /\ LoadedInv /\ Kind(i) \in {"review", "report"} /\ Ends(i) /\ sel' = sel /\ stored' = stored
      /\ selectedId' = selectedId /\ open' = open /\ failed' = failed
  BY DEF ResultsInv, Unraced, AnswerReview, AnswerReport, Kind
<1>2. /\ SameAgent' /\ OneSelection' /\ flows[i].key = sel
      /\ UnderWay({"list"}) => UnderWay({"list"})'
      /\ UnderWay(LoadsInsights) => UnderWay(LoadsInsights)'
  BY <1>1, EndsHonest DEF AgentKinds, LoadsInsights
<1>3. OpenInv'
  BY <1>1, EndsOpen
<1>4. CASE AnswerReview(i)
  <2>1. PICK got \in SUBSET Convs :
          Read("review", sel, Samples(stored \cap Owned(sel)), got) /\ review' = got
    BY <1>2, <1>4 DEF AnswerReview
  <2>2. sel \in Agents /\ stored \subseteq Convs /\ CacheTyped /\ CacheInv
    <3>1. flows # <<>>
      OBVIOUS
    <3> QED
      BY <3>1 DEF ResultsInv, ResultsTypeOK, AgentChosen, CacheTyped
  <2>3. review' \subseteq Owned(sel)
    BY <1>4, <2>1, <2>2, ReviewRead DEF AnswerReview
  <2> QED BY <2>3, <1>1, <1>2, <1>3, <1>4, SameData
     DEF Unraced, LoadedInv, LoadsInsights, cacheVars, AnswerReview
<1>5. CASE AnswerReport(i)
  BY <1>1, <1>2, <1>3, <1>5, SameData
     DEF Unraced, LoadedInv, LoadsInsights, cacheVars, AnswerReport
<1> QED
  BY <1>4, <1>5

\* A load that fails says so, or closes what it was to fill.
LEMMA NotReadyHonest ==
  ASSUME ResultsInv, ~raced, NEW i \in DOMAIN flows, NotReady(i)
  PROVE  Unraced'
<1>1. /\ OpenInv /\ LoadedInv /\ Kind(i) \in {"list", "insights", "select"} /\ Ends(i)
      /\ sel' = sel /\ stored' = stored /\ selectedId' = selectedId
  BY DEF ResultsInv, Unraced, NotReady, Kind
<1>2. /\ SameAgent' /\ OneSelection'
      /\ Kind(i) = "select" => ~UnderWay({"select"})'
      /\ Kind(i) # "list" /\ UnderWay({"list"}) => UnderWay({"list"})'
      /\ Kind(i) \notin LoadsInsights /\ UnderWay(LoadsInsights) => UnderWay(LoadsInsights)'
  BY <1>1, EndsHonest
<1>3. OpenInv'
  <2>1. CASE Kind(i) = "select"
    <3>1. open' = Closed
      BY <2>1 DEF NotReady, Kind
    <3> QED
      BY <1>2, <2>1, <3>1, NothingOpens, ClosedFacts
  <2>2. CASE Kind(i) # "select"
    <3>1. open' = open /\ ("select" \in failed => "select" \in failed')
      BY <2>2 DEF NotReady, Kind
    <3> QED
      BY <1>1, <2>2, <3>1, EndsOpen
  <2> QED
    BY <2>1, <2>2
<1>4. LoadedInv'
  <2>1. /\ list' = list /\ review' = review /\ gaps' = gaps /\ strayed' = strayed
        /\ Kind(i) = "list" => "list" \in failed'
        /\ "list" \in failed => "list" \in failed'
        /\ Kind(i) = "insights" => "insights" \in failed'
        /\ "insights" \in failed => "insights" \in failed'
        /\ Kind(i) # "insights" => insights' = insights
        /\ UNCHANGED <<stored, analysed, outdated, sel>>
        /\ Kind(i) # "deleteInsights"
    BY <1>1 DEF NotReady, Kind, cacheVars
  <2> QED
    BY <1>1, <1>2, <2>1, SameData DEF LoadedInv, LoadsInsights
<1> QED
  BY <1>2, <1>3, <1>4 DEF Unraced

LEMMA LoadFailsHonest ==
  ASSUME ResultsInv, ~raced, NEW i \in DOMAIN flows, LoadFails(i)
  PROVE  Unraced'
<1>1. /\ OpenInv /\ LoadedInv /\ Kind(i) \in {"list", "insights", "select"} /\ Ends(i)
      /\ sel' = sel /\ stored' = stored /\ selectedId' = selectedId /\ open' = open
      /\ failed' = failed \cup {Kind(i)}
  BY DEF ResultsInv, Unraced, LoadFails, Kind
<1>2. /\ SameAgent' /\ OneSelection'
      /\ Kind(i) = "select" => ~UnderWay({"select"})'
      /\ Kind(i) # "list" /\ UnderWay({"list"}) => UnderWay({"list"})'
      /\ Kind(i) \notin LoadsInsights /\ UnderWay(LoadsInsights) => UnderWay(LoadsInsights)'
  BY <1>1, EndsHonest
<1>3. OpenInv'
  <2>1. CASE Kind(i) = "select"
    BY <1>1, <1>2, <2>1, NothingOpens DEF OpenInv
  <2>2. CASE Kind(i) # "select"
    BY <1>1, <2>2, EndsOpen
  <2> QED
    BY <2>1, <2>2
<1>4. LoadedInv'
  <2>1. /\ review' = review /\ gaps' = gaps /\ strayed' = strayed /\ insights' = insights
        /\ Kind(i) # "list" => list' = list
        /\ UNCHANGED <<stored, analysed, outdated, sel>>
    BY <1>1 DEF LoadFails, Kind, cacheVars
  <2> QED
    BY <1>1, <1>2, <2>1, SameData DEF LoadedInv, LoadsInsights
<1> QED
  BY <1>2, <1>3, <1>4 DEF Unraced

LEMMA ActionFailsHonest ==
  ASSUME ResultsInv, ~raced, NEW i \in DOMAIN flows, ActionFails(i)
  PROVE  Unraced'
<1>1. /\ LoadedInv /\ Kind(i) \notin {"list", "insights", "select"} /\ Ends(i)
      /\ sel' = sel /\ stored' = stored /\ selectedId' = selectedId /\ open' = open
      /\ \A e \in failed : e \in failed'
      /\ Kind(i) = "deleteInsights" => "insights" \in failed'
  BY DEF ResultsInv, Unraced, ActionFails, Kind
<1>2. /\ SameAgent' /\ OneSelection'
      /\ UnderWay({"list"}) => UnderWay({"list"})'
      /\ Kind(i) \notin LoadsInsights /\ UnderWay(LoadsInsights) => UnderWay(LoadsInsights)'
  BY <1>1, EndsHonest
<1>3. OpenInv'
  BY <1>1, EndsOpen
<1>4. LoadedInv'
  <2>1. /\ review' = review /\ gaps' = gaps /\ strayed' = strayed /\ insights' = insights /\ list' = list
        /\ UNCHANGED <<stored, analysed, outdated, sel>>
    BY <1>1 DEF ActionFails, cacheVars
  <2> QED
    BY <1>1, <1>2, <2>1, SameData DEF LoadedInv, LoadsInsights
<1> QED
  BY <1>2, <1>3, <1>4 DEF Unraced

LEMMA AnswerHonest ==
  ASSUME ResultsInv, ~raced, NEW i \in DOMAIN flows, Answer(i)
  PROVE  Unraced'
<1>1. ASSUME AnswerSelect(i)
      PROVE  Unraced'
  BY <1>1, LastAnswerHonest, EarlierAnswerHonest
<1> QED
  BY <1>1, AnswerListHonest, AnswerInsightsHonest, AnswerDeleteOneHonest, AnswerDeleteAllHonest,
     AnswerDeleteInsightsHonest, AnswerAskedHonest, NotReadyHonest, LoadFailsHonest,
     ActionFailsHonest DEF Answer
-------------------------------------------------------------------------------
(* The cache, whatever races *)

LEMMA UserCache ==
  ASSUME CacheInv, User
  PROVE  CacheInv'
<1>1. UNCHANGED <<stored, analysed, cacheVars>>
  BY DEF User, SelectAgent, Refresh, SelectConversation, DeleteSelectedConversation, DeleteAllAgentData,
         DeleteInsightsOnly, LoadReviewSample, Report, Press, cacheVars
<1> QED
  BY <1>1, CacheStays

\* A deletion takes nothing from what the cache may have.
LEMMA AnswerCache ==
  ASSUME ResultsTypeOK, CacheInv, NEW i \in DOMAIN flows, Answer(i)
  PROVE  CacheInv'
<1>1. flows[i].kind \in AgentKinds => flows[i].key \in Agents
  BY DEF ResultsTypeOK, ConvKinds, AgentKinds
<1>2. CacheTyped /\ stored \subseteq Convs
  BY DEF ResultsTypeOK, CacheTyped
<1>3. CASE AnswerList(i)
  <2>1. PICK got \in SUBSET Convs : Read("list", flows[i].key, {stored \cap Owned(flows[i].key)}, got)
    BY <1>3 DEF AnswerList
  <2> QED
    BY <1>1, <1>2, <1>3, <2>1, ListRead DEF AnswerList, AgentKinds
<1>4. CASE AnswerInsights(i)
  <2>1. PICK got \in SUBSET Convs : Read("insights", flows[i].key, {Analysed(flows[i].key)}, got)
    BY <1>4 DEF AnswerInsights
  <2> QED
    BY <1>1, <1>2, <1>4, <2>1, InsightsRead DEF AnswerInsights, AgentKinds
<1>5. CASE AnswerReview(i)
  <2>1. PICK got \in SUBSET Convs :
          Read("review", flows[i].key, Samples(stored \cap Owned(flows[i].key)), got)
    BY <1>5 DEF AnswerReview
  <2> QED
    BY <1>1, <1>2, <1>5, <2>1, ReviewRead DEF AnswerReview, AgentKinds
<1>6. CASE AnswerDeleteOne(i)
  <2>1. stored' = stored \ {flows[i].key} /\ outdated' = outdated \cup {flows[i].key}
        /\ analysed' = analysed /\ cache' = cache
    BY <1>6 DEF AnswerDeleteOne
  <2>2. ASSUME NEW a \in Agents, NEW shown
        PROVE  /\ ListOf(a, shown) => ListOf(a, shown)'
               /\ InsightsOf(a, shown) => InsightsOf(a, shown)'
    BY <2>1 DEF ListOf, InsightsOf, Analysed, Owned
  <2> QED
    BY <2>1, <2>2 DEF CacheInv, Owned
<1>7. CASE AnswerDeleteAll(i)
  <2> DEFINE a == flows[i].key
             own == Owned(a)
  <2>1. a \in Agents
    BY <1>1, <1>7 DEF AnswerDeleteAll, AgentKinds
  <2>2. /\ stored' = stored \ own /\ analysed' = analysed \ {a}
        /\ ClearCache(a, outdated \ own, outdated \cup own)
    BY <1>7 DEF AnswerDeleteAll
  <2>3. \A b \in Agents \ {a} : Owned(b) \cap own = {}
    BY DEF Owned
  <2> HIDE DEF a, own
  <2>4. /\ \A k \in CacheKinds, b \in Agents :
             cache'[k][b] = cache[k][b] \/ (b = a /\ cache'[k][b] = None)
        /\ \/ outdated' = outdated \cup own
           \/ outdated' = outdated \ own /\ \A k \in CacheKinds : cache'[k][a] = None
    BY <1>2, <2>1, <2>2, ClearFacts
  <2>5. ASSUME NEW b \in Agents, NEW shown, b # a \/ outdated' = outdated \cup own
        PROVE  /\ ListOf(b, shown) => ListOf(b, shown)'
               /\ InsightsOf(b, shown) => InsightsOf(b, shown)'
    <3>1. CASE b = a
      BY <2>2, <2>5, <3>1 DEF ListOf, InsightsOf, Analysed, Owned, own
    <3>2. CASE b # a
      BY <2>2, <2>3, <2>4, <3>2 DEF ListOf, InsightsOf, Analysed, Owned
    <3> QED
      BY <3>1, <3>2
  <2>6. \A k \in CacheKinds, b \in Agents :
          cache'[k][b] # None => cache'[k][b] = cache[k][b] /\ (b # a \/ outdated' = outdated \cup own)
    BY <2>4
  <2> QED
    BY <2>5, <2>6 DEF CacheInv, CacheKinds, Owned
<1>8. CASE AnswerDeleteInsights(i)
  <2> DEFINE a == flows[i].key
             own == Owned(a)
  <2>1. a \in Agents
    BY <1>1, <1>8 DEF AnswerDeleteInsights, AgentKinds
  <2>2. /\ stored' = stored /\ analysed' = analysed \ {a}
        /\ ClearCache(a, outdated, outdated \cup own)
    BY <1>8 DEF AnswerDeleteInsights
  <2> HIDE DEF a, own
  <2>3. /\ \A k \in CacheKinds, b \in Agents :
             cache'[k][b] = cache[k][b] \/ (b = a /\ cache'[k][b] = None)
        /\ \/ outdated' = outdated \cup own
           \/ outdated' = outdated /\ \A k \in CacheKinds : cache'[k][a] = None
    BY <1>2, <2>1, <2>2, ClearFacts
  <2>4. ASSUME NEW b \in Agents, NEW shown, b # a \/ outdated' = outdated \cup own
        PROVE  /\ ListOf(b, shown) => ListOf(b, shown)'
               /\ InsightsOf(b, shown) => InsightsOf(b, shown)'
    <3>1. CASE b = a
      BY <2>2, <2>4, <3>1 DEF ListOf, InsightsOf, Analysed, Owned, own
    <3>2. CASE b # a
      BY <2>2, <2>3, <3>2 DEF ListOf, InsightsOf, Analysed, Owned
    <3> QED
      BY <3>1, <3>2
  <2>5. \A k \in CacheKinds, b \in Agents :
          cache'[k][b] # None => cache'[k][b] = cache[k][b] /\ (b # a \/ outdated' = outdated \cup own)
    BY <2>3
  <2> QED
    BY <2>4, <2>5 DEF CacheInv, CacheKinds, Owned
<1>9. CASE AnswerSelect(i) \/ AnswerReport(i) \/ NotReady(i) \/ LoadFails(i) \/ ActionFails(i)
  <2>1. UNCHANGED <<stored, analysed, cacheVars>>
    BY <1>9 DEF AnswerSelect, AnswerReport, NotReady, LoadFails, ActionFails, cacheVars
  <2> QED
    BY <2>1, CacheStays
<1> QED
  BY <1>3, <1>4, <1>5, <1>6, <1>7, <1>8, <1>9 DEF Answer
-------------------------------------------------------------------------------
(* Theorems *)

LEMMA InitHonest ==
  ASSUME ResultsInit
  PROVE  ResultsInv
<1>1. analysed \subseteq Agents
  <2>1. \A c \in Convs : AgentOf[c] \in Agents
    BY ResultsAssumption DEF Agents
  <2> QED
    BY <2>1 DEF ResultsInit
<1>4. CacheTyped /\ CacheInv /\ outdated \subseteq Convs
  <2>1. PICK visited \in BOOLEAN :
          cache = [kind \in CacheKinds |-> [a \in Agents |->
                    IF visited /\ kind # "review" THEN (stored \cup outdated) \cap Owned(a) ELSE None]]
    BY DEF ResultsInit
  <2>2. stored \subseteq Convs /\ outdated \subseteq Convs /\ analysed = {AgentOf[c] : c \in stored}
    BY DEF ResultsInit
  <2>3. \A kind \in CacheKinds, a \in Agents :
          cache[kind][a] # None => kind # "review" /\ cache[kind][a] = (stored \cup outdated) \cap Owned(a)
    BY <2>1
  <2>4. \A a \in Agents : Analysed(a) = stored \cap Owned(a)
    BY <2>2 DEF Analysed, Owned
  <2>5. CacheTyped
    BY <2>1, <2>2 DEF CacheTyped, Owned
  <2> QED
    BY <2>2, <2>3, <2>4, <2>5 DEF CacheInv, CacheKinds, ListOf, InsightsOf
<1>2. CASE sel = None
  <2>1. flows = <<>> /\ DOMAIN flows = {} /\ flows \in Seq(Flows)
    BY <1>2 DEF ResultsInit
  <2>2. ResultsTypeOK
    BY <1>1, <1>4, <2>1, ClosedTyped DEF ResultsInit, ResultsTypeOK, CacheTyped
  <2>3. SameAgent /\ OneSelection /\ OpenInv
    BY <2>1, ClosedFacts DEF ResultsInit, SameAgent, OneSelection, OpenInv, OpenIsSelected
  <2> QED
    BY <1>2, <1>4, <2>1, <2>2, <2>3 DEF ResultsInv, AgentChosen, Unraced, LoadedInv
<1>3. CASE sel # None
  <2> DEFINE f == Flow("list", sel, FALSE)
             g == Flow("insights", sel, FALSE)
  <2>1. flows = <<f, g>> /\ sel \in Agents
    BY <1>3 DEF ResultsInit
  <2>2. /\ f \in Flows /\ f.kind = "list" /\ f.key = sel
        /\ g \in Flows /\ g.kind = "insights" /\ g.key = sel
    BY <2>1 DEF Flow, Flows, AgentKinds
  <2> HIDE DEF f, g
  <2>3. flows \in Seq(Flows) /\ DOMAIN flows = {1, 2} /\ flows[1] = f /\ flows[2] = g
    BY <2>1, <2>2
  <2>4. \A i \in DOMAIN flows : flows[i].kind \in {"list", "insights"} /\ flows[i].key = sel
    BY <2>2, <2>3
  <2>5. UnderWay({"list"}) /\ UnderWay({"insights", "deleteInsights"}) /\ ~UnderWay({"select"})
    BY <2>2, <2>3 DEF UnderWay
  <2>6. ResultsTypeOK
    BY <1>1, <1>4, <2>1, <2>3, <2>4, ClosedTyped DEF ResultsInit, ResultsTypeOK, CacheTyped, ConvKinds
  <2>7. SameAgent /\ OneSelection /\ OpenInv
    BY <2>4, ClosedFacts DEF ResultsInit, SameAgent, OneSelection, OpenInv, OpenIsSelected, Kind
  <2>8. LoadedInv
    BY <2>5 DEF ResultsInit, LoadedInv
  <2> QED
    BY <1>3, <1>4, <2>6, <2>7, <2>8 DEF ResultsInv, AgentChosen, Unraced
<1> QED
  BY <1>2, <1>3

LEMMA InvariantHonest ==
  ASSUME ResultsInv
  PROVE  ResultsHonest
<1>1. ASSUME ~raced
      PROVE  OpenIsSelected /\ ShowsStored
  <2>1. OpenInv /\ LoadedInv
    BY <1>1 DEF ResultsInv, Unraced
  <2>2. ShowsStored
    BY <2>1, EmptyFacts DEF LoadedInv, ShowsStored, InsightsLoaded
  <2> QED
    BY <2>1, <2>2 DEF OpenInv
<1> QED
  BY <1>1 DEF ResultsInv, ResultsHonest

\* The inductive invariant: types, and what holds of a visit without races.
THEOREM ResultsInvariant == ResultsSpec => []ResultsInv
<1>1. ResultsInit => ResultsInv
  BY InitHonest
<1>2. ResultsInv /\ [ResultsNext]_pageVars => ResultsInv'
  <2>1. ASSUME ResultsInv, User
        PROVE  ResultsInv'
    BY <2>1, UserTypes, UserCache, UserHonest DEF ResultsInv
  <2>2. ASSUME ResultsInv, NEW i \in DOMAIN flows, Answer(i)
        PROVE  ResultsInv'
    <3>1. raced' = raced
      BY <2>2 DEF Answer, AnswerList, AnswerInsights, AnswerSelect, AnswerDeleteOne, AnswerDeleteAll,
         AnswerDeleteInsights, AnswerReview, AnswerReport, NotReady, LoadFails, ActionFails
    <3> QED
      BY <2>2, <3>1, AnswerTypes, AnswerCache, AnswerHonest DEF ResultsInv
  <2>3. ASSUME ResultsInv, UNCHANGED pageVars
        PROVE  ResultsInv'
    <3>1. ResultsTypeOK' /\ AgentChosen'
      BY <2>3 DEF pageVars, ResultsInv, ResultsTypeOK, AgentChosen
    <3>6. CacheInv'
      BY <2>3, CacheStays DEF pageVars, cacheVars, ResultsInv
    <3>2. SameAgent' <=> SameAgent
      BY <2>3 DEF pageVars, SameAgent, Kind
    <3>3. OneSelection' <=> OneSelection
      BY <2>3 DEF pageVars, OneSelection, Kind, Owned
    <3>4. OpenInv' <=> OpenInv
      BY <2>3 DEF pageVars, OpenInv, OpenIsSelected, UnderWay, Kind
    <3>5. LoadedInv' <=> LoadedInv
      BY <2>3 DEF pageVars, LoadedInv, InsightsLoaded, ListOf, InsightsOf, Analysed, UnderWay, Owned
    <3> QED
      BY <2>3, <3>1, <3>2, <3>3, <3>4, <3>5, <3>6 DEF pageVars, ResultsInv, Unraced
  <2> QED
    BY <2>1, <2>2, <2>3 DEF ResultsNext
<1> QED
  BY <1>1, <1>2, PTL DEF ResultsSpec

\* Unless loads have raced, the page shows the selected agent as it is stored,
\* and one conversation, the selected one, in all its parts.
THEOREM ResultsAlwaysHonest == ResultsSpec => []ResultsHonest
BY ResultsInvariant, InvariantHonest, PTL

===============================================================================
