--------------------------- MODULE MCPipelineParts ----------------------------
(***************************************************************************)
(* Two instances of PipelineRun in one run.  Each behaviour chooses one:   *)
(* two processes that overlap on one conversation, or all that one process *)
(* can go through with two conversations in two batches.                   *)
(***************************************************************************)
EXTENDS MCPipelineRun

VARIABLE part

\* Bounds: two processes have one conversation and two faults, one process has
\* both conversations and any fault.
OneConversation == faults' <= 2 /\ \A r \in Runs : entry'[r][c2] = "out"
OneProcess == pc'[p1] = "idle"

PartsInit == Init /\ part \in {"overlap", "stages"}

PartsNext ==
  /\ Next /\ part' = part
  /\ IF part = "overlap" THEN OneConversation ELSE OneProcess

\* The crontab is in both parts: it starts p1, and what p2 stands for alone it
\* starts again and again.
PartsFairness ==
  /\ \A r \in Runs : WF_vars(Step(r))
  /\ WF_vars(part = "overlap" /\ Launch(p1, "run"))
  /\ SF_vars(part = "stages" /\ Launch(p2, "run"))
  /\ \A a \in Agents : WF_vars(Expire(a))

PartsSpec == PartsInit /\ [][PartsNext]_<<part, vars>> /\ PartsFairness
===============================================================================
