---------------------------- MODULE MCPipelineRun -----------------------------
(***************************************************************************)
(* Instances of PipelineRun for TLC: agents, processes and conversations   *)
(* are model values.                                                       *)
(***************************************************************************)
EXTENDS PipelineRun

CONSTANTS a1, p1, p2, c1, c2

OneAgent == [x \in Runs \cup Convs |-> a1]
\* p1 is started by the crontab.
CrontabAndApi == [r \in Runs |-> IF r = p1 THEN {"run"} ELSE CommandSet]
RunOnly == [r \in Runs |-> {"run"}]
OnePerBatch == [c \in Convs |-> IF c = c1 THEN 1 ELSE 2]
OneBatch == [c \in Convs |-> 1]
===============================================================================
