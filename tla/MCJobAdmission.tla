---------------------------- MODULE MCJobAdmission ----------------------------
(***************************************************************************)
(* Instances of JobAdmission for TLC.                                      *)
(***************************************************************************)
EXTENDS JobAdmission, TLC

CONSTANTS j1, j2, j3, j4, a1, a2

MCKindOrder == <<"ingest", "insights">>

\* Four callers.  j1 and j2 compete for the one ingest slot of agent a1; with j3
\* of the same kind and j4 of the other one, all four compete for the total.
MCJobs == {j1, j2, j3, j4}
MCKindOf == [j \in MCJobs |-> IF j = j4 THEN "insights" ELSE "ingest"]
MCAgentOf == [j \in MCJobs |-> IF j \in {j1, j2} THEN a1 ELSE a2]
MCMaxKind == [k \in {"ingest", "insights"} |-> IF k = "ingest" THEN 2 ELSE 1]
MCMaxPerAgent == [k \in {"ingest", "insights"} |-> 1]

\* Three callers of two kinds and agents; the limit of one ingest row binds.
SmallJobs == {j1, j2, j3}
SmallKindOf == [j \in SmallJobs |-> IF j = j3 THEN "insights" ELSE "ingest"]
SmallAgentOf == [j \in SmallJobs |-> IF j = j1 THEN a1 ELSE a2]
SmallMaxKind == [k \in {"ingest", "insights"} |-> 1]
===============================================================================
