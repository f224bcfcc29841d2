----------------------------- MODULE MCJobControl -----------------------------
(***************************************************************************)
(* Small instances of two components about what operators do, which share  *)
(* no state, checked in one run: each behaviour chooses a part, and only   *)
(* that component moves.                                                   *)
(***************************************************************************)
EXTENDS JobControl, ResultsPage

CONSTANTS w1, w2, c1, c2, c3, a1, a2

VARIABLE part

\* The scheduler's process creates ingest jobs, the one of the API creates jobs
\* of both covered kinds.
MCCreates == [w \in Workers |-> IF w \in Scheduled THEN {"ingest"} ELSE Kinds]

\* Two agents, one with two conversations.  Both are there, or one was deleted
\* while the cache had the list.
MCAgentOf == [c \in {c1, c2, c3} |-> IF c = c3 THEN a2 ELSE a1]
-------------------------------------------------------------------------------
PartsInit ==
  /\ part \in {"control", "results"}
  /\ ControlInit /\ ResultsInit
  /\ stored \in {{c1, c2, c3}, {c1, c3}}
  /\ part = "control" => sel = None /\ stored = {c1, c3}
  /\ outdated = IF part = "results" /\ stored = {c1, c3} THEN {c2} ELSE {}
  /\ outdated # {} => sel = a1
  /\ cache["list"][a1] = IF outdated = {} THEN None ELSE {c1, c2}

PartsNext ==
  /\ part' = part
  /\ \/ part = "control" /\ ControlNext /\ UNCHANGED pageVars
     \/ part = "results" /\ ResultsNext /\ UNCHANGED controlVars

PartsSpec == PartsInit /\ [][PartsNext]_<<part, controlVars, pageVars>>
===============================================================================
