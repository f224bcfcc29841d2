------------------------------- MODULE SlotPool -------------------------------
(***************************************************************************)
(* What job admission promises (the settings max_concurrent_* of           *)
(* app/config.py and the docstring of admit_and_create): the job rows with *)
(* status "running" form a pool of slots.  A row enters the pool in one    *)
(* atomic step, and only if the pool still fits every limit afterwards;    *)
(* rows leave it at any time.                                              *)
(***************************************************************************)
EXTENDS Integers, FiniteSets

CONSTANTS
  Jobs,         \* the job rows that can be created
  Kinds,        \* "ingest", "insights", "sentiment", "intent"
  Agents,
  KindOf,       \* KindOf[j] : the table the row of j lives in
  AgentOf,      \* AgentOf[j] : its agent_id
  MaxTotal,     \* settings.max_concurrent_jobs
  MaxKind,      \* settings.max_concurrent_<kind>
  MaxPerAgent   \* settings.max_concurrent_<kind>_per_agent

VARIABLE running

OfKind(S, k) == {x \in S : KindOf[x] = k}
OfAgent(S, a) == {x \in S : AgentOf[x] = a}

\* A set of running rows respects the global limit, the limit of each kind
\* and the limit of each kind per agent.
Fits(S) ==
  /\ Cardinality(S) <= MaxTotal
  /\ \A k \in Kinds : Cardinality(OfKind(S, k)) <= MaxKind[k]
  /\ \A k \in Kinds, a \in Agents :
       Cardinality(OfAgent(OfKind(S, k), a)) <= MaxPerAgent[k]

Init == running = {}

Admit(j) ==
  /\ j \notin running
  /\ Fits(running \cup {j})
  /\ running' = running \cup {j}

Vacate(S) ==
  /\ S \subseteq running
  /\ running' = running \ S

Next ==
  \/ \E j \in Jobs : Admit(j)
  \/ \E S \in SUBSET running : Vacate(S)

Spec == Init /\ [][Next]_running
===============================================================================
