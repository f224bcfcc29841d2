------------------------------ MODULE MCOverlaps ------------------------------
(***************************************************************************)
(* Small instances of IngestSync and WeeklyRun, which share no state,      *)
(* checked in one run: each behaviour chooses a part, and only that        *)
(* component moves.  Weekly runs: the loop's run alone, with one of the    *)
(* API, by hand, or without a lock.  Two agents whose names fall on one    *)
(* name in the bundle.                                                     *)
(***************************************************************************)
EXTENDS MCIngestSync, WeeklyRun

VARIABLE part

MCCrews == {{"s"}, {"l", "s"}, {"s", "h"}, {"s", "o"}}
MCNameOf == [a \in Agents |-> "x"]

\* The theorems about WeeklyRun hold of this instance.
ASSUME WeeklyAssumption == WeeklyConstants

\* Of the initial states of the part that does not move, one stands for all.
OverlapInit ==
  /\ Init /\ WeeklyInit
  /\ part \in {"sync", "week"}
  /\ part = "sync" => crew = {"s"}
  /\ part = "week" => lastActive = [c \in Convs |-> 0]

\* Bound: two weekly runs together have one agent, one run alone has both.
TwoRunsOneAgent == crew # {"s"} => \A p \in WeekRuns : queue'[p] \subseteq {"a"}

\* The syncs never stop; a week does.
OverlapNext ==
  /\ part' = part
  /\ \/ part = "sync" /\ Next /\ UNCHANGED weeklyVars
     \/ part = "week" /\ WeeklyNext /\ TwoRunsOneAgent /\ UNCHANGED vars
     \/ part = "week" /\ UNCHANGED <<vars, weeklyVars>>

OverlapSpec == OverlapInit /\ [][OverlapNext]_<<part, vars, weeklyVars>>
===============================================================================
