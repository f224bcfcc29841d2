------------------------------ MODULE MCLiveness ------------------------------
(***************************************************************************)
(* Small instances of two components with fairness that share no state,    *)
(* checked in one run.  A behaviour casts the processes of one of them; the *)
(* other has nothing to do, so that its fairness asks for nothing.         *)
(***************************************************************************)
EXTENDS CacheWarming, WeeklyRun

(* Two keys; two children, a child and a pipeline, a pipeline and a reader,  *)
(* a child and a reader.                                                     *)
MCKeyOrder == <<"overview", "list">>
MCCasts == {{}, {"t1", "t2"}, {"t1", "p1"}, {"p1", "r1"}, {"t1", "r1"}}

(* One agent; the loop's run, and a run by hand without a lock.             *)
MCCrews == {{}, {"s", "o"}}
MCNameOf == [a \in Agents |-> "x"]

\* The theorems about WeeklyRun hold of this instance.
ASSUME WeeklyAssumption == WeeklyConstants
-------------------------------------------------------------------------------
LiveInit ==
  /\ CacheInit /\ WeeklyInit
  /\ (cast = {}) # (crew = {})

LiveNext ==
  \/ cast # {} /\ CacheNext /\ UNCHANGED weeklyVars
  \/ crew # {} /\ WeeklyNext /\ UNCHANGED cacheVars

LiveSpec == LiveInit /\ [][LiveNext]_<<cacheVars, weeklyVars>> /\ CacheFairness /\ WeeklyFairness
===============================================================================
