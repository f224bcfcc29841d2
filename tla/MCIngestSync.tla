----------------------------- MODULE MCIngestSync -----------------------------
(***************************************************************************)
(* Instances of IngestSync for TLC: the runs are model values.             *)
(***************************************************************************)
EXTENDS IngestSync

CONSTANTS r1, r2

\* The sweep on its own.  Bound: of the faults, a run breaks off while it lists.
SweepNext ==
  \/ Tick
  \/ \E c \in Convs : Activity(c)
  \/ \E r \in Runs : Start(r) \/ Step(r) \/ (pc[r] = "listing" /\ Abort(r))

SweepSpec == Init /\ [][SweepNext]_vars /\ \A r \in Runs : WF_vars(Step(r))
===============================================================================
