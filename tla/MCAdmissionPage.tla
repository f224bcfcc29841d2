--------------------------- MODULE MCAdmissionPage ----------------------------
(***************************************************************************)
(* Small instances of JobAdmission and StatusPage, which share no state,   *)
(* checked in one run: each behaviour chooses a part, and only that        *)
(* component moves.  The other has nothing to do, so that its fairness     *)
(* asks for nothing: nobody calls, or no agent is selected.                *)
(***************************************************************************)
EXTENDS MCJobAdmission, StatusPage

CONSTANTS x, y, l1, l2

VARIABLE part

PartsInit ==
  /\ Init /\ PageInit
  /\ part \in {"admission", "page"}
  /\ part = "admission" => sel = None

\* Callers can always call again; the bounds of the page may stop it.
PartsNext ==
  /\ part' = part
  /\ \/ part = "admission" /\ Next /\ UNCHANGED pageVars
     \/ part = "page" /\ PageNext /\ UNCHANGED vars
     \/ part = "page" /\ UNCHANGED <<vars, pageVars>>

PartsSpec == PartsInit /\ [][PartsNext]_<<part, vars, pageVars>> /\ Fairness /\ PageFairness
===============================================================================
