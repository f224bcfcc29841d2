------------------------------ MODULE JobLedger ------------------------------
(***************************************************************************)
(* What a reader of the job tables may count on, whoever cancels, stops or *)
(* purges meanwhile: a row is created "running" under an unused id, it is  *)
(* given a verdict, the verdict may be revised, and the row may be         *)
(* deleted.  A row never goes back to "running", and a deleted row does    *)
(* not come back without being created.                                    *)
(***************************************************************************)
CONSTANTS Tables, Ids

VARIABLE table   \* table[k][i] : the status of row i of table k, or "absent"

Verdicts == {"complete", "failed", "cancelled"}

LedgerInit == table = [k \in Tables |-> [i \in Ids |-> "absent"]]

Insert(k, i) ==
  /\ table[k][i] = "absent"
  /\ table' = [table EXCEPT ![k][i] = "running"]

\* One commit can give a verdict to several rows of several tables.
Judge ==
  /\ table' \in [Tables -> [Ids -> Verdicts \cup {"running", "absent"}]]
  /\ \A k \in Tables, i \in Ids :
       table'[k][i] # table[k][i] => table[k][i] # "absent" /\ table'[k][i] \in Verdicts

Delete ==
  /\ table' \in [Tables -> [Ids -> Verdicts \cup {"running", "absent"}]]
  /\ \A k \in Tables, i \in Ids : table'[k][i] \in {table[k][i], "absent"}

LedgerNext ==
  \/ \E k \in Tables, i \in Ids : Insert(k, i)
  \/ Judge
  \/ Delete

LedgerSpec == LedgerInit /\ [][LedgerNext]_table
===============================================================================
