--------------------------- MODULE MCTopQuestions ---------------------------
(***************************************************************************)
(* Two passes over two conversations that ask the same.                    *)
(***************************************************************************)
EXTENDS TopQuestions

MCKey == [t \in {"a"} |-> t]
=============================================================================
