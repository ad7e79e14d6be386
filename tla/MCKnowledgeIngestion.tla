------------------------- MODULE MCKnowledgeIngestion -------------------------
(* Model checking of KnowledgeIngestion. *)
EXTENDS KnowledgeIngestion

CONSTANTS short, long

\* One file fits one batch, the other needs two.
MCChunks == [f \in Files |-> IF f = short THEN 1 ELSE 2]
===============================================================================
