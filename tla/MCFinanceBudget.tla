--------------------------- MODULE MCFinanceBudget ---------------------------
(* Instances of FinanceBudget for TLC.                                     *)
EXTENDS FinanceBudget, TLC

Symmetric == Permutations(Sessions) \cup Permutations(References) \cup Permutations(Budgets)
NotAsked == {"not_requested"}
=============================================================================
