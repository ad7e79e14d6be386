------------------------------- MODULE MCDesk -------------------------------
(* A company, one manager, the employee who asked and a second employee,   *)
(* two departments, one human action and a handful of pages.               *)
EXTENDS Desk, TLC

Symmetric == Permutations(Departments)

=============================================================================
