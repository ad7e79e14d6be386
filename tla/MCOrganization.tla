---------------------------- MODULE MCOrganization ----------------------------
(* Model checking of Organization and Registers. *)
EXTENDS Registers, TLC

CONSTANTS s1, s2, e1, e2, e3, e4, d1, d2, x1, j1, k1, k2, k3

\* A manager and a member of one department.
MCFounders == (e1 :> [Employee("active", d1, Nil, "hire") EXCEPT !.role = "department_manager"])
              @@ (e2 :> Employee("active", d1, Nil, "hire"))

\* Two new people, one of whom the other names as manager.
MCFile == (e3 :> [dept |-> d1, manager |-> Nil]) @@ (e4 :> [dept |-> d2, manager |-> e3])

\* k2 is k1 in other letters, k3 is k1 with blanks around it.
MCFold == (k1 :> k1) @@ (k2 :> k1) @@ (k3 :> k1)
MCHolds == (d1 :> {"supplier", "software"}) @@ (d2 :> {"holiday", "balance"})

Symmetric == Permutations(Sessions)
===============================================================================
