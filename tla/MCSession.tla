------------------------------ MODULE MCSession ------------------------------
(* Two requests, in two tabs that may share a login, and three pairs of tokens. *)
EXTENDS Session, TLC

Symmetry == Permutations(Tabs) \cup Permutations(Reqs)
=============================================================================
