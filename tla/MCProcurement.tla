---------------------------- MODULE MCProcurement ----------------------------
(* Two quotations of one requirement, and two runs that overlap.  The first is *)
(* dearer and faster.  It may lose its delivery days: it can then be bought by  *)
(* one of the weightings only, and the second is better.                        *)
EXTENDS Procurement, TLC

Symmetry == Permutations(Runs)
Offer(unit, days) ==
  [unit |-> unit, extra |-> 1, days |-> days, quality |-> 90000, fit |-> TRUE, currency |-> "EUR"]
MCOffers == [c \in Candidates |-> {IF c = 1 THEN Offer(9, 1) ELSE Offer(8, 2)}]
MCEdits == [c \in Candidates |-> IF c = 1 THEN {<<"days", None>>} ELSE {<<"fit", FALSE>>}]
W(p, q, d, c) == [price |-> p, quality |-> q, delivery |-> d, compliance |-> c]
MCFirst == {W(300, 300, 200, 200)}
MCWeights == {W(300, 300, 200, 200), W(500, 0, 0, 500)}
=============================================================================
