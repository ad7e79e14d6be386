------------------------------ MODULE MCHRLeave ------------------------------
(* HRLeave for TLC: two overlapping leaves of two colleagues, or two leaves *)
(* of one employee, whose cancels may overlap other handlers or not.        *)
EXTENDS HRLeave, TLC

CONSTANTS r1, r2, e1, e2

Colleagues ==
  [owner |-> (r1 :> e1) @@ (r2 :> e2), span |-> (r1 :> {1, 2}) @@ (r2 :> {2, 3}),
   allotments |-> {2}, standing |-> {}, periods |-> {{1, 2, 3}, {2, 3}}, overlap |-> FALSE]
SamePerson ==
  [owner |-> (r1 :> e1) @@ (r2 :> e1), span |-> (r1 :> {1}) @@ (r2 :> {2}),
   allotments |-> {1, 2}, standing |-> {{1, 2}}, periods |-> {}, overlap |-> FALSE]
OverlappingCancels == [SamePerson EXCEPT !.allotments = {2}, !.overlap = TRUE]
OneLeave ==
  [owner |-> r1 :> e1, span |-> r1 :> {1},
   allotments |-> {1}, standing |-> {}, periods |-> {{1}}, overlap |-> TRUE]
OneCase == {OneLeave}
EachCase == {Colleagues, SamePerson, OverlappingCancels}

Symmetric == Permutations(Sessions) \cup Permutations(Rules)
=============================================================================
