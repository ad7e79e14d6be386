---------------------------- MODULE RequestStatus ----------------------------
(***************************************************************************)
(* What a business request promises to those who watch it, with everything *)
(* that implements it left out: its status moves along STATUS_TRANSITIONS, *)
(* or to "failed" while it is not terminal, and it gets an owner           *)
(* department once, while it is being routed.                              *)
(***************************************************************************)
EXTENDS RequestStatuses

CONSTANTS Departments, None
VARIABLES status, owner

Init == status = "absent" /\ owner = None

Create == status = "absent" /\ status' = "created" /\ UNCHANGED owner

Move == status' \in Allowed(status) /\ UNCHANGED owner

Fail == /\ status \notin Terminal \cup {"absent"}
        /\ status' = "failed"
        /\ UNCHANGED owner

Route == /\ status = "routing" /\ owner = None
         /\ owner' \in Departments
         /\ UNCHANGED status

Next == Create \/ Move \/ Fail \/ Route

Spec == Init /\ [][Next]_<<status, owner>>
=============================================================================
