--------------------------- MODULE RequestStatuses ---------------------------
(* The statuses of a business request and the moves the code allows between *)
(* them (requests/enums.py, requests/service.py).                           *)

Statuses == {"created", "routing", "processing", "waiting_for_department",
             "waiting_for_human_approval", "waiting_for_human_action",
             "under_review", "completed", "rejected", "cancelled", "failed"}

Terminal == {"completed", "rejected", "cancelled", "failed"}

Waiting == {"waiting_for_department", "waiting_for_human_approval",
            "waiting_for_human_action"}

\* STATUS_TRANSITIONS: what transition_status and cancel may do.  "failed" is
\* reached through FailureService only.
Allowed(st) ==
  CASE st = "created"      -> {"routing", "cancelled"}
    [] st = "routing"      -> {"processing", "cancelled"}
    [] st = "processing"   -> Waiting \cup {"under_review", "completed", "cancelled"}
    [] st \in Waiting      -> {"processing", "cancelled"}
    [] st = "under_review" -> {"processing", "rejected", "cancelled"}
    [] OTHER               -> {}

\* The owner check constraint of business_requests.
NeedsOwner(st) == st \notin {"created", "routing", "cancelled", "failed"}
=============================================================================
