------------------------- MODULE MCRequestLifecycle -------------------------
(* Instances of RequestLifecycle for TLC.                                  *)
EXTENDS RequestLifecycle, TLC

Symmetric == Permutations(Sessions)
NoTargets == {}
SomeTargets == {"processing", "completed"}
AllTargets == Statuses \ {"created", "cancelled", "failed"}
NoFaults == {}
DbFaults == {"db"}
AllFaults == {"db", "llm", "crash"}
=============================================================================
