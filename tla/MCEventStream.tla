---------------------------- MODULE MCEventStream ----------------------------
(* EventStream for TLC: a reader who may not see every event, or three      *)
(* readers for two connections.                                             *)
EXTENDS EventStream, TLC

CONSTANTS c1, c2, c3

OneReader == c1 :> {1, 2, 5, 6}
ThreeReaders == (c1 :> {1, 2, 5, 6}) @@ (c2 :> {}) @@ (c3 :> {})
=============================================================================
