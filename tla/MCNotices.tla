------------------------------- MODULE MCNotices -------------------------------
(* Notices and the stream of one user for TLC.                               *)
EXTENDS Notices
=============================================================================
