---------------------------- MODULE MCRealtimePods ----------------------------
(* Small instances of the pods hook for TLC.                               *)
EXTENDS RealtimePods
=============================================================================
