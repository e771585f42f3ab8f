--------------------------- MODULE MCExecSession ---------------------------
(* ExecSession with small bounds; the configuration gives them.            *)
EXTENDS ExecSession
=============================================================================
