--------------------------- MODULE MCPortForward ---------------------------
(* Small instances of the port-forward handlers for TLC.                   *)
EXTENDS PortForward, TLC

(* Process identifiers are interchangeable (used in safety runs only).     *)
ChildSymmetry == Permutations(Child)
=============================================================================
