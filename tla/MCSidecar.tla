----------------------------- MODULE MCSidecar -----------------------------
(* Small instances of the sidecar supervisor for TLC.                      *)
EXTENDS Sidecar, TLC

(* Process identifiers are interchangeable (used in safety runs only).     *)
BackendSymmetry == Permutations(Backend)
=============================================================================
