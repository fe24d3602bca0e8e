--------------------------- MODULE MCCaptureGate ---------------------------
(* Small instances of CaptureGate. *)
EXTENDS CaptureGate, TLC

CONSTANTS x1, x2, x3, r1, r2, r3

GateSymmetry == Permutations(Press) \cup Permutations(Run)
=============================================================================
