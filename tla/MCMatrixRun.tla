----------------------------- MODULE MCMatrixRun -----------------------------
(* Instances of MatrixRun for TLC. *)
EXTENDS MatrixRun
=============================================================================
