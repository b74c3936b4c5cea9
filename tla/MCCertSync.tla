----------------------------- MODULE MCCertSync -----------------------------
(* Instances of CertSync for TLC. *)
EXTENDS CertSync
=============================================================================
