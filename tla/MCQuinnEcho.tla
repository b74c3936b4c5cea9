------------------------------ MODULE MCQuinnEcho ------------------------------
(* Instances of QuinnEcho for TLC. *)
EXTENDS QuinnEcho

TwoBytes == [s \in Streams |-> 2]
===============================================================================
