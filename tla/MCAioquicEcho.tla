----------------------------- MODULE MCAioquicEcho -----------------------------
(* Instances of AioquicEcho for TLC. *)
EXTENDS AioquicEcho

TwoBytes == [s \in Streams |-> 2]
===============================================================================
