----------------------------- MODULE MCQuicheEcho -----------------------------
(* Instances of QuicheEcho for TLC. *)
EXTENDS QuicheEcho

(* Two bytes on stream 14, none (but its end) on 18, one on the others. *)
MixedBytes == [s \in Streams |-> CASE s = 14 -> 2 [] s = 18 -> 0 [] OTHER -> 1]
TwoBytes == [s \in Streams |-> 2]
===============================================================================
