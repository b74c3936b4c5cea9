-------------------------------- MODULE MCWire --------------------------------
(* An instance for TLC of what the servers read and write byte by byte,    *)
(* field by field and line by line.  The three have no state in common: a  *)
(* behaviour goes through one of them while the others rest.               *)
EXTENDS Framing, Negotiation, Pem

Init == FramingInit /\ NegotiationInit /\ PemInit

FramingRests == stage = "idle" /\ UNCHANGED framingVars
RequestRests == list = <<>> /\ UNCHANGED requestVars
FileRests    == lines = <<>> /\ UNCHANGED pemVars

Next ==
  \/ RequestRests /\ FileRests /\ FramingNext
  \/ FramingRests /\ FileRests /\ NextField
  \/ FramingRests /\ RequestRests /\ NextLine

Spec == Init /\ [][Next]_<<framingVars, requestVars, pemVars>>

(* The two types, and connect streams on both sides of every boundary      *)
(* between the lengths of a varint.                                        *)
Types == {WT_BIDI_STREAM_TYPE, WT_UNI_STREAM_TYPE}
Connects == {Small(60), Small(64),
             <<0, 0, 0, 0, 0, 0, 63, 252>>, <<0, 0, 0, 0, 0, 0, 64, 0>>,
             <<0, 0, 0, 0, 63, 255, 255, 252>>, <<0, 0, 0, 0, 64, 0, 0, 0>>,
             <<63, 255, 255, 255, 255, 255, 255, 252>>}
Texts == {<<>>, <<7>>, <<64, 84, 200>>}
===============================================================================
