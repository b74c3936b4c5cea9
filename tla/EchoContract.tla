----------------------------- MODULE EchoContract -----------------------------
(***************************************************************************)
(* What an echo server promises a client on each WebTransport stream of a  *)
(* connection: the bytes come back in order, without a gap, and the echo   *)
(* is ended only when all of the client's ended stream has come back.      *)
(*                                                                         *)
(* The echo never looks at a byte, so a byte is its stream and its         *)
(* position there: <<s, i>> is the i-th byte the client writes on s.       *)
(***************************************************************************)
EXTENDS Integers, Sequences

CONSTANTS
  Streams,    \* the client's streams
  MaxBytes    \* bound: MaxBytes[s] is what the client writes on s at most

VARIABLES
  sent,       \* sent[s]: how many bytes the client has written on s
  ended,      \* ended[s]: the client has ended s
  echo,       \* echo[s]: the payload bytes that came back for s
  answered    \* answered[s]: the echo of s has been ended

vars == <<sent, ended, echo, answered>>

Payload(s, n) == [i \in 1 .. n |-> <<s, i>>]

TypeOK ==
  /\ sent \in [Streams -> Nat] /\ \A s \in Streams : sent[s] <= MaxBytes[s]
  /\ ended \in [Streams -> BOOLEAN]
  /\ echo \in [Streams -> Seq(Streams \X Nat)]
  /\ answered \in [Streams -> BOOLEAN]

-----------------------------------------------------------------------------
Init ==
  /\ sent = [s \in Streams |-> 0]
  /\ ended = [s \in Streams |-> FALSE]
  /\ echo = [s \in Streams |-> <<>>]
  /\ answered = [s \in Streams |-> FALSE]

Write(s) ==
  /\ ~ended[s]
  /\ sent[s] < MaxBytes[s]
  /\ sent' = [sent EXCEPT ![s] = @ + 1]
  /\ UNCHANGED <<ended, echo, answered>>

End(s) ==
  /\ ~ended[s]
  /\ ended' = [ended EXCEPT ![s] = TRUE]
  /\ UNCHANGED <<sent, echo, answered>>

(* More of the payload comes back, and possibly the end of the stream. *)
Answer(s) ==
  /\ ~answered[s]
  /\ \E n \in Len(echo[s]) .. sent[s] :
        /\ echo' = [echo EXCEPT ![s] = Payload(s, n)]
        /\ \E fin \in {FALSE, ended[s] /\ n = sent[s]} :
              answered' = [answered EXCEPT ![s] = fin]
  /\ UNCHANGED <<sent, ended>>

Next == \E s \in Streams : Write(s) \/ End(s) \/ Answer(s)

Spec == Init /\ [][Next]_vars

-----------------------------------------------------------------------------
(* What has come back is the beginning of what was written. *)
EchoIsPrefix ==
  \A s \in Streams : /\ Len(echo[s]) <= sent[s]
                     /\ echo[s] = Payload(s, Len(echo[s]))

(* An ended echo is the whole of an ended stream. *)
EndedEchoIsWhole ==
  \A s \in Streams : answered[s] => ended[s] /\ echo[s] = Payload(s, sent[s])
===============================================================================
