------------------------------ MODULE EchoClient ------------------------------
(***************************************************************************)
(* A WebTransport client of an echo server, as far as the server can tell: *)
(* the requests it makes and the streams it opens, writes, ends and resets *)
(* on one QUIC connection.  The echo servers extend this module; none of   *)
(* it is code of the repository, it is what the servers have to cope with. *)
(*                                                                         *)
(* A byte is its stream and its position there, as in EchoContract; the    *)
(* WebTransport preface of a server stream, which names its session q, is  *)
(* the unit <<q, 0>>.  Stream numbers are the real QUIC stream IDs.        *)
(***************************************************************************)
EXTENDS Integers, Sequences

CONSTANTS
  Requests,     \* IDs of the client's request streams
  BidiStreams,  \* IDs of its WebTransport bidirectional streams
  UniStreams,   \* IDs of its WebTransport unidirectional streams
  MaxBytes,     \* bound: MaxBytes[s] is what the client writes on s at most
  Eager         \* the streams it opens before their session is accepted

ASSUME ClientAssumption ==
  /\ \A n \in Requests \cup BidiStreams : n \in Nat /\ n % 4 = 0
  /\ \A n \in UniStreams : n \in Nat /\ n % 4 = 2
  /\ Requests \cap BidiStreams = {}
  /\ MaxBytes \in [BidiStreams \cup UniStreams -> Nat]
  /\ Eager \subseteq BidiStreams \cup UniStreams

Streams == BidiStreams \cup UniStreams

(* The IDs 3, 7 and 11 are the server's control and QPACK streams. *)
FirstServerUniStream == 15

None == 0 - 1   \* no session, or no server stream, yet

(* A session below /wt, a health check, and anything else. *)
Kinds == {"webtransport", "health", "other"}

VARIABLES
  asked,        \* asked[q]: what it requested on q, "" before it does
  status,       \* status[q]: the response it got, "" before it does
  session,      \* session[s]: the session it opened s in, None before
  sent,         \* sent[s]: how many bytes it has written on s
  ended,        \* ended[s]: it has ended s
  reset,        \* reset[s]: it has reset s
  cancelled     \* request streams it has abandoned

clientVars == <<asked, status, session, sent, ended, reset, cancelled>>

Chunk(s, from, to) == [i \in 1 .. to - from |-> <<s, from + i>>]
Payload(s, n) == Chunk(s, 0, n)
Preface(q) == <<<<q, 0>>>>
Unit == (Requests \X {0}) \cup UNION {{s} \X (1 .. MaxBytes[s]) : s \in Streams}

ClientTypeOK ==
  /\ asked \in [Requests -> Kinds \cup {""}]
  /\ status \in [Requests -> {"", "200", "404"}]
  /\ session \in [Streams -> Requests \cup {None}]
  /\ sent \in [Streams -> Nat] /\ \A s \in Streams : sent[s] <= MaxBytes[s]
  /\ ended \in [Streams -> BOOLEAN]
  /\ reset \in [Streams -> BOOLEAN]
  /\ cancelled \subseteq Requests

ClientInit ==
  /\ asked = [q \in Requests |-> ""]
  /\ status = [q \in Requests |-> ""]
  /\ session = [s \in Streams |-> None]
  /\ sent = [s \in Streams |-> 0]
  /\ ended = [s \in Streams |-> FALSE]
  /\ reset = [s \in Streams |-> FALSE]
  /\ cancelled = {}

Request(q, kind) ==
  /\ asked[q] = ""
  /\ asked' = [asked EXCEPT ![q] = kind]
  /\ UNCHANGED <<status, session, sent, ended, reset, cancelled>>

Cancel(q) ==
  /\ asked[q] # "" /\ q \notin cancelled
  /\ cancelled' = cancelled \cup {q}
  /\ UNCHANGED <<asked, status, session, sent, ended, reset>>

Open(s, q) ==
  /\ session[s] = None
  /\ asked[q] \in {"webtransport", "other"} /\ q \notin cancelled
  /\ status[q] = "200" \/ s \in Eager
  /\ session' = [session EXCEPT ![s] = q]
  /\ UNCHANGED <<asked, status, sent, ended, reset, cancelled>>

Usable(s) == session[s] # None /\ ~ended[s] /\ ~reset[s]

Write(s) ==
  /\ Usable(s) /\ sent[s] < MaxBytes[s]
  /\ sent' = [sent EXCEPT ![s] = @ + 1]
  /\ UNCHANGED <<asked, status, session, ended, reset, cancelled>>

End(s) ==
  /\ Usable(s)
  /\ ended' = [ended EXCEPT ![s] = TRUE]
  /\ UNCHANGED <<asked, status, session, sent, reset, cancelled>>

Reset(s) ==
  /\ Usable(s)
  /\ reset' = [reset EXCEPT ![s] = TRUE]
  /\ UNCHANGED <<asked, status, session, sent, ended, cancelled>>

ClientStep ==
  \/ \E q \in Requests : (\E kind \in Kinds : Request(q, kind)) \/ Cancel(q)
  \/ \E s \in Streams : \/ \E q \in Requests : Open(s, q)
                        \/ Write(s) \/ End(s) \/ Reset(s)
===============================================================================
