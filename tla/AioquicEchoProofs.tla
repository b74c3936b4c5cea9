--------------------------- MODULE AioquicEchoProofs ---------------------------
(***************************************************************************)
(* Proofs about AioquicEcho, for all requests, streams, bytes and          *)
(* datagrams, and for streams that wait for their session or do not.       *)
(***************************************************************************)
EXTENDS AioquicEcho, SequenceTheorems, TLAPS

(* The client: only an open stream is written, ended or reset, and not     *)
(* both.                                                                   *)
ClientInv ==
  \A s \in Streams : /\ sent[s] > 0 \/ ended[s] \/ reset[s] => session[s] \in Requests
                     /\ ~(ended[s] /\ reset[s])

(* A request is answered when its headers have arrived; the accepted ones  *)
(* for a WebTransport session, and only they, are in _sessions.            *)
SessionsInv ==
  \A q \in Requests :
    /\ status[q] # "" <=> q \in announced
    /\ q \in announced => asked[q] # ""
    /\ q \in sessions <=> q \in announced /\ asked[q] = "webtransport"
    /\ status[q] = "404" <=> q \in announced /\ asked[q] = "other"

(* A stream that waits for its session is opened in an accepted one.       *)
OpenInv ==
  \A s \in Streams : session[s] \in Requests =>
    /\ asked[session[s]] \in {"webtransport", "other"}
    /\ s \notin Eager => session[s] \in sessions

(* The server's own streams have IDs of their own, below the next one.     *)
WireInv ==
  /\ nextUni % 4 = 3
  /\ \A n \in DOMAIN wire : n \in BidiStreams \/ (n % 4 = 3 /\ n < nextUni)

(* A piece of what has arrived on client uni stream u, behind the preface  *)
(* of its session; a bidirectional stream carries bytes of its own only.   *)
Piece(w, u) ==
  /\ session[u] \in sessions
  /\ \E a, b \in 0 .. told[u] : a <= b /\ w = Preface(session[u]) \o Chunk(u, a, b)
PiecesInv ==
  \A n \in DOMAIN wire :
    IF n \in BidiStreams
    THEN session[n] \in sessions /\ \A k \in DOMAIN wire[n] : wire[n][k][1] = n
    ELSE \E u \in UniStreams : Piece(wire[n], u)

(* UniBytesComeBackOnce without the prefaces.                              *)
Complete(s) ==
  /\ \A p \in early[s] + 1 .. told[s] :
       \E n \in ServerUniStreams : \E k \in PlacesOn(n, s) : wire[n][k][2] = p
  /\ \A n \in ServerUniStreams : \A k \in PlacesOn(n, s) :
       wire[n][k][2] \in early[s] + 1 .. told[s]
Ordered(s) ==
  \A n, m \in ServerUniStreams : \A i \in PlacesOn(n, s), j \in PlacesOn(m, s) :
    (n < m \/ (n = m /\ i < j)) => wire[n][i][2] < wire[m][j][2]
OnceInv == \A s \in UniStreams : session[s] \in sessions => Complete(s) /\ Ordered(s)

(* A bidirectional stream that waits for its session has been echoed as    *)
(* far as it has arrived, to its end behind its last byte only.            *)
BidiInv ==
  \A s \in Orderly :
    /\ OnWire(s) = Payload(s, told[s])
    /\ s \in finished => s \in over /\ ended[s] /\ told[s] = sent[s]

DatagramInv == \A d \in Datagrams : datagram[d].at = "down" => datagram[d].session \in sessions

IInv == /\ TypeOK /\ ClientInv /\ SessionsInv /\ OpenInv /\ WireInv /\ PiecesInv /\ OnceInv
        /\ BidiInv /\ DatagramInv

-----------------------------------------------------------------------------
(* The IDs of requests, of the client's streams and of the server's are    *)
(* different ones.                                                         *)
LEMMA Numbers ==
  /\ None \notin Nat /\ None \notin Requests
  /\ \A s \in Streams : s \in Nat /\ s # None
  /\ \A n \in BidiStreams \cup Requests : n \in Nat /\ n % 4 = 0
  /\ \A n \in UniStreams : n % 4 = 2
  /\ BidiStreams \cap UniStreams = {} /\ BidiStreams \cap Requests = {}
  /\ Streams = BidiStreams \cup UniStreams
BY ClientAssumption DEF None, Streams

LEMMA ChunkType ==
  ASSUME NEW s \in Streams, NEW a \in Nat, NEW b \in Nat, a <= b, b <= MaxBytes[s]
  PROVE  Chunk(s, a, b) \in Seq(Unit) /\ Len(Chunk(s, a, b)) = b - a
<1>1. MaxBytes[s] \in Nat
  BY ClientAssumption DEF Streams
<1>2. \A i \in 1 .. b - a : <<s, a + i>> \in Unit
  <2> SUFFICES ASSUME NEW i \in 1 .. b - a PROVE <<s, a + i>> \in Unit
    OBVIOUS
  <2>1. a + i \in 1 .. MaxBytes[s]
    BY <1>1
  <2>2. <<s, a + i>> \in {s} \X (1 .. MaxBytes[s])
    BY <2>1
  <2> QED
    BY <2>2 DEF Unit
<1>3. b - a \in Nat
  OBVIOUS
<1> QED
  BY <1>2, <1>3, IsASeq DEF Chunk

-----------------------------------------------------------------------------
(* What may change around a stream s: the client goes on, and the server   *)
(* does something on another stream.                                       *)
ClientFixed(s) ==
  /\ session[s] \in Requests => session'[s] = session[s]
  /\ ended[s] => ended'[s] /\ sent'[s] = sent[s]
  /\ reset[s] => reset'[s]
  /\ sent[s] <= sent'[s]

LEMMA ClientKeeps ==
  ASSUME ClientTypeOK, ClientInv, ClientStep
  PROVE  /\ ClientTypeOK' /\ ClientInv' /\ UNCHANGED status
         /\ \A s \in Streams : ClientFixed(s)
<1> DEFINE Fixed == \A s \in Streams : ClientFixed(s)
           Same == UNCHANGED status
<1>t. sent \in [Streams -> Nat]
  BY DEF ClientTypeOK
<1>0. ASSUME UNCHANGED <<session, sent>>,
             \A s \in Streams : (ended[s] => ended'[s]) /\ (reset[s] => reset'[s])
      PROVE  Fixed
  BY <1>t, <1>0 DEF ClientFixed
<1>1. ASSUME NEW q \in Requests, NEW kind \in Kinds, Request(q, kind)
      PROVE  ClientTypeOK' /\ ClientInv' /\ Same /\ Fixed
  <2>1. ClientTypeOK' /\ UNCHANGED <<status, session, sent, ended, reset>>
    BY <1>1 DEF Request, ClientTypeOK
  <2> QED
    BY <1>0, <2>1 DEF ClientInv
<1>2. ASSUME NEW q \in Requests, Cancel(q)
      PROVE  ClientTypeOK' /\ ClientInv' /\ Same /\ Fixed
  <2>1. ClientTypeOK' /\ UNCHANGED <<status, session, sent, ended, reset>>
    BY <1>2 DEF Cancel, ClientTypeOK
  <2> QED
    BY <1>0, <2>1 DEF ClientInv
<1>3. ASSUME NEW s \in Streams, NEW q \in Requests, Open(s, q)
      PROVE  ClientTypeOK' /\ ClientInv' /\ Same /\ Fixed
  <2>1. ClientTypeOK' /\ UNCHANGED <<status, sent, ended, reset>>
    BY <1>3 DEF Open, ClientTypeOK
  <2>2. ClientInv'
    BY <1>3, Numbers DEF Open, ClientInv, ClientTypeOK
  <2>3. \A u \in Streams : session[u] \in Requests => session'[u] = session[u]
    BY <1>3, Numbers DEF Open, ClientTypeOK
  <2>4. Fixed
    BY <1>t, <2>1, <2>3 DEF ClientFixed
  <2> QED
    BY <2>1, <2>2, <2>4
<1>4. ASSUME NEW s \in Streams, Write(s)
      PROVE  ClientTypeOK' /\ ClientInv' /\ Same /\ Fixed
  <2>1. MaxBytes[s] \in Nat
    BY ClientAssumption DEF Streams
  <2>2. \A u \in Streams : sent'[u] = IF u = s THEN sent[u] + 1 ELSE sent[u]
    BY <1>4, <1>t DEF Write
  <2>3. session[s] \in Requests /\ ~ended[s]
    BY <1>4, Numbers DEF Write, Usable, ClientTypeOK
  <2>4. Fixed
    <3>1. \A u \in Streams : sent[u] <= sent'[u]
      BY <1>t, <2>2
    <3>2. \A u \in Streams : ended[u] => sent'[u] = sent[u]
      BY <2>2, <2>3
    <3> QED
      BY <1>4, <3>1, <3>2 DEF Write, ClientFixed
  <2>5. ClientTypeOK'
    <3>1. sent' \in [Streams -> Nat]
      BY <1>4, <1>t DEF Write
    <3>2. \A u \in Streams : sent'[u] <= MaxBytes[u]
      <4> SUFFICES ASSUME NEW u \in Streams PROVE sent'[u] <= MaxBytes[u]
        OBVIOUS
      <4>1. MaxBytes[u] \in Nat
        BY ClientAssumption DEF Streams
      <4>2. sent[s] < MaxBytes[s]
        BY <1>4 DEF Write
      <4>3. sent[u] <= MaxBytes[u]
        BY DEF ClientTypeOK
      <4> QED
        BY <1>t, <2>1, <2>2, <4>1, <4>2, <4>3
    <3> QED
      BY <1>4, <3>1, <3>2 DEF Write, ClientTypeOK
  <2>6. ClientInv'
    BY <1>4, <2>2, <2>3 DEF Write, ClientInv
  <2>7. Same
    BY <1>4 DEF Write
  <2> QED
    BY <2>4, <2>5, <2>6, <2>7
<1>5. ASSUME NEW s \in Streams, End(s)
      PROVE  ClientTypeOK' /\ ClientInv' /\ Same /\ Fixed
  <2>1. ClientTypeOK' /\ UNCHANGED <<status, session, sent, reset>>
    BY <1>5 DEF End, ClientTypeOK
  <2>2. ClientInv'
    BY <1>5, Numbers DEF End, Usable, ClientInv, ClientTypeOK
  <2>3. \A u \in Streams : ended[u] => ended'[u]
    BY <1>5 DEF End, ClientTypeOK
  <2> QED
    BY <1>0, <2>1, <2>2, <2>3
<1>6. ASSUME NEW s \in Streams, Reset(s)
      PROVE  ClientTypeOK' /\ ClientInv' /\ Same /\ Fixed
  <2>1. ClientTypeOK' /\ UNCHANGED <<status, session, sent, ended>>
    BY <1>6 DEF Reset, ClientTypeOK
  <2>2. ClientInv'
    BY <1>6, Numbers DEF Reset, Usable, ClientInv, ClientTypeOK
  <2>3. \A u \in Streams : reset[u] => reset'[u]
    BY <1>6 DEF Reset, ClientTypeOK
  <2> QED
    BY <1>0, <2>1, <2>2, <2>3
<1> HIDE DEF Fixed, Same
<1>7. ClientTypeOK' /\ ClientInv' /\ Same /\ Fixed
  BY <1>1, <1>2, <1>3, <1>4, <1>5, <1>6, Zenon DEF ClientStep
<1> QED
  BY <1>7 DEF Fixed, Same

LEMMA Standing ==
  ASSUME ClientTypeOK, UNCHANGED clientVars
  PROVE  \A s \in Streams : ClientFixed(s)
<1>1. \A s \in Streams : sent[s] \in Nat
  BY DEF ClientTypeOK
<1>2. UNCHANGED <<session, sent, ended, reset>>
  BY DEF clientVars
<1> QED
  BY <1>1, <1>2 DEF ClientFixed

-----------------------------------------------------------------------------
(* What the units of a piece are. *)
Framed(w, q, u, a, b) ==
  /\ w \in Seq(Unit)
  /\ DOMAIN w = 1 .. 1 + (b - a)
  /\ w[1] = <<q, 0>>
  /\ \A k \in 2 .. 1 + (b - a) : w[k] = <<u, a + (k - 1)>>

LEMMA PieceUnits ==
  ASSUME NEW q \in Requests, NEW u \in Streams, NEW a \in Nat, NEW b \in Nat, a <= b,
         b <= MaxBytes[u]
  PROVE  Framed(Preface(q) \o Chunk(u, a, b), q, u, a, b)
<1>1. <<q, 0>> \in Unit
  BY DEF Unit
<1>2. Preface(q) \in Seq(Unit) /\ Len(Preface(q)) = 1 /\ Preface(q)[1] = <<q, 0>>
  BY <1>1 DEF Preface
<1>3. Chunk(u, a, b) \in Seq(Unit) /\ Len(Chunk(u, a, b)) = b - a
  BY ChunkType
<1>4. \A i \in 1 .. b - a : Chunk(u, a, b)[i] = <<u, a + i>>
  BY DEF Chunk
<1> DEFINE p == Preface(q)
           c == Chunk(u, a, b)
           w == p \o c
<1>5. /\ p \in Seq(Unit) /\ Len(p) = 1 /\ p[1] = <<q, 0>>
      /\ c \in Seq(Unit) /\ Len(c) = b - a
      /\ \A i \in 1 .. b - a : c[i] = <<u, a + i>>
  BY <1>2, <1>3, <1>4
<1> HIDE DEF p, c
<1>6a. w \in Seq(Unit) /\ Len(w) = 1 + (b - a)
  <2>1. w \in Seq(Unit)
    BY <1>5, ConcatProperties
  <2>2. Len(w) = Len(p) + Len(c)
    BY <1>5, ConcatProperties
  <2> HIDE DEF w
  <2> QED
    BY <2>1, <2>2, <1>5
<1>6b. \A k \in 1 .. Len(p) + Len(c) : w[k] = IF k <= Len(p) THEN p[k] ELSE c[k - Len(p)]
  BY <1>5, ConcatProperties
<1>6c. Len(p) = 1 /\ Len(c) = b - a /\ p[1] = <<q, 0>>
  BY <1>5
<1> HIDE DEF w
<1>6. \A k \in 1 .. 1 + (b - a) : w[k] = IF k <= 1 THEN p[k] ELSE c[k - 1]
  <2> SUFFICES ASSUME NEW k \in 1 .. 1 + (b - a)
               PROVE  w[k] = IF k <= 1 THEN p[k] ELSE c[k - 1]
    OBVIOUS
  <2>1. k \in 1 .. Len(p) + Len(c)
    BY <1>6c
  <2>2. w[k] = IF k <= Len(p) THEN p[k] ELSE c[k - Len(p)]
    BY <1>6b, <2>1
  <2> QED
    BY <2>2, <1>6c
<1>7. ASSUME NEW k \in 2 .. 1 + (b - a) PROVE w[k] = <<u, a + (k - 1)>>
  <2>1. k - 1 \in 1 .. b - a /\ k \in 1 .. 1 + (b - a) /\ ~(k <= 1)
    OBVIOUS
  <2> QED
    BY <2>1, <1>5, <1>6
<1>8. w[1] = <<q, 0>>
  <2>1. 1 \in 1 .. 1 + (b - a)
    OBVIOUS
  <2> QED
    BY <1>6c, <1>6, <2>1
<1>9. DOMAIN w = 1 .. 1 + (b - a)
  BY <1>6a
<1>10. Framed(w, q, u, a, b)
  BY <1>6a, <1>7, <1>8, <1>9 DEF Framed
<1> QED
  BY <1>10 DEF w, p, c

(* The types that a step on a stream needs.                                *)
LEMMA StreamTypes ==
  ASSUME TypeOK, NEW s \in Streams
  PROVE  /\ told[s] \in Nat /\ sent[s] \in Nat /\ MaxBytes[s] \in Nat
         /\ told[s] <= sent[s] /\ sent[s] <= MaxBytes[s]
         /\ session[s] \in Requests \cup {None}
BY ClientAssumption DEF TypeOK, ClientTypeOK, Streams

(* A piece is framed. *)
LEMMA PieceFramed ==
  ASSUME TypeOK, NEW u \in UniStreams, NEW w, Piece(w, u)
  PROVE  \E a, b \in 0 .. told[u] : a <= b /\ Framed(w, session[u], u, a, b)
<1>1. u \in Streams /\ session[u] \in Requests /\ told[u] \in Nat /\ told[u] <= MaxBytes[u]
      /\ MaxBytes[u] \in Nat
  BY StreamTypes, Numbers DEF Piece, TypeOK
<1>2. PICK a \in 0 .. told[u], b \in 0 .. told[u] :
        a <= b /\ w = Preface(session[u]) \o Chunk(u, a, b)
  BY DEF Piece
<1>3. a \in Nat /\ b \in Nat /\ b <= MaxBytes[u]
  BY <1>1
<1>4. Framed(w, session[u], u, a, b)
  BY <1>1, <1>2, <1>3, PieceUnits
<1> QED
  BY <1>2, <1>4

(* Where a framed piece holds bytes of a stream: nowhere if it is a piece  *)
(* of another one.                                                         *)
LEMMA FramedPlaces ==
  ASSUME NEW w, NEW q \in Requests, NEW u \in Streams, NEW a \in Nat, NEW b \in Nat, a <= b,
         Framed(w, q, u, a, b), NEW s \in Streams
  PROVE  {k \in DOMAIN w : w[k][1] = s} = IF s = u THEN 2 .. 1 + (b - a) ELSE {}
<1>1. s # q
  BY Numbers
<1>2. DOMAIN w = {1} \cup 2 .. 1 + (b - a)
  BY DEF Framed
<1>3. w[1][1] # s
  BY <1>1 DEF Framed
<1>4. \A k \in 2 .. 1 + (b - a) : w[k][1] = u
  BY DEF Framed
<1> QED
  BY <1>2, <1>3, <1>4

(* Nothing of a stream whose session was not accepted is on the wire.      *)
LEMMA Silent ==
  ASSUME IInv, NEW s \in Streams, session[s] \notin sessions, NEW n \in DOMAIN wire
  PROVE  PlacesOn(n, s) = {}
<1>1. CASE n \in BidiStreams
  <2>1. session[n] \in sessions /\ \A k \in DOMAIN wire[n] : wire[n][k][1] = n
    BY <1>1 DEF IInv, PiecesInv
  <2> QED
    BY <2>1 DEF PlacesOn
<1>2. CASE n \notin BidiStreams
  <2>1. PICK u \in UniStreams : Piece(wire[n], u)
    BY <1>2 DEF IInv, PiecesInv
  <2>2. u # s /\ u \in Streams /\ session[u] \in Requests /\ told[u] \in Nat
    BY <2>1, Numbers, StreamTypes DEF Piece, IInv, TypeOK
  <2>3. PICK a \in 0 .. told[u], b \in 0 .. told[u] :
          a <= b /\ Framed(wire[n], session[u], u, a, b)
    BY <2>1, PieceFramed DEF IInv
  <2>4. a \in Nat /\ b \in Nat
    BY <2>2
  <2>5. {k \in DOMAIN wire[n] : wire[n][k][1] = s} = {}
    BY <2>2, <2>3, <2>4, FramedPlaces
  <2> QED
    BY <2>5 DEF PlacesOn
<1> QED
  BY <1>1, <1>2

(* On a server uni stream the bytes of s have arrived and stand behind the *)
(* preface of its session.                                                 *)
LEMMA UniPlaces ==
  ASSUME IInv, NEW s \in UniStreams, NEW n \in ServerUniStreams
  PROVE  /\ PlacesOn(n, s) # {} => wire[n][1] = <<session[s], 0>>
         /\ \A k \in PlacesOn(n, s) : k \in Nat /\ wire[n][k][2] \in 1 .. told[s]
<1>1. n \in DOMAIN wire /\ n \notin BidiStreams
  BY DEF ServerUniStreams
<1>2. PICK u \in UniStreams : Piece(wire[n], u)
  BY <1>1 DEF IInv, PiecesInv
<1>3. s \in Streams /\ u \in Streams /\ session[u] \in Requests /\ told[u] \in Nat
  BY <1>2, Numbers, StreamTypes DEF Piece, IInv, TypeOK
<1>4. PICK a \in 0 .. told[u], b \in 0 .. told[u] :
        a <= b /\ Framed(wire[n], session[u], u, a, b)
  BY <1>2, PieceFramed DEF IInv
<1>5. a \in Nat /\ b \in Nat
  BY <1>3
<1>6. PlacesOn(n, s) = IF s = u THEN 2 .. 1 + (b - a) ELSE {}
  BY <1>3, <1>4, <1>5, FramedPlaces DEF PlacesOn
<1>7. CASE s = u
  <2> SUFFICES ASSUME NEW k \in PlacesOn(n, s) PROVE k \in Nat /\ wire[n][k][2] \in 1 .. told[s]
    BY <1>4, <1>7 DEF Framed
  <2>1. k \in 2 .. 1 + (b - a) /\ wire[n][k] = <<u, a + (k - 1)>>
    BY <1>4, <1>6, <1>7 DEF Framed
  <2>2. a + (k - 1) \in 1 .. told[u]
    BY <2>1, <1>3, <1>4, <1>5
  <2> QED
    BY <2>1, <2>2, <1>7
<1>8. CASE s # u
  BY <1>6, <1>8
<1> QED
  BY <1>7, <1>8

-----------------------------------------------------------------------------
(* What a step of the client does to its requests and to the sessions its  *)
(* streams name.                                                           *)
Opened(s) ==
  session'[s] # session[s] =>
    /\ session[s] = None /\ session'[s] \in Requests
    /\ asked[session'[s]] \in {"webtransport", "other"}
    /\ status[session'[s]] = "200" \/ s \in Eager

LEMMA ClientKnows ==
  ASSUME ClientTypeOK, ClientStep
  PROVE  /\ \A q \in Requests : asked[q] # "" => asked'[q] = asked[q]
         /\ \A s \in Streams : Opened(s)
<1>1. ASSUME NEW q \in Requests, NEW kind \in Kinds, Request(q, kind)
      PROVE  \A r \in Requests : asked[r] # "" => asked'[r] = asked[r]
  BY <1>1 DEF Request, ClientTypeOK
<1>2. ASSUME NEW s \in Streams, NEW q \in Requests, Open(s, q)
      PROVE  \A u \in Streams : Opened(u)
  BY <1>2 DEF Open, ClientTypeOK, Opened
<1>3. \A q \in Requests : asked[q] # "" => asked'[q] = asked[q]
  <2>1. ASSUME UNCHANGED asked
        PROVE  \A q \in Requests : asked[q] # "" => asked'[q] = asked[q]
    BY <2>1
  <2> QED
    BY <1>1, <2>1, Zenon DEF ClientStep, Cancel, Open, Write, End, Reset
<1>4. \A s \in Streams : Opened(s)
  <2>1. ASSUME UNCHANGED session
        PROVE  \A u \in Streams : Opened(u)
    BY <2>1 DEF Opened
  <2> QED
    BY <1>2, <2>1, Zenon DEF ClientStep, Request, Cancel, Write, End, Reset
<1> QED
  BY <1>3, <1>4

(* A stream that has not been opened has not been heard of.                *)
LEMMA Unopened ==
  ASSUME IInv, NEW s \in Streams, session[s] \notin Requests
  PROVE  told[s] = 0 /\ sent[s] = 0 /\ ~ended[s]
<1>1. told[s] \in Nat /\ sent[s] \in Nat /\ told[s] <= sent[s]
  BY StreamTypes DEF IInv
<1>2. ~(sent[s] > 0) /\ ~ended[s]
  BY DEF IInv, ClientInv
<1> QED
  BY <1>1, <1>2

(* While nothing arrives on a stream and nothing is sent, more streams may *)
(* be opened and more sessions accepted.                                   *)
Later ==
  /\ UNCHANGED <<told, wire>>
  /\ sessions \subseteq sessions'
  /\ \A s \in Streams : session[s] \in Requests => session'[s] = session[s]

(* What has arrived is recorded when the session is accepted.              *)
Recorded ==
  /\ early' \in [Streams -> Nat]
  /\ \A s \in Streams : session'[s] \in sessions' =>
       IF session[s] \in sessions THEN early'[s] = early[s] ELSE early'[s] = told[s]

LEMMA LaterPieces ==
  ASSUME IInv, Later
  PROVE  PiecesInv'
<1> SUFFICES ASSUME NEW n \in DOMAIN wire
             PROVE  IF n \in BidiStreams
                    THEN session'[n] \in sessions' /\ \A k \in DOMAIN wire[n] : wire[n][k][1] = n
                    ELSE \E u \in UniStreams : Piece(wire[n], u)'
  BY DEF Later, PiecesInv, Piece
<1>0. sessions \subseteq Requests
  BY DEF IInv, TypeOK
<1>1. CASE n \in BidiStreams
  <2>1. session[n] \in sessions /\ \A k \in DOMAIN wire[n] : wire[n][k][1] = n
    BY <1>1 DEF IInv, PiecesInv
  <2>2. session'[n] = session[n]
    BY <1>0, <1>1, <2>1, Numbers DEF Later
  <2> QED
    BY <1>1, <2>1, <2>2 DEF Later
<1>2. CASE n \notin BidiStreams
  <2>1. PICK u \in UniStreams : Piece(wire[n], u)
    BY <1>2 DEF IInv, PiecesInv
  <2>2. session'[u] = session[u]
    BY <1>0, <2>1, Numbers DEF Later, Piece
  <2>3. Piece(wire[n], u)'
    BY <2>1, <2>2 DEF Later, Piece
  <2> QED
    BY <1>2, <2>3
<1> QED
  BY <1>1, <1>2

LEMMA LaterOnce ==
  ASSUME IInv, Later, Recorded
  PROVE  OnceInv'
<1> SUFFICES ASSUME NEW s \in UniStreams, session'[s] \in sessions'
             PROVE  Complete(s)' /\ Ordered(s)'
  BY DEF OnceInv
<1>0. s \in Streams /\ sessions \subseteq Requests /\ told[s] \in Nat
  BY Numbers, StreamTypes DEF IInv, TypeOK
<1>1. CASE session[s] \in sessions
  <2>1. Complete(s) /\ Ordered(s)
    BY <1>1 DEF IInv, OnceInv
  <2>e. early'[s] = early[s]
    BY <1>0, <1>1 DEF Recorded
  <2>2. Complete(s)'
    BY <2>1, <2>e DEF Later, Complete, PlacesOn, ServerUniStreams
  <2>3. Ordered(s)'
    BY <2>1 DEF Later, Ordered, PlacesOn, ServerUniStreams
  <2> QED
    BY <2>2, <2>3
<1>2. CASE session[s] \notin sessions
  <2>1. \A n \in DOMAIN wire : PlacesOn(n, s) = {}
    BY <1>0, <1>2, Silent
  <2>2. \A n \in ServerUniStreams : PlacesOn(n, s) = {}
    BY <2>1 DEF ServerUniStreams
  <2>3. early'[s] = told[s]
    BY <1>0, <1>2 DEF Recorded
  <2>4. early'[s] + 1 .. told'[s] = {}
    BY <1>0, <2>3 DEF Later
  <2>5. Ordered(s)
    BY <2>2 DEF Ordered
  <2>6. Complete(s)'
    <3>1. \A n \in ServerUniStreams' : PlacesOn(n, s)' = {}
      BY <2>2 DEF Later, PlacesOn, ServerUniStreams
    <3> QED
      BY <2>4, <3>1 DEF Complete
  <2>7. Ordered(s)'
    BY <2>5 DEF Later, Ordered, PlacesOn, ServerUniStreams
  <2> QED
    BY <2>6, <2>7
<1> QED
  BY <1>1, <1>2
-----------------------------------------------------------------------------
(* The steps that neither bring bytes nor send any.                        *)
Quiet ==
  /\ UNCHANGED <<told, over, wire, finished, nextUni>>
  /\ \A s \in Streams : ClientFixed(s)

LEMMA QuietBidi ==
  ASSUME IInv, Quiet
  PROVE  BidiInv'
<1> SUFFICES ASSUME NEW s \in Orderly
             PROVE  /\ OnWire(s)' = Payload(s, told'[s])
                    /\ s \in finished' => s \in over' /\ ended'[s] /\ told'[s] = sent'[s]
  BY DEF BidiInv
<1>1. s \in Streams /\ ClientFixed(s)
  BY Numbers DEF Orderly, Quiet
<1>2. /\ OnWire(s) = Payload(s, told[s])
      /\ s \in finished => s \in over /\ ended[s] /\ told[s] = sent[s]
  BY DEF IInv, BidiInv
<1> QED
  BY <1>1, <1>2 DEF Quiet, OnWire, ClientFixed

LEMMA ClientInvariant ==
  ASSUME IInv, Client
  PROVE  IInv'
<1>0. TypeOK /\ ClientTypeOK /\ ClientInv /\ ClientStep
  BY DEF IInv, TypeOK, Client
<1>1. /\ ClientTypeOK' /\ ClientInv' /\ UNCHANGED status
      /\ \A s \in Streams : ClientFixed(s)
  BY <1>0, ClientKeeps
<1>2. /\ \A q \in Requests : asked[q] # "" => asked'[q] = asked[q]
      /\ \A s \in Streams : Opened(s)
  BY <1>0, ClientKnows
<1>3. UNCHANGED <<alive, announced, told, over, early, http, sessions, wire, finished, nextUni,
                  datagram>>
  BY DEF Client, netVars, serverVars, sendVars
<1>4. TypeOK'
  <2>1. \A s \in Streams : told[s] <= sent'[s]
    <3> SUFFICES ASSUME NEW s \in Streams PROVE told[s] <= sent'[s]
      OBVIOUS
    <3>1. told[s] \in Nat /\ sent[s] \in Nat /\ told[s] <= sent[s]
      BY <1>0, StreamTypes
    <3>2. sent[s] <= sent'[s] /\ sent'[s] \in Nat
      BY <1>1 DEF ClientFixed, ClientTypeOK
    <3> QED
      BY <3>1, <3>2
  <2> QED
    BY <1>0, <1>1, <1>3, <2>1 DEF TypeOK
<1>5. SessionsInv'
  BY <1>1, <1>2, <1>3 DEF IInv, SessionsInv
<1>6. OpenInv'
  <2> SUFFICES ASSUME NEW s \in Streams, session'[s] \in Requests
               PROVE  /\ asked'[session'[s]] \in {"webtransport", "other"}
                      /\ s \notin Eager => session'[s] \in sessions
    BY <1>3 DEF OpenInv
  <2>1. CASE session'[s] = session[s]
    BY <1>2, <2>1 DEF IInv, OpenInv
  <2>2. CASE session'[s] # session[s]
    <3>1. /\ asked[session'[s]] \in {"webtransport", "other"}
          /\ status[session'[s]] = "200" \/ s \in Eager
      BY <1>2, <2>2 DEF Opened
    <3>2. status[session'[s]] = "200" => session'[s] \in sessions
      BY <3>1 DEF IInv, SessionsInv
    <3> QED
      BY <1>2, <3>1, <3>2
  <2> QED
    BY <2>1, <2>2
<1>7. Later /\ Recorded
  <2>1. Later
    BY <1>1, <1>3 DEF Later, ClientFixed
  <2>2. early' \in [Streams -> Nat]
    BY <1>3 DEF IInv, TypeOK
  <2>3. ASSUME NEW s \in Streams, session[s] \notin sessions, session'[s] \in sessions
        PROVE  early'[s] = told[s]
    <3>1. session[s] = None
      BY <1>2, <2>3 DEF Opened
    <3>2. told[s] = 0
      BY <3>1, Numbers, Unopened
    <3>3. early[s] = 0
      BY <3>2 DEF IInv, TypeOK
    <3> QED
      BY <1>3, <3>2, <3>3
  <2> QED
    BY <1>3, <2>1, <2>2, <2>3 DEF Recorded
<1>8. WireInv' /\ DatagramInv'
  BY <1>3 DEF IInv, WireInv, DatagramInv
<1>9. PiecesInv' /\ OnceInv'
  BY <1>7, LaterPieces, LaterOnce
<1>10. BidiInv'
  BY <1>1, <1>3, QuietBidi DEF Quiet
<1> QED
  BY <1>1, <1>4, <1>5, <1>6, <1>8, <1>9, <1>10 DEF IInv

(* The server's steps leave the client as it is.                           *)
LEMMA ClientStands ==
  ASSUME IInv, UNCHANGED <<session, sent, ended, reset>>
  PROVE  ClientInv' /\ \A s \in Streams : ClientFixed(s)
<1>1. \A s \in Streams : sent[s] \in Nat
  BY DEF IInv, TypeOK, ClientTypeOK
<1> QED
  BY <1>1 DEF IInv, ClientInv, ClientFixed

LEMMA HandleHeadersInvariant ==
  ASSUME IInv, NEW q \in Requests, HandleHeaders(q)
  PROVE  IInv'
<1>1. UNCHANGED <<asked, session, sent, ended, reset, cancelled, alive, http, told, over,
                  wire, finished, nextUni, datagram>>
  BY DEF HandleHeaders, sendVars
<1>2. ClientInv' /\ \A s \in Streams : ClientFixed(s)
  BY <1>1, ClientStands
<1>e. /\ early' \in [Streams -> Nat]
      /\ \A s \in Streams : early'[s] = IF session[s] = q THEN told[s] ELSE early[s]
  <2>1. early' = [s \in Streams |-> IF session[s] = q THEN told[s] ELSE early[s]]
    BY DEF HandleHeaders, ArrivedIn
  <2>2. \A s \in Streams : told[s] \in Nat /\ early[s] \in Nat
    BY DEF IInv, TypeOK
  <2> QED
    BY <2>1, <2>2
<1>3. TypeOK'
  <2>1. \A s \in Streams : early'[s] <= told[s]
    <3>1. \A s \in Streams : told[s] \in Nat /\ early[s] \in Nat /\ early[s] <= told[s]
      BY DEF IInv, TypeOK
    <3> QED
      BY <1>e, <3>1
  <2> QED
    BY <1>1, <1>e, <2>1 DEF IInv, HandleHeaders, TypeOK, ClientTypeOK
<1>4. sessions \subseteq sessions'
  BY DEF HandleHeaders
<1>5. SessionsInv'
  <2>1. asked[q] \in Kinds
    BY DEF IInv, TypeOK, ClientTypeOK, HandleHeaders
  <2>2. \A r \in Requests :
          status'[r] = IF r = q THEN IF asked[q] = "other" THEN "404" ELSE "200" ELSE status[r]
    BY DEF IInv, TypeOK, ClientTypeOK, HandleHeaders
  <2> SUFFICES ASSUME NEW r \in Requests
               PROVE  /\ status'[r] # "" <=> r \in announced'
                      /\ r \in announced' => asked[r] # ""
                      /\ r \in sessions' <=> r \in announced' /\ asked[r] = "webtransport"
                      /\ status'[r] = "404" <=> r \in announced' /\ asked[r] = "other"
    BY <1>1 DEF SessionsInv
  <2>3. CASE r = q
    <3>1. q \in announced' /\ asked[q] # "" /\ q \notin announced
      BY DEF HandleHeaders
    <3>2. q \notin sessions
      BY <3>1 DEF IInv, SessionsInv
    <3>3. q \in sessions' <=> asked[q] = "webtransport"
      BY <3>2 DEF HandleHeaders
    <3>4. status'[q] = IF asked[q] = "other" THEN "404" ELSE "200"
      BY <2>2
    <3> QED
      BY <2>3, <3>1, <3>3, <3>4
  <2>4. CASE r # q
    BY <2>2, <2>4 DEF HandleHeaders, IInv, SessionsInv
  <2> QED
    BY <2>3, <2>4
<1>6. OpenInv' /\ WireInv' /\ DatagramInv'
  BY <1>1, <1>4 DEF IInv, OpenInv, WireInv, DatagramInv
<1>7. PiecesInv' /\ OnceInv'
  <2>1. Recorded
    <3>1. q \notin sessions
      BY DEF HandleHeaders, IInv, SessionsInv
    <3>2. \A s \in Streams : session'[s] \in sessions' => session[s] \in sessions \/ session[s] = q
      BY <1>1 DEF HandleHeaders
    <3> QED
      BY <1>e, <3>1, <3>2 DEF Recorded
  <2>2. Later
    BY <1>1, <1>4 DEF Later
  <2> QED
    BY <2>1, <2>2, LaterPieces, LaterOnce
<1>8. BidiInv'
  BY <1>1, <1>2, QuietBidi DEF Quiet
<1> QED
  BY <1>2, <1>3, <1>5, <1>6, <1>7, <1>8 DEF IInv

(* What remains as it is when neither the client nor the streams move.     *)
LEMMA OthersInvariant ==
  ASSUME IInv, TypeOK', DatagramInv',
         UNCHANGED <<asked, status, session, sent, ended, reset, announced, told, early,
                     sessions, wire, finished, nextUni>>,
         over \subseteq over'
  PROVE  IInv'
<1>1. ClientInv' /\ SessionsInv' /\ OpenInv' /\ WireInv'
  BY DEF IInv, ClientInv, SessionsInv, OpenInv, WireInv
<1>2. PiecesInv' /\ OnceInv'
  <2>1. Recorded
    BY DEF IInv, TypeOK, Recorded
  <2> QED
    BY <2>1, LaterPieces, LaterOnce DEF Later
<1>3. BidiInv'
  BY DEF IInv, BidiInv, OnWire
<1> QED
  BY <1>1, <1>2, <1>3 DEF IInv

LEMMA NegotiateInvariant ==
  ASSUME IInv, Negotiate \/ Terminate
  PROVE  IInv'
<1>1. UNCHANGED <<clientVars, announced, told, over, early, sessions, wire, finished, nextUni,
                  datagram>>
  BY DEF Negotiate, Terminate, netVars, serverVars, sendVars
<1>2. TypeOK'
  BY <1>1 DEF IInv, Negotiate, Terminate, serverVars, TypeOK, ClientTypeOK, clientVars
<1>3. DatagramInv'
  BY <1>1 DEF IInv, DatagramInv
<1> QED
  BY <1>1, <1>2, <1>3, OthersInvariant DEF clientVars

LEMMA DatagramInvariant ==
  ASSUME IInv, NEW d \in Datagrams,
         HandleDatagram(d) \/ \E q \in Requests : SendDatagram(d, q)
  PROVE  IInv'
<1>1. UNCHANGED <<clientVars, alive, announced, told, over, early, http, sessions, wire, finished,
                  nextUni>>
  BY DEF HandleDatagram, SendDatagram, netVars, serverVars, sendVars
<1> DEFINE Places == [at : {"client", "up", "down", "dropped"}, session : Requests \cup {None}]
<1>2. datagram \in [Datagrams -> Places]
  BY DEF IInv, TypeOK
<1>3. CASE HandleDatagram(d)
  <2>1. datagram[d] \in Places
    BY <1>2
  <2> DEFINE there == IF datagram[d].session \in sessions
                      THEN [datagram[d] EXCEPT !.at = "down"] ELSE Dropped
  <2>2. there \in Places /\ (there.at = "down" => there.session \in sessions)
    BY <2>1 DEF Dropped
  <2>3. datagram' = [datagram EXCEPT ![d] = there]
    BY <1>3 DEF HandleDatagram
  <2> HIDE DEF there, Places
  <2>4. datagram' \in [Datagrams -> Places]
    BY <1>2, <2>2, <2>3
  <2>5. DatagramInv'
    BY <1>1, <1>2, <2>2, <2>3 DEF IInv, DatagramInv
  <2>6. TypeOK'
    BY <1>1, <2>4 DEF IInv, TypeOK, ClientTypeOK, clientVars, Places
  <2> QED
    BY <1>1, <2>5, <2>6, OthersInvariant DEF clientVars
<1>4. ASSUME NEW q \in Requests, SendDatagram(d, q) PROVE IInv'
  <2> DEFINE there == [at |-> "up", session |-> q]
  <2>2. there \in Places /\ there.at # "down"
    OBVIOUS
  <2>3. datagram' = [datagram EXCEPT ![d] = there]
    BY <1>4 DEF SendDatagram
  <2> HIDE DEF there, Places
  <2>4. datagram' \in [Datagrams -> Places]
    BY <1>2, <2>2, <2>3
  <2>5. DatagramInv'
    BY <1>1, <1>2, <2>2, <2>3 DEF IInv, DatagramInv
  <2>6. TypeOK'
    BY <1>1, <2>4 DEF IInv, TypeOK, ClientTypeOK, clientVars, Places
  <2> QED
    BY <1>1, <2>5, <2>6, OthersInvariant DEF clientVars
<1> QED
  BY <1>3, <1>4

LEMMA HandleResetInvariant ==
  ASSUME IInv, NEW s \in Streams, HandleReset(s)
  PROVE  IInv'
<1>1. UNCHANGED <<clientVars, alive, announced, told, early, http, sessions, wire, finished,
                  nextUni, datagram>>
  BY DEF HandleReset, serverVars, sendVars
<1>2. over' = over \cup {s}
  BY DEF HandleReset
<1>3. TypeOK'
  BY <1>1, <1>2 DEF IInv, TypeOK, ClientTypeOK, clientVars
<1>4. DatagramInv'
  BY <1>1 DEF IInv, DatagramInv
<1> QED
  BY <1>1, <1>2, <1>3, <1>4, OthersInvariant DEF clientVars
-----------------------------------------------------------------------------
(* Bytes: what has arrived of a stream, and what arrives next.             *)
LEMMA ChunkJoin ==
  ASSUME NEW s \in Streams, NEW a \in Nat, NEW b \in Nat, a <= b, b <= MaxBytes[s]
  PROVE  Payload(s, a) \o Chunk(s, a, b) = Payload(s, b)
<1>0. MaxBytes[s] \in Nat
  BY ClientAssumption DEF Streams
<1> DEFINE x == Chunk(s, 0, a)
           y == Chunk(s, a, b)
           z == Chunk(s, 0, b)
<1>1. x \in Seq(Unit) /\ Len(x) = a
  <2>1. 0 \in Nat /\ 0 <= a /\ a <= MaxBytes[s] /\ a - 0 = a
    BY <1>0
  <2> QED
    BY <2>1, ChunkType
<1>2. y \in Seq(Unit) /\ Len(y) = b - a
  BY ChunkType
<1>3. z \in Seq(Unit) /\ Len(z) = b
  <2>1. 0 \in Nat /\ 0 <= b /\ b - 0 = b
    OBVIOUS
  <2> QED
    BY <2>1, ChunkType
<1>4. /\ \A i \in 1 .. a : x[i] = <<s, i>>
      /\ \A i \in 1 .. b - a : y[i] = <<s, a + i>>
      /\ \A i \in 1 .. b : z[i] = <<s, i>>
  BY DEF Chunk
<1> HIDE DEF x, y, z
<1> DEFINE w == x \o y
<1>5. w \in Seq(Unit)
  BY <1>1, <1>2, ConcatProperties
<1>6. Len(w) = Len(x) + Len(y)
  BY <1>1, <1>2, ConcatProperties
<1>7. \A i \in 1 .. Len(x) + Len(y) : w[i] = IF i <= Len(x) THEN x[i] ELSE y[i - Len(x)]
  BY <1>1, <1>2, ConcatProperties
<1> HIDE DEF w
<1>8. Len(w) = b
  BY <1>1, <1>2, <1>6
<1>9. ASSUME NEW i \in 1 .. b PROVE w[i] = z[i]
  <2>1. i \in 1 .. Len(x) + Len(y) /\ Len(x) = a
    BY <1>1, <1>2
  <2>2. w[i] = IF i <= a THEN x[i] ELSE y[i - a]
    BY <1>7, <2>1
  <2>3. CASE i <= a
    <3>1. i \in 1 .. a
      BY <2>3
    <3> QED
      BY <1>4, <2>2, <2>3, <3>1
  <2>4. CASE ~(i <= a)
    <3>1. i - a \in 1 .. b - a /\ a + (i - a) = i
      BY <2>4
    <3> QED
      BY <1>4, <2>2, <2>4, <3>1
  <2> QED
    BY <2>3, <2>4
<1>10. w = z
  BY <1>3, <1>5, <1>8, <1>9, SeqEqual
<1> QED
  BY <1>10 DEF w, x, y, z, Payload

(* A stream of which part of what was written arrives.                     *)
Arrives(s, n, fin) ==
  /\ session[s] \in Requests /\ s \notin over
  /\ n \in told[s] .. sent[s]
  /\ fin \in BOOLEAN /\ (fin => ended[s] /\ n = sent[s])
  /\ told' = [told EXCEPT ![s] = n]
  /\ over' = IF fin THEN over \cup {s} ELSE over
  /\ Answer(s, Chunk(s, told[s], n), fin)
  /\ UNCHANGED <<clientVars, alive, announced, early, http, sessions, datagram>>

LEMMA HandleStreamArrives ==
  ASSUME IInv, NEW s \in Streams, HandleStream(s)
  PROVE  \E n \in told[s] .. sent[s], fin \in BOOLEAN : Arrives(s, n, fin)
<1>1. session[s] \in Requests /\ ended[s] \in BOOLEAN
  BY StreamTypes DEF IInv, HandleStream, TypeOK, ClientTypeOK
<1>2. PICK n \in told[s] .. sent[s], fin \in {FALSE, ended[s]} :
        /\ fin => n = sent[s]
        /\ n > told[s] \/ fin
        /\ told' = [told EXCEPT ![s] = n]
        /\ over' = IF fin THEN over \cup {s} ELSE over
        /\ Answer(s, Chunk(s, told[s], n), fin)
  BY DEF HandleStream
<1>3. s \notin over /\ UNCHANGED <<clientVars, alive, announced, early, http, sessions, datagram>>
  BY DEF HandleStream
<1>4. fin \in BOOLEAN /\ (fin => ended[s])
  BY <1>1, <1>2
<1>5. Arrives(s, n, fin)
  BY <1>1, <1>2, <1>3, <1>4, Zenon DEF Arrives
<1> QED
  BY <1>4, <1>5

(* What every arrival leaves, whatever it is answered with.                *)
LEMMA ArrivalRest ==
  ASSUME IInv, NEW s \in Streams, NEW n, NEW fin, Arrives(s, n, fin)
  PROVE  /\ ClientTypeOK' /\ ClientInv' /\ SessionsInv' /\ OpenInv' /\ DatagramInv'
         /\ told' \in [Streams -> Nat] /\ \A u \in Streams : told'[u] <= sent'[u]
         /\ over' \subseteq Streams
         /\ UNCHANGED early /\ early' \in [Streams -> Nat]
         /\ \A u \in Streams : early'[u] <= told'[u]
         /\ told'[s] = n /\ n \in Nat /\ told[s] \in Nat /\ told[s] <= n /\ n <= MaxBytes[s]
         /\ \A u \in Streams : u # s => told'[u] = told[u]
         /\ \A u \in Streams : told[u] \in Nat /\ told'[u] \in Nat /\ told[u] <= told'[u]
<1>1. UNCHANGED <<asked, status, session, sent, ended, reset, cancelled, announced, sessions, datagram>>
  BY DEF Arrives, clientVars
<1>2. ClientTypeOK'
  BY <1>1 DEF IInv, TypeOK, ClientTypeOK
<1>3. ClientInv' /\ SessionsInv' /\ OpenInv' /\ DatagramInv'
  BY <1>1 DEF IInv, ClientInv, SessionsInv, OpenInv, DatagramInv
<1>4. /\ told[s] \in Nat /\ sent[s] \in Nat /\ MaxBytes[s] \in Nat
      /\ told[s] <= sent[s] /\ sent[s] <= MaxBytes[s]
  BY StreamTypes DEF IInv
<1>5. n \in Nat /\ told[s] <= n /\ n <= sent[s] /\ n <= MaxBytes[s]
  BY <1>4 DEF Arrives
<1>6. told \in [Streams -> Nat] /\ \A u \in Streams : told[u] <= sent[u]
  BY DEF IInv, TypeOK
<1>7. told' = [told EXCEPT ![s] = n]
  BY DEF Arrives
<1>8. told'[s] = n /\ \A u \in Streams : u # s => told'[u] = told[u]
  BY <1>6, <1>7
<1>9. told' \in [Streams -> Nat]
  BY <1>5, <1>6, <1>7
<1>10. \A u \in Streams : told'[u] <= sent'[u]
  BY <1>1, <1>5, <1>6, <1>8
<1>11. \A u \in Streams : told[u] \in Nat /\ told'[u] \in Nat /\ told[u] <= told'[u]
  BY <1>5, <1>6, <1>8, <1>9
<1>12. over' \subseteq Streams
  BY DEF IInv, TypeOK, Arrives
<1>13. early \in [Streams -> Nat] /\ \A u \in Streams : early[u] <= told[u]
  BY DEF IInv, TypeOK
<1>14. UNCHANGED early
  BY DEF Arrives
<1>15. \A u \in Streams : early'[u] <= told'[u]
  BY <1>11, <1>13, <1>14
<1> QED
  BY <1>2, <1>3, <1>4, <1>5, <1>8, <1>9, <1>10, <1>11, <1>12, <1>13, <1>14, <1>15
-----------------------------------------------------------------------------
(* Without an accepted session what arrives is dropped: the stream is not  *)
(* one that waits for its session.                                         *)
LEMMA DroppedInvariant ==
  ASSUME IInv, NEW s \in Streams, NEW n, NEW fin, Arrives(s, n, fin), session[s] \notin sessions
  PROVE  IInv'
<1>1. UNCHANGED <<wire, finished, nextUni>>
  BY DEF Arrives, Answer, sendVars
<1>2. UNCHANGED <<session, sent, ended, sessions, alive, announced, http, datagram>>
  BY DEF Arrives, clientVars
<1>3. /\ ClientTypeOK' /\ ClientInv' /\ SessionsInv' /\ OpenInv' /\ DatagramInv'
      /\ told' \in [Streams -> Nat] /\ \A u \in Streams : told'[u] <= sent'[u]
      /\ over' \subseteq Streams
      /\ UNCHANGED early /\ early' \in [Streams -> Nat]
      /\ \A u \in Streams : early'[u] <= told'[u]
      /\ \A u \in Streams : u # s => told'[u] = told[u]
      /\ \A u \in Streams : told[u] \in Nat /\ told'[u] \in Nat /\ told[u] <= told'[u]
  BY ArrivalRest
<1>4. s \in Eager
  BY DEF Arrives, IInv, OpenInv
<1>5. TypeOK'
  BY <1>1, <1>2, <1>3 DEF IInv, TypeOK
<1>6. WireInv'
  BY <1>1 DEF IInv, WireInv
<1>7. PiecesInv'
  <2>1. ASSUME NEW m \in DOMAIN wire, m \notin BidiStreams
        PROVE  \E u \in UniStreams : Piece(wire[m], u)'
    <3>1. PICK u \in UniStreams : Piece(wire[m], u)
      BY <2>1 DEF IInv, PiecesInv
    <3>2. told[u] \in Nat /\ told'[u] \in Nat /\ told[u] <= told'[u]
      BY <1>3, Numbers
    <3>3. PICK a, b \in 0 .. told[u] : a <= b /\ wire[m] = Preface(session[u]) \o Chunk(u, a, b)
      BY <3>1 DEF Piece
    <3>4. a \in 0 .. told'[u] /\ b \in 0 .. told'[u] /\ session[u] \in sessions
      BY <3>1, <3>2 DEF Piece
    <3>5. Piece(wire[m], u)'
      BY <1>1, <1>2, <3>3, <3>4 DEF Piece
    <3> QED
      BY <3>5
  <2>2. ASSUME NEW m \in DOMAIN wire, m \in BidiStreams
        PROVE  session[m] \in sessions /\ \A k \in DOMAIN wire[m] : wire[m][k][1] = m
    BY <2>2 DEF IInv, PiecesInv
  <2> QED
    BY <1>1, <1>2, <2>1, <2>2 DEF PiecesInv, Piece
<1>8. OnceInv'
  <2> SUFFICES ASSUME NEW u \in UniStreams, session[u] \in sessions
               PROVE  Complete(u)' /\ Ordered(u)'
    BY <1>2 DEF OnceInv
  <2>1. told'[u] = told[u]
    BY <1>3, Numbers
  <2>2. Complete(u) /\ Ordered(u)
    BY DEF IInv, OnceInv
  <2>3. Complete(u)'
    BY <1>1, <1>3, <2>1, <2>2 DEF Complete, PlacesOn, ServerUniStreams
  <2>4. Ordered(u)'
    BY <1>1, <2>2 DEF Ordered, PlacesOn, ServerUniStreams
  <2> QED
    BY <2>3, <2>4
<1>9. BidiInv'
  <2>1. ASSUME NEW u \in Orderly
        PROVE  /\ OnWire(u)' = Payload(u, told'[u])
               /\ u \in finished' => u \in over' /\ ended'[u] /\ told'[u] = sent'[u]
    <3>1. u \in Streams /\ u # s
      BY <1>4, Numbers DEF Orderly
    <3>2. /\ OnWire(u) = Payload(u, told[u])
          /\ u \in finished => u \in over /\ ended[u] /\ told[u] = sent[u]
      BY DEF IInv, BidiInv
    <3>3. told'[u] = told[u] /\ over \subseteq over'
      BY <1>3, <3>1 DEF Arrives
    <3> QED
      BY <1>1, <1>2, <3>2, <3>3 DEF OnWire
  <2> QED
    BY <2>1 DEF BidiInv
<1> QED
  BY <1>3, <1>5, <1>6, <1>7, <1>8, <1>9 DEF IInv

(* A bidirectional stream of an accepted session grows by what arrives.    *)
LEMMA EchoedInvariant ==
  ASSUME IInv, NEW s \in BidiStreams, NEW n, NEW fin, Arrives(s, n, fin), session[s] \in sessions
  PROVE  IInv'
<1>0. s \in Streams /\ s \notin UniStreams
  BY Numbers
<1> DEFINE c == Chunk(s, told[s], n)
           w == OnWire(s) \o c
<1>1. /\ wire' = Longer(s, c) /\ UNCHANGED nextUni
      /\ finished' = IF fin THEN finished \cup {s} ELSE finished
  BY <1>0 DEF Arrives, Answer, SendStreamData
<1>2. UNCHANGED <<session, sent, ended, sessions, alive, announced, http, datagram>>
  BY DEF Arrives, clientVars
<1>3. /\ ClientTypeOK' /\ ClientInv' /\ SessionsInv' /\ OpenInv' /\ DatagramInv'
      /\ told' \in [Streams -> Nat] /\ \A u \in Streams : told'[u] <= sent'[u]
      /\ over' \subseteq Streams
      /\ UNCHANGED early /\ early' \in [Streams -> Nat]
      /\ \A u \in Streams : early'[u] <= told'[u]
      /\ told'[s] = n /\ n \in Nat /\ told[s] \in Nat /\ told[s] <= n /\ n <= MaxBytes[s]
      /\ \A u \in Streams : u # s => told'[u] = told[u]
      /\ \A u \in Streams : told[u] \in Nat /\ told'[u] \in Nat /\ told[u] <= told'[u]
  BY <1>0, ArrivalRest
<1>4. c \in Seq(Unit) /\ \A k \in DOMAIN c : c[k][1] = s
  <2>1. c \in Seq(Unit)
    BY <1>0, <1>3, ChunkType
  <2>2. \A k \in DOMAIN c : c[k][1] = s
    BY DEF Chunk
  <2> QED
    BY <2>1, <2>2
<1>5. OnWire(s) \in Seq(Unit) /\ \A k \in DOMAIN OnWire(s) : OnWire(s)[k][1] = s
  <2>1. CASE s \in DOMAIN wire
    BY <2>1 DEF IInv, TypeOK, PiecesInv, OnWire
  <2>2. CASE s \notin DOMAIN wire
    BY <2>2 DEF OnWire
  <2> QED
    BY <2>1, <2>2
<1>6. w \in Seq(Unit) /\ \A k \in DOMAIN w : w[k][1] = s
  <2> DEFINE p == OnWire(s)
  <2>1. /\ p \in Seq(Unit) /\ c \in Seq(Unit)
        /\ \A k \in DOMAIN p : p[k][1] = s
        /\ \A k \in DOMAIN c : c[k][1] = s
    BY <1>4, <1>5
  <2> HIDE DEF p, c
  <2> DEFINE v == p \o c
  <2>2. v \in Seq(Unit)
    BY <2>1, ConcatProperties
  <2>3. Len(v) = Len(p) + Len(c)
    BY <2>1, ConcatProperties
  <2>4. \A k \in 1 .. Len(p) + Len(c) : v[k] = IF k <= Len(p) THEN p[k] ELSE c[k - Len(p)]
    BY <2>1, ConcatProperties
  <2>5. Len(p) \in Nat /\ Len(c) \in Nat /\ DOMAIN p = 1 .. Len(p) /\ DOMAIN c = 1 .. Len(c)
    BY <2>1
  <2> HIDE DEF v
  <2>6. ASSUME NEW k \in DOMAIN v PROVE v[k][1] = s
    <3>1. k \in 1 .. Len(p) + Len(c)
      BY <2>2, <2>3
    <3>2. CASE k <= Len(p)
      <4>1. k \in DOMAIN p
        BY <2>5, <3>1, <3>2
      <4> QED
        BY <2>1, <2>4, <3>1, <3>2, <4>1
    <3>3. CASE ~(k <= Len(p))
      <4>1. k - Len(p) \in DOMAIN c
        BY <2>5, <3>1, <3>3
      <4> QED
        BY <2>1, <2>4, <3>1, <3>3, <4>1
    <3> QED
      BY <3>2, <3>3
  <2> QED
    BY <2>2, <2>6 DEF v, p
<1>7. /\ DOMAIN wire' = DOMAIN wire \cup {s}
      /\ wire'[s] = w
      /\ \A m \in DOMAIN wire : m # s => wire'[m] = wire[m]
  BY <1>1 DEF Longer
<1> HIDE DEF w, c
<1>8. TypeOK'
  <2>1. \A m \in DOMAIN wire' : m \in Nat /\ wire'[m] \in Seq(Unit)
    BY <1>0, <1>6, <1>7, Numbers DEF IInv, TypeOK
  <2>2. finished' \subseteq DOMAIN wire'
    BY <1>1, <1>7 DEF IInv, TypeOK
  <2> QED
    BY <1>1, <1>2, <1>3, <2>1, <2>2 DEF IInv, TypeOK
<1>9. WireInv'
  BY <1>1, <1>7 DEF IInv, WireInv
<1>10. PiecesInv'
  <2> SUFFICES ASSUME NEW m \in DOMAIN wire'
               PROVE  IF m \in BidiStreams
                      THEN session[m] \in sessions /\ \A k \in DOMAIN wire'[m] : wire'[m][k][1] = m
                      ELSE \E u \in UniStreams : Piece(wire[m], u)'
    BY <1>2 DEF PiecesInv, Piece
  <2>1. CASE m = s
    BY <1>6, <1>7, <2>1
  <2>2. CASE m # s /\ m \in BidiStreams
    BY <1>7, <2>2 DEF IInv, PiecesInv
  <2>3. CASE m # s /\ m \notin BidiStreams
    <3>1. PICK u \in UniStreams : Piece(wire[m], u)
      BY <1>7, <2>3 DEF IInv, PiecesInv
    <3>2. told[u] \in Nat /\ told'[u] \in Nat /\ told[u] <= told'[u]
      BY <1>3, Numbers
    <3>3. wire'[m] = wire[m]
      BY <1>7, <2>3
    <3>4. Piece(wire[m], u)'
      <4>1. PICK a, b \in 0 .. told[u] : a <= b /\ wire[m] = Preface(session[u]) \o Chunk(u, a, b)
        BY <3>1 DEF Piece
      <4>2. a \in 0 .. told'[u] /\ b \in 0 .. told'[u]
        BY <3>2
      <4>3. session[u] \in sessions
        BY <3>1 DEF Piece
      <4> QED
        BY <1>2, <3>3, <4>1, <4>2, <4>3 DEF Piece
    <3> QED
      BY <2>3, <3>3, <3>4
  <2> QED
    BY <2>1, <2>2, <2>3
<1>11. OnceInv'
  <2> SUFFICES ASSUME NEW u \in UniStreams, session[u] \in sessions
               PROVE  Complete(u)' /\ Ordered(u)'
    BY <1>2 DEF OnceInv
  <2>1. told'[u] = told[u]
    BY <1>0, <1>3, Numbers
  <2>2. Complete(u) /\ Ordered(u)
    BY DEF IInv, OnceInv
  <2>3. ServerUniStreams' = ServerUniStreams
    BY <1>7 DEF ServerUniStreams
  <2>4. \A m \in ServerUniStreams : wire'[m] = wire[m] /\ PlacesOn(m, u)' = PlacesOn(m, u)
    BY <1>7 DEF ServerUniStreams, PlacesOn
  <2>5. Complete(u)'
    BY <1>3, <2>1, <2>2, <2>3, <2>4 DEF Complete
  <2>6. Ordered(u)'
    BY <2>2, <2>3, <2>4 DEF Ordered
  <2> QED
    BY <2>5, <2>6
<1>12. BidiInv'
  <2> SUFFICES ASSUME NEW u \in Orderly
               PROVE  /\ OnWire(u)' = Payload(u, told'[u])
                      /\ u \in finished' => u \in over' /\ ended'[u] /\ told'[u] = sent'[u]
    BY DEF BidiInv
  <2>1. /\ OnWire(u) = Payload(u, told[u])
        /\ u \in finished => u \in over /\ ended[u] /\ told[u] = sent[u]
    BY DEF IInv, BidiInv
  <2>2. u \in Streams /\ over \subseteq over'
    BY Numbers DEF Orderly, Arrives
  <2>3. CASE u = s
    <3>1. OnWire(s)' = Payload(s, n)
      <4>0. /\ n \in Nat /\ told[s] \in Nat /\ told[s] <= n /\ n <= MaxBytes[s]
            /\ OnWire(s) = Payload(s, told[s])
        BY <1>3, <2>1, <2>3
      <4>1. w = Payload(s, n)
        BY <1>0, <4>0, ChunkJoin DEF w, c
      <4> QED
        BY <1>7, <4>1 DEF OnWire
    <3>2. s \in finished' => fin
      BY <1>1, <2>1, <2>3 DEF Arrives
    <3>3. fin => s \in over' /\ ended[s] /\ n = sent[s]
      BY DEF Arrives
    <3> QED
      BY <1>2, <1>3, <2>3, <3>1, <3>2, <3>3
  <2>4. CASE u # s
    <3>1. told'[u] = told[u] /\ OnWire(u)' = OnWire(u)
      BY <1>3, <1>7, <2>2, <2>4 DEF OnWire
    <3>2. u \in finished' => u \in finished
      BY <1>1, <2>4
    <3> QED
      BY <1>2, <2>1, <2>2, <3>1, <3>2
  <2> QED
    BY <2>3, <2>4
<1> QED
  BY <1>3, <1>8, <1>9, <1>10, <1>11, <1>12 DEF IInv
-----------------------------------------------------------------------------
(* A unidirectional stream of an accepted session is answered on a server  *)
(* stream behind all the others.                                           *)
LEMMA UniAnsweredInvariant ==
  ASSUME IInv, NEW s \in UniStreams, NEW n, NEW fin, Arrives(s, n, fin), session[s] \in sessions
  PROVE  IInv'
<1>0. s \in Streams /\ s \notin BidiStreams /\ session[s] \in Requests
  BY Numbers DEF IInv, TypeOK
<1>p. told[s] \in Nat /\ nextUni \in Nat
  BY <1>0 DEF IInv, TypeOK
<1>q. PICK q \in Requests : q = session[s]
  BY <1>0
<1>a. PICK a \in Nat : a = told[s]
  BY <1>p
<1>n. PICK new \in Nat : new = nextUni
  BY <1>p
<1> DEFINE w == Preface(q) \o Chunk(s, a, n)
<1>1. /\ wire' = Longer(new, w) /\ nextUni' = nextUni + 4
      /\ finished' = IF fin THEN finished \cup {new} ELSE finished
  BY <1>0, <1>q, <1>a, <1>n DEF Arrives, Answer, SendStreamData
<1>2. UNCHANGED <<session, sent, ended, sessions, alive, announced, http, datagram>>
  BY DEF Arrives, clientVars
<1>3. /\ ClientTypeOK' /\ ClientInv' /\ SessionsInv' /\ OpenInv' /\ DatagramInv'
      /\ told' \in [Streams -> Nat] /\ \A u \in Streams : told'[u] <= sent'[u]
      /\ over' \subseteq Streams
      /\ UNCHANGED early /\ early' \in [Streams -> Nat]
      /\ \A u \in Streams : early'[u] <= told'[u]
      /\ told'[s] = n /\ n \in Nat /\ a \in Nat /\ a <= n /\ n <= MaxBytes[s]
      /\ \A u \in Streams : u # s => told'[u] = told[u]
      /\ \A u \in Streams : told[u] \in Nat /\ told'[u] \in Nat /\ told[u] <= told'[u]
  BY <1>0, <1>a, ArrivalRest
<1>4. /\ new \in Nat /\ new % 4 = 3 /\ new \notin BidiStreams /\ new \notin DOMAIN wire
      /\ \A m \in DOMAIN wire : m \in Nat
      /\ \A m \in DOMAIN wire \ BidiStreams : m < new
  <2>1. new \in Nat /\ new % 4 = 3 /\ \A m \in DOMAIN wire : m \in Nat
    BY <1>n DEF IInv, TypeOK, WireInv
  <2>2. new \notin BidiStreams
    BY <2>1, Numbers
  <2>3. \A m \in DOMAIN wire \ BidiStreams : m < new
    BY <1>n DEF IInv, WireInv
  <2>4. new \notin DOMAIN wire
    BY <2>1, <2>2, <2>3
  <2> QED
    BY <2>1, <2>2, <2>3, <2>4
<1>5. Framed(w, q, s, a, n)
  BY <1>0, <1>3, PieceUnits
<1>6. /\ DOMAIN wire' = DOMAIN wire \cup {new}
      /\ \A m \in DOMAIN wire : wire'[m] = wire[m]
  BY <1>1, <1>4 DEF Longer
<1>7. wire'[new] = w
  <2>1. wire'[new] = <<>> \o w
    BY <1>1, <1>4 DEF Longer, OnWire
  <2>2. w \in Seq(Unit)
    BY <1>5 DEF Framed
  <2> HIDE DEF w
  <2>3. <<>> \o w = w
    BY <2>2, ConcatEmptySeq
  <2> QED
    BY <2>1, <2>3
<1> HIDE DEF w
<1>8. TypeOK'
  <2>1. \A m \in DOMAIN wire' : m \in Nat /\ wire'[m] \in Seq(Unit)
    BY <1>4, <1>5, <1>6, <1>7 DEF IInv, TypeOK, Framed
  <2>2. finished' \subseteq DOMAIN wire'
    BY <1>1, <1>6 DEF IInv, TypeOK
  <2>3. nextUni' \in Nat
    BY <1>1, <1>p
  <2> QED
    BY <1>2, <1>3, <2>1, <2>2, <2>3 DEF IInv, TypeOK
<1>9. WireInv'
  <2>1. nextUni' = new + 4
    BY <1>1, <1>n
  <2>2. nextUni' % 4 = 3 /\ new < nextUni'
    BY <1>4, <2>1
  <2>3. \A m \in DOMAIN wire : m \in BidiStreams \/ (m % 4 = 3 /\ m < nextUni')
    <3> SUFFICES ASSUME NEW m \in DOMAIN wire, m \notin BidiStreams
                 PROVE  m % 4 = 3 /\ m < nextUni'
      OBVIOUS
    <3>1. m % 4 = 3 /\ m < new /\ m \in Nat
      BY <1>4, <1>n DEF IInv, WireInv
    <3> QED
      BY <1>4, <2>1, <3>1
  <2> QED
    BY <1>4, <1>6, <2>2, <2>3 DEF WireInv
<1>10. PiecesInv'
  <2> SUFFICES ASSUME NEW m \in DOMAIN wire'
               PROVE  IF m \in BidiStreams
                      THEN session[m] \in sessions /\ \A k \in DOMAIN wire'[m] : wire'[m][k][1] = m
                      ELSE \E u \in UniStreams : Piece(wire[m], u)'
    BY <1>2 DEF PiecesInv, Piece
  <2>1. CASE m = new
    <3>1. wire'[new] = Preface(session[s]) \o Chunk(s, a, n)
      BY <1>7, <1>q DEF w
    <3>2. a \in 0 .. told'[s] /\ n \in 0 .. told'[s] /\ a <= n
      BY <1>3
    <3>3. Piece(wire[m], s)'
      BY <1>2, <2>1, <3>1, <3>2 DEF Piece
    <3> QED
      BY <1>4, <2>1, <3>3
  <2>2. CASE m # new /\ m \in BidiStreams
    BY <1>6, <2>2 DEF IInv, PiecesInv
  <2>3. CASE m # new /\ m \notin BidiStreams
    <3>1. PICK u \in UniStreams : Piece(wire[m], u)
      BY <1>6, <2>3 DEF IInv, PiecesInv
    <3>2. told[u] \in Nat /\ told'[u] \in Nat /\ told[u] <= told'[u]
      BY <1>3, Numbers
    <3>3. wire'[m] = wire[m]
      BY <1>6, <2>3
    <3>4. PICK x, y \in 0 .. told[u] : x <= y /\ wire[m] = Preface(session[u]) \o Chunk(u, x, y)
      BY <3>1 DEF Piece
    <3>5. x \in 0 .. told'[u] /\ y \in 0 .. told'[u] /\ session[u] \in sessions
      BY <3>1, <3>2 DEF Piece
    <3>6. Piece(wire[m], u)'
      BY <1>2, <3>3, <3>4, <3>5 DEF Piece
    <3> QED
      BY <2>3, <3>6
  <2> QED
    BY <2>1, <2>2, <2>3
<1>11. ServerUniStreams' = ServerUniStreams \cup {new}
  BY <1>4, <1>6 DEF ServerUniStreams
<1>12. \A m \in ServerUniStreams, u \in Streams :
          m < new /\ m # new /\ wire'[m] = wire[m] /\ PlacesOn(m, u)' = PlacesOn(m, u)
  BY <1>4, <1>6 DEF ServerUniStreams, PlacesOn
<1>13. \A u \in Streams : PlacesOn(new, u)' = IF u = s THEN 2 .. 1 + (n - a) ELSE {}
  <2> SUFFICES ASSUME NEW u \in Streams
               PROVE  PlacesOn(new, u)' = IF u = s THEN 2 .. 1 + (n - a) ELSE {}
    OBVIOUS
  <2>1. {k \in DOMAIN w : w[k][1] = u} = IF u = s THEN 2 .. 1 + (n - a) ELSE {}
    BY <1>0, <1>3, <1>5, FramedPlaces
  <2>2. PlacesOn(new, u)' = {k \in DOMAIN wire'[new] : wire'[new][k][1] = u}
    BY DEF PlacesOn
  <2> QED
    BY <1>7, <2>1, <2>2
<1>14. OnceInv'
  <2> SUFFICES ASSUME NEW u \in UniStreams, session[u] \in sessions
               PROVE  Complete(u)' /\ Ordered(u)'
    BY <1>2 DEF OnceInv
  <2>0. u \in Streams /\ Complete(u) /\ Ordered(u)
    BY Numbers DEF IInv, OnceInv
  <2>1. CASE u # s
    <3>1. told'[u] = told[u] /\ PlacesOn(new, u)' = {}
      BY <1>3, <1>13, <2>0, <2>1
    <3>2. Complete(u)'
      BY <1>3, <1>11, <1>12, <2>0, <3>1 DEF Complete
    <3>3. Ordered(u)'
      BY <1>11, <1>12, <2>0, <3>1 DEF Ordered
    <3> QED
      BY <3>2, <3>3
  <2>2. CASE u = s
    <3>1. /\ PlacesOn(new, s)' = 2 .. 1 + (n - a)
          /\ \A k \in 2 .. 1 + (n - a) : wire'[new][k][2] = a + (k - 1)
      BY <1>0, <1>5, <1>7, <1>13 DEF Framed
    <3>2. \A m \in ServerUniStreams : \A k \in PlacesOn(m, s) :
            /\ k \in PlacesOn(m, s)' /\ wire'[m][k] = wire[m][k]
            /\ k \in Nat /\ wire[m][k][2] \in 1 .. a
      BY <1>0, <1>12, <1>a, UniPlaces
    <3>3. Complete(s)'
      <4>1. PICK lost \in Nat : lost = early[s]
        BY <1>0 DEF IInv, TypeOK
      <4>0. /\ lost <= a
            /\ \A p \in lost + 1 .. a :
                 \E m \in ServerUniStreams : \E k \in PlacesOn(m, s) : wire[m][k][2] = p
            /\ \A m \in ServerUniStreams : \A k \in PlacesOn(m, s) :
                 wire[m][k][2] \in lost + 1 .. a
        BY <1>0, <1>a, <2>0, <2>2, <4>1 DEF Complete, IInv, TypeOK
      <4>2. lost \in Nat /\ lost = early'[s]
        BY <1>3, <4>1
      <4>3. ASSUME NEW p \in lost + 1 .. n
            PROVE  \E m \in ServerUniStreams' : \E k \in PlacesOn(m, s)' : wire'[m][k][2] = p
        <5>1. CASE p <= a
          <6>1. PICK m \in ServerUniStreams : \E k \in PlacesOn(m, s) : wire[m][k][2] = p
            BY <1>3, <4>0, <4>2, <5>1
          <6>2. PICK k \in PlacesOn(m, s) : wire[m][k][2] = p
            BY <6>1
          <6>3. k \in PlacesOn(m, s)' /\ wire'[m][k][2] = p /\ m \in ServerUniStreams'
            BY <1>11, <3>2, <6>2
          <6> QED
            BY <6>3
        <5>2. CASE ~(p <= a)
          <6>1. (p - a) + 1 \in 2 .. 1 + (n - a) /\ a + (((p - a) + 1) - 1) = p
            BY <1>3, <4>2, <5>2
          <6>2. wire'[new][(p - a) + 1][2] = p
            BY <3>1, <6>1
          <6>3. new \in ServerUniStreams' /\ (p - a) + 1 \in PlacesOn(new, s)'
            BY <1>11, <3>1, <6>1
          <6> QED
            BY <6>2, <6>3
        <5> QED
          BY <5>1, <5>2
      <4>4. ASSUME NEW m \in ServerUniStreams', NEW k \in PlacesOn(m, s)'
            PROVE  wire'[m][k][2] \in lost + 1 .. n
        <5>1. CASE m \in ServerUniStreams
          <6>1. k \in PlacesOn(m, s)
            BY <1>0, <1>12, <5>1
          <6>2. wire'[m][k][2] \in lost + 1 .. a
            BY <3>2, <4>0, <5>1, <6>1
          <6> QED
            BY <1>3, <4>2, <6>2
        <5>2. CASE m = new
          <6>1. k \in 2 .. 1 + (n - a) /\ wire'[new][k][2] = a + (k - 1)
            BY <3>1, <5>2
          <6>2. a + (k - 1) \in lost + 1 .. n
            BY <1>3, <4>0, <4>2, <6>1
          <6> QED
            BY <5>2, <6>1, <6>2
        <5> QED
          BY <1>11, <5>1, <5>2
      <4> QED
        BY <1>3, <4>2, <4>3, <4>4 DEF Complete
    <3>4. Ordered(s)'
      <4> SUFFICES ASSUME NEW x \in ServerUniStreams', NEW y \in ServerUniStreams',
                          NEW i \in PlacesOn(x, s)', NEW j \in PlacesOn(y, s)',
                          x < y \/ (x = y /\ i < j)
                   PROVE  wire'[x][i][2] < wire'[y][j][2]
        BY DEF Ordered
      <4>1. CASE x \in ServerUniStreams /\ y \in ServerUniStreams
        <5>1. i \in PlacesOn(x, s) /\ j \in PlacesOn(y, s)
          BY <1>0, <1>12, <4>1
        <5>2. wire[x][i][2] < wire[y][j][2]
          BY <2>0, <2>2, <4>1, <5>1 DEF Ordered
        <5> QED
          BY <3>2, <4>1, <5>1, <5>2
      <4>2. CASE x \in ServerUniStreams /\ y = new
        <5>1. i \in PlacesOn(x, s) /\ wire'[x][i][2] \in 1 .. a
          <6>1. i \in PlacesOn(x, s)
            BY <1>0, <1>12, <4>2
          <6> QED
            BY <3>2, <4>2, <6>1
        <5>2. j \in 2 .. 1 + (n - a) /\ wire'[new][j][2] = a + (j - 1)
          BY <3>1, <4>2
        <5>3. a + (j - 1) > a
          BY <1>3, <5>2
        <5> QED
          BY <1>3, <4>2, <5>1, <5>2, <5>3
      <4>3. CASE x = new /\ y \in ServerUniStreams
        <5>1. y < new /\ y # new /\ y \in Nat
          BY <1>0, <1>4, <1>12, <4>3 DEF ServerUniStreams
        <5> QED
          BY <1>4, <4>3, <5>1
      <4>4. CASE x = new /\ y = new
        <5>1. i < j
          BY <1>4, <4>4
        <5>2. /\ i \in 2 .. 1 + (n - a) /\ wire'[new][i][2] = a + (i - 1)
              /\ j \in 2 .. 1 + (n - a) /\ wire'[new][j][2] = a + (j - 1)
          BY <3>1, <4>4
        <5> QED
          BY <1>3, <4>4, <5>1, <5>2
      <4> QED
        BY <1>11, <4>1, <4>2, <4>3, <4>4
    <3> QED
      BY <2>2, <3>3, <3>4
  <2> QED
    BY <2>1, <2>2
<1>15. BidiInv'
  <2> SUFFICES ASSUME NEW u \in Orderly
               PROVE  /\ OnWire(u)' = Payload(u, told'[u])
                      /\ u \in finished' => u \in over' /\ ended'[u] /\ told'[u] = sent'[u]
    BY DEF BidiInv
  <2>1. /\ OnWire(u) = Payload(u, told[u])
        /\ u \in finished => u \in over /\ ended[u] /\ told[u] = sent[u]
    BY DEF IInv, BidiInv
  <2>2. u \in Streams /\ u # s /\ u # new /\ over \subseteq over'
    BY <1>0, <1>4, Numbers DEF Orderly, Arrives
  <2>3. OnWire(u)' = OnWire(u) /\ told'[u] = told[u]
    BY <1>3, <1>6, <2>2 DEF OnWire
  <2>4. u \in finished' => u \in finished
    BY <1>1, <2>2
  <2> QED
    BY <1>2, <2>1, <2>2, <2>3, <2>4
<1> QED
  BY <1>3, <1>8, <1>9, <1>10, <1>14, <1>15 DEF IInv

LEMMA HandleStreamInvariant ==
  ASSUME IInv, NEW s \in Streams, HandleStream(s)
  PROVE  IInv'
<1>1. PICK n \in told[s] .. sent[s], fin \in BOOLEAN : Arrives(s, n, fin)
  BY HandleStreamArrives
<1>2. s \in UniStreams \/ s \in BidiStreams
  BY DEF Streams
<1> QED
  BY <1>1, <1>2, DroppedInvariant, EchoedInvariant, UniAnsweredInvariant
-----------------------------------------------------------------------------
LEMMA InitInv == Init => IInv
<1> SUFFICES ASSUME Init PROVE IInv
  OBVIOUS
<1>1. /\ asked = [q \in Requests |-> ""] /\ status = [q \in Requests |-> ""]
      /\ session = [s \in Streams |-> None] /\ sent = [s \in Streams |-> 0]
      /\ ended = [s \in Streams |-> FALSE] /\ reset = [s \in Streams |-> FALSE]
      /\ cancelled = {} /\ http = FALSE /\ alive = TRUE /\ announced = {}
      /\ early = [s \in Streams |-> 0]
      /\ told = [s \in Streams |-> 0] /\ over = {} /\ sessions = {} /\ wire = <<>>
      /\ finished = {} /\ nextUni = 15 /\ datagram = [d \in Datagrams |-> Nowhere]
  BY DEF Init, ClientInit, FirstServerUniStream
<1>2. \A s \in Streams : session[s] = None /\ sent[s] = 0 /\ ~ended[s] /\ ~reset[s] /\ told[s] = 0
  BY <1>1
<1>3. \A q \in Requests : asked[q] = "" /\ status[q] = ""
  BY <1>1
<1>4. DOMAIN wire = {}
  <2>1. wire = <<>>
    BY <1>1
  <2>2. DOMAIN <<>> = {}
    OBVIOUS
  <2> QED
    BY <2>1, <2>2
<1>5. ClientTypeOK
  <2>1. \A s \in Streams : sent[s] <= MaxBytes[s]
    BY <1>2, ClientAssumption DEF Streams
  <2> QED
    BY <1>1, <2>1 DEF ClientTypeOK
<1>6. TypeOK
  <2>1. Nowhere \in [at : {"client", "up", "down", "dropped"}, session : Requests \cup {None}]
    BY DEF Nowhere
  <2>2. datagram \in [Datagrams -> [at : {"client", "up", "down", "dropped"},
                                    session : Requests \cup {None}]]
    BY <1>1, <2>1
  <2>3. \A s \in Streams : told[s] <= sent[s]
    BY <1>2
  <2>4. told \in [Streams -> Nat]
    BY <1>1
  <2>5. early \in [Streams -> Nat] /\ \A s \in Streams : early[s] <= told[s]
    <3>1. \A s \in Streams : early[s] = 0 /\ told[s] = 0
      BY <1>1
    <3>2. early \in [Streams -> Nat]
      BY <1>1
    <3> QED
      BY <3>1, <3>2
  <2> QED
    BY <1>1, <1>4, <1>5, <2>2, <2>3, <2>4, <2>5 DEF TypeOK
<1>7. ClientInv /\ OpenInv
  BY <1>2, Numbers DEF ClientInv, OpenInv
<1>8. SessionsInv
  BY <1>1, <1>3 DEF SessionsInv
<1>9. WireInv /\ PiecesInv
  <2>1. nextUni = 15
    BY <1>1
  <2>2. 15 % 4 = 3
    OBVIOUS
  <2> QED
    BY <1>4, <2>1, <2>2 DEF WireInv, PiecesInv
<1>10. OnceInv /\ DatagramInv
  <2>1. \A d \in Datagrams : datagram[d].at # "down"
    BY <1>1 DEF Nowhere
  <2>2. sessions = {}
    BY <1>1
  <2> QED
    BY <2>1, <2>2 DEF OnceInv, DatagramInv
<1>11. BidiInv
  <2> SUFFICES ASSUME NEW s \in Orderly PROVE OnWire(s) = Payload(s, told[s]) /\ s \notin finished
    BY DEF BidiInv
  <2>1. told[s] = 0 /\ OnWire(s) = <<>>
    BY <1>1, <1>2, <1>4, Numbers DEF Orderly, OnWire
  <2>2. Payload(s, 0) = <<>>
    BY DEF Payload, Chunk
  <2> QED
    BY <1>1, <2>1, <2>2
<1> QED
  BY <1>6, <1>7, <1>8, <1>9, <1>10, <1>11 DEF IInv

LEMMA NextInv == IInv /\ [Next]_vars => IInv'
<1> SUFFICES ASSUME IInv, [Next]_vars PROVE IInv'
  OBVIOUS
<1>1. CASE UNCHANGED vars
  <2>1. /\ UNCHANGED <<clientVars, alive, announced, told, over, early, http, sessions, wire,
                       finished, nextUni, datagram>>
    BY <1>1 DEF vars, netVars, serverVars, sendVars
  <2>2. TypeOK' /\ DatagramInv'
    BY <2>1 DEF IInv, TypeOK, ClientTypeOK, clientVars, DatagramInv
  <2> QED
    BY <2>1, <2>2, OthersInvariant DEF clientVars
<1>2. CASE Client
  BY <1>2, ClientInvariant
<1>3. CASE Negotiate \/ Terminate
  BY <1>3, NegotiateInvariant
<1>4. CASE \E q \in Requests : HandleHeaders(q)
  BY <1>4, HandleHeadersInvariant
<1>5. CASE \E s \in Streams : HandleStream(s) \/ HandleReset(s)
  BY <1>5, HandleStreamInvariant, HandleResetInvariant
<1>6. CASE \E d \in Datagrams : (\E q \in Requests : SendDatagram(d, q)) \/ HandleDatagram(d)
  BY <1>6, DatagramInvariant
<1> QED
  BY <1>1, <1>2, <1>3, <1>4, <1>5, <1>6 DEF Next

(* IInv is an inductive invariant of the aioquic server.                   *)
THEOREM AioquicInvariant == Spec => []IInv
<1> QED
  BY InitInv, NextInv, PTL DEF Spec

(* The server keeps its types.                                             *)
THEOREM AioquicTypeCorrect == Spec => []TypeOK
<1>1. IInv => TypeOK
  BY DEF IInv
<1> QED
  BY <1>1, AioquicInvariant, PTL

(* Whatever a client sends in a session that _handle_headers refused, no   *)
(* byte of it is ever written, on no stream and in no datagram.            *)
THEOREM AioquicRefusedAreSilent == Spec => []RefusedSessionsAreSilent
<1>1. IInv => RefusedSessionsAreSilent
  <2> SUFFICES ASSUME IInv, NEW q \in Requests, status[q] = "404"
               PROVE  /\ \A n \in DOMAIN wire, s \in Streams :
                           session[s] = q => PlacesOn(n, s) = {}
                      /\ \A d \in Datagrams :
                           datagram[d].session = q => datagram[d].at # "down"
    BY DEF RefusedSessionsAreSilent
  <2>1. q \notin sessions
    BY DEF IInv, SessionsInv
  <2>2. \A n \in DOMAIN wire, s \in Streams : session[s] = q => PlacesOn(n, s) = {}
    BY <2>1, Silent
  <2>3. \A d \in Datagrams : datagram[d].session = q => datagram[d].at # "down"
    BY <2>1 DEF IInv, DatagramInv
  <2> QED
    BY <2>2, <2>3
<1> QED
  BY <1>1, AioquicInvariant, PTL

(* However the network cuts it up, what has arrived on a unidirectional    *)
(* stream behind the 200 of its session is echoed exactly once and in the  *)
(* order of the server's streams, each of them with the session's preface, *)
(* and nothing that arrived before it is.                                  *)
THEOREM AioquicUniComesBackOnce == Spec => []UniBytesComeBackOnce
<1>1. IInv => UniBytesComeBackOnce
  <2> SUFFICES ASSUME IInv, NEW s \in UniStreams, session[s] # None, status[session[s]] = "200"
               PROVE  /\ Complete(s) /\ Ordered(s)
                      /\ \A n \in ServerUniStreams :
                           PlacesOn(n, s) # {} => wire[n][1] = <<session[s], 0>>
    BY Zenon DEF UniBytesComeBackOnce, Complete, Ordered
  <2>1. s \in Streams /\ session[s] \in Requests
    BY Numbers DEF IInv, TypeOK, ClientTypeOK
  <2>2. asked[session[s]] \in {"webtransport", "other"}
    BY <2>1 DEF IInv, OpenInv
  <2>3. session[s] \in sessions
    BY <2>1, <2>2 DEF IInv, SessionsInv
  <2> QED
    BY <2>3, UniPlaces DEF IInv, OnceInv
<1> QED
  BY <1>1, AioquicInvariant, PTL
-----------------------------------------------------------------------------
(* What the contract sees of the server.                                   *)
Sent == [s \in Orderly |-> sent[s]]
Ended == [s \in Orderly |-> ended[s]]
Echo == [s \in Orderly |-> OnWire(s)]
Answered == [s \in Orderly |-> s \in finished]

LEMMA InitAsContract == Init => Contract!Init
<1> SUFFICES ASSUME Init PROVE Contract!Init
  OBVIOUS
<1>1. /\ sent = [s \in Streams |-> 0] /\ ended = [s \in Streams |-> FALSE]
      /\ wire = <<>> /\ finished = {}
  BY DEF Init, ClientInit
<1>2. DOMAIN wire = {}
  <2>1. wire = <<>> /\ DOMAIN <<>> = {}
    BY <1>1
  <2> QED
    BY <2>1
<1>3. \A s \in Orderly : sent[s] = 0 /\ ended[s] = FALSE /\ OnWire(s) = <<>> /\ s \notin finished
  BY <1>1, <1>2, Numbers DEF Orderly, OnWire
<1>4. Sent = [s \in Orderly |-> 0]
  BY <1>3 DEF Sent
<1>5. Ended = [s \in Orderly |-> FALSE]
  BY <1>3 DEF Ended
<1>6. Echo = [s \in Orderly |-> <<>>]
  BY <1>3 DEF Echo
<1>7. Answered = [s \in Orderly |-> FALSE]
  <2>1. \A s \in Orderly : (s \in finished) = FALSE
    BY <1>3
  <2> QED
    BY <2>1, Zenon DEF Answered
<1> QED
  BY <1>4, <1>5, <1>6, <1>7, Zenon DEF Contract!Init, Sent, Ended, Echo, Answered

LEMMA Unseen ==
  ASSUME \A s \in Orderly : /\ sent'[s] = sent[s] /\ ended'[s] = ended[s]
                            /\ OnWire(s)' = OnWire(s)
                            /\ (s \in finished)' = (s \in finished)
  PROVE  UNCHANGED Contract!vars
<1>1. Sent' = Sent /\ Ended' = Ended
  BY DEF Sent, Ended
<1>2. Echo' = Echo
  BY DEF Echo
<1>3. Answered' = Answered
  BY DEF Answered
<1> QED
  BY <1>1, <1>2, <1>3 DEF Contract!vars, Sent, Ended, Echo, Answered

(* The client writes and ends streams of the contract, and others.         *)
LEMMA ClientAsContract ==
  ASSUME IInv, Client
  PROVE  [Contract!Next]_(Contract!vars)
<1>1. ClientStep /\ UNCHANGED <<wire, finished>>
  BY DEF Client, serverVars, sendVars
<1>2. sent \in [Streams -> Nat] /\ ended \in [Streams -> BOOLEAN]
  BY DEF IInv, TypeOK, ClientTypeOK
<1>3. Echo' = Echo /\ Answered' = Answered
  BY <1>1 DEF Echo, Answered, OnWire
<1>4. \A u \in Orderly : u \in Streams
  BY Numbers DEF Orderly
<1>5. ASSUME UNCHANGED <<sent, ended>> PROVE [Contract!Next]_(Contract!vars)
  BY <1>1, <1>5, Unseen DEF OnWire
<1>6. ASSUME NEW s \in Streams, Write(s) PROVE [Contract!Next]_(Contract!vars)
  <2>1. /\ ~ended[s] /\ sent[s] < MaxBytes[s] /\ sent' = [sent EXCEPT ![s] = sent[s] + 1]
        /\ UNCHANGED ended
    BY <1>6 DEF Write, Usable
  <2>2. CASE s \in Orderly
    <3>1. ~Ended[s] /\ Sent[s] < MaxBytes[s] /\ Ended' = Ended
      BY <2>1, <2>2 DEF Sent, Ended
    <3>2. Sent' = [Sent EXCEPT ![s] = Sent[s] + 1]
      <4>1. \A u \in Orderly : sent'[u] = IF u = s THEN sent[s] + 1 ELSE sent[u]
        BY <1>2, <1>4, <2>1
      <4> QED
        BY <2>2, <4>1 DEF Sent
    <3>3. Contract!Write(s)
      BY <1>3, <3>1, <3>2 DEF Contract!Write, Sent, Ended, Echo, Answered
    <3> QED
      BY <2>2, <3>3 DEF Contract!Next
  <2>3. CASE s \notin Orderly
    <3>1. \A u \in Orderly : sent'[u] = sent[u] /\ ended'[u] = ended[u]
      BY <1>2, <1>4, <2>1, <2>3
    <3> QED
      BY <1>1, <3>1, Unseen DEF OnWire
  <2> QED
    BY <2>2, <2>3
<1>7. ASSUME NEW s \in Streams, End(s) PROVE [Contract!Next]_(Contract!vars)
  <2>1. ~ended[s] /\ ended' = [ended EXCEPT ![s] = TRUE] /\ UNCHANGED sent
    BY <1>7 DEF End, Usable
  <2>2. CASE s \in Orderly
    <3>1. ~Ended[s] /\ Sent' = Sent
      BY <2>1, <2>2 DEF Sent, Ended
    <3>2. Ended' = [Ended EXCEPT ![s] = TRUE]
      <4>1. \A u \in Orderly : ended'[u] = IF u = s THEN TRUE ELSE ended[u]
        BY <1>2, <1>4, <2>1
      <4> QED
        BY <2>2, <4>1 DEF Ended
    <3>3. Contract!End(s)
      BY <1>3, <3>1, <3>2 DEF Contract!End, Sent, Ended, Echo, Answered
    <3> QED
      BY <2>2, <3>3 DEF Contract!Next
  <2>3. CASE s \notin Orderly
    <3>1. \A u \in Orderly : sent'[u] = sent[u] /\ ended'[u] = ended[u]
      BY <1>2, <1>4, <2>1, <2>3
    <3> QED
      BY <1>1, <3>1, Unseen DEF OnWire
  <2> QED
    BY <2>2, <2>3
<1>8. ASSUME NEW q \in Requests, (\E kind \in Kinds : Request(q, kind)) \/ Cancel(q)
      PROVE  UNCHANGED <<sent, ended>>
  BY <1>8 DEF Request, Cancel
<1>9. ASSUME NEW s \in Streams, (\E q \in Requests : Open(s, q)) \/ Reset(s)
      PROVE  UNCHANGED <<sent, ended>>
  BY <1>9 DEF Open, Reset
<1> QED
  BY <1>1, <1>5, <1>6, <1>7, <1>8, <1>9 DEF ClientStep

LEMMA SamePayload ==
  ASSUME NEW s, NEW n \in Nat
  PROVE  Payload(s, n) = Contract!Payload(s, n) /\ Len(Payload(s, n)) = n
<1>1. Payload(s, n) = [i \in 1 .. n |-> <<s, i>>]
  BY DEF Payload, Chunk
<1> QED
  BY <1>1 DEF Contract!Payload

(* What arrives on a stream of the contract is answered, on the others it  *)
(* is none of the contract's business.                                     *)
LEMMA StreamAsContract ==
  ASSUME IInv, NEW s \in Streams, HandleStream(s)
  PROVE  [Contract!Next]_(Contract!vars)
<1>1. PICK n \in told[s] .. sent[s], fin \in BOOLEAN : Arrives(s, n, fin)
  BY HandleStreamArrives
<1>2. UNCHANGED <<sent, ended, session, sessions>>
  BY <1>1 DEF Arrives, clientVars
<1>3. /\ n \in Nat /\ told[s] \in Nat /\ told[s] <= n /\ told'[s] = n /\ n <= MaxBytes[s]
  BY <1>1, ArrivalRest
<1>4. sent[s] \in Nat /\ n <= sent[s]
  BY <1>1, <1>3, StreamTypes DEF IInv
<1>5. IInv'
  BY HandleStreamInvariant
<1>6. CASE s \in Orderly
  <2>1. session[s] \in sessions /\ s \in BidiStreams /\ s \notin UniStreams
    BY <1>1, <1>6, Numbers DEF Arrives, Orderly, IInv, OpenInv
  <2>2. /\ wire' = Longer(s, Chunk(s, told[s], n))
        /\ finished' = IF fin THEN finished \cup {s} ELSE finished
    BY <1>1, <2>1 DEF Arrives, Answer, SendStreamData
  <2>3. OnWire(s) = Payload(s, told[s]) /\ s \notin finished
    BY <1>1, <1>6 DEF IInv, BidiInv, Arrives
  <2>4. OnWire(s)' = Payload(s, n)
    BY <1>3, <1>5, <1>6 DEF IInv, BidiInv
  <2>5. \A u \in Orderly : u # s => OnWire(u)' = OnWire(u)
    BY <2>2 DEF OnWire, Longer
  <2>6. Echo' = [Echo EXCEPT ![s] = Contract!Payload(s, n)]
    <3>1. OnWire(s)' = Contract!Payload(s, n)
      BY <1>3, <2>4, SamePayload
    <3> HIDE DEF Contract!Payload
    <3> QED
      BY <1>6, <2>5, <3>1 DEF Echo
  <2>7. Answered' = [Answered EXCEPT ![s] = fin]
    <3>1. \A u \in Orderly : (u \in finished)' = IF u = s THEN fin ELSE u \in finished
      BY <2>2, <2>3
    <3> QED
      BY <1>6, <3>1, Zenon DEF Answered
  <2>8. Len(Echo[s]) = told[s] /\ Sent[s] = sent[s] /\ Ended[s] = ended[s]
    BY <1>3, <1>6, <2>3, SamePayload DEF Echo, Sent, Ended
  <2>9. n \in Len(Echo[s]) .. Sent[s]
    BY <1>3, <1>4, <2>8
  <2>10. fin \in {FALSE, Ended[s] /\ n = Sent[s]}
    BY <1>1, <2>8 DEF Arrives
  <2>11. ~Answered[s] /\ UNCHANGED <<Sent, Ended>>
    BY <1>2, <1>6, <2>3 DEF Answered, Sent, Ended
  <2>12. /\ ~Answered[s]
         /\ \E m \in Len(Echo[s]) .. Sent[s] :
              /\ Echo' = [Echo EXCEPT ![s] = Contract!Payload(s, m)]
              /\ \E f \in {FALSE, Ended[s] /\ m = Sent[s]} :
                    Answered' = [Answered EXCEPT ![s] = f]
         /\ UNCHANGED <<Sent, Ended>>
    BY <2>6, <2>7, <2>9, <2>10, <2>11
  <2>13. Contract!Answer(s)
    BY <2>12 DEF Contract!Answer, Answered, Echo, Sent, Ended
  <2> QED
    BY <1>6, <2>13 DEF Contract!Next
<1>7. CASE s \notin Orderly
  <2>1. ASSUME NEW u \in Orderly
        PROVE  OnWire(u)' = OnWire(u) /\ (u \in finished)' = (u \in finished)
    <3>1. u # s /\ u # nextUni
      BY <1>7, Numbers DEF Orderly, IInv, WireInv
    <3>2. \/ UNCHANGED <<wire, finished>>
          \/ \E m \in {s, nextUni} : \E bytes : SendStreamData(m, bytes, fin)
      BY <1>1 DEF Arrives, Answer, sendVars
    <3> QED
      BY <3>1, <3>2 DEF SendStreamData, Longer, OnWire
  <2> QED
    BY <1>2, <2>1, Unseen
<1> QED
  BY <1>6, <1>7

LEMMA NextAsContract ==
  ASSUME IInv, [Next]_vars
  PROVE  [Contract!Next]_(Contract!vars)
<1>1. CASE Client
  BY <1>1, ClientAsContract
<1>2. CASE \E s \in Streams : HandleStream(s)
  BY <1>2, StreamAsContract
<1>3. CASE \/ Negotiate \/ Terminate
           \/ \E q \in Requests : HandleHeaders(q)
           \/ \E s \in Streams : HandleReset(s)
           \/ \E d \in Datagrams : \/ \E q \in Requests : SendDatagram(d, q)
                                   \/ HandleDatagram(d)
           \/ UNCHANGED vars
  <2>1. UNCHANGED <<sent, ended, wire, finished>>
    BY <1>3 DEF Negotiate, Terminate, HandleHeaders, HandleReset, SendDatagram, HandleDatagram,
                vars, clientVars, serverVars, sendVars
  <2> QED
    BY <2>1, Unseen DEF OnWire
<1> QED
  BY <1>1, <1>2, <1>3 DEF Next

(* Bidirectional streams that wait for their session are echoed as the     *)
(* contract says, at whatever pace their bytes arrive, whatever becomes of *)
(* the session meanwhile, and end only behind the last byte of an ended    *)
(* stream (_handle_webtransport_stream).                                   *)
THEOREM AioquicImplementsEcho == Spec => ImplementsBidiEcho
<1>1. IInv /\ [Next]_vars => [Contract!Next]_(Contract!vars)
  BY NextAsContract
<1> QED
  BY InitAsContract, <1>1, AioquicInvariant, PTL DEF Spec, ImplementsBidiEcho, Contract!Spec
================================================================================
