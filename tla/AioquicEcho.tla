------------------------------ MODULE AioquicEcho ------------------------------
(***************************************************************************)
(* One connection of the aioquic echo server, the lab's primary oracle     *)
(* (scripts/aioquic-wt-echo.py, class WebTransportEchoProtocol).           *)
(*                                                                         *)
(* asyncio calls quic_event_received once per QUIC event and the handler   *)
(* runs to its end, so a handler is one action; what it sends goes to      *)
(* aioquic's unbounded send buffers.  The order of the events of different *)
(* streams is the network's.                                               *)
(***************************************************************************)
EXTENDS EchoClient

CONSTANT Datagrams   \* the datagrams the client may send, each once

VARIABLES
  http,         \* _http is set: ALPN h3 has been negotiated
  alive,        \* the QUIC connection is open
  announced,    \* request streams whose headers have arrived
  told,         \* told[s]: how many bytes of s have arrived
  over,         \* streams whose end or reset has arrived
  early,        \* early[s]: how many bytes of s had arrived when the
                \* request of its session was answered; the properties'
                \* record, not the program's
  sessions,     \* keys of _sessions: sessions that were accepted
  wire,         \* wire[n]: what the server has written on stream n
  finished,     \* streams that it has ended
  nextUni,      \* the ID of the next server uni stream
  datagram      \* datagram[d]: where the datagram d is, and its session

netVars    == <<announced, told, over, early>>
sendVars   == <<wire, finished, nextUni>>
serverVars == <<http, sessions, sendVars>>
vars == <<clientVars, alive, netVars, serverVars, datagram>>

Nowhere == [at |-> "client", session |-> None]
Dropped == [at |-> "dropped", session |-> None]

TypeOK ==
  /\ ClientTypeOK
  /\ http \in BOOLEAN
  /\ alive \in BOOLEAN
  /\ announced \subseteq Requests
  /\ told \in [Streams -> Nat] /\ \A s \in Streams : told[s] <= sent[s]
  /\ over \subseteq Streams
  /\ early \in [Streams -> Nat] /\ \A s \in Streams : early[s] <= told[s]
  /\ sessions \subseteq Requests
  /\ \A n \in DOMAIN wire : n \in Nat /\ wire[n] \in Seq(Unit)
  /\ finished \subseteq DOMAIN wire
  /\ nextUni \in Nat
  /\ datagram \in [Datagrams -> [at : {"client", "up", "down", "dropped"},
                                 session : Requests \cup {None}]]

-----------------------------------------------------------------------------
Init ==
  /\ ClientInit
  /\ http = FALSE
  /\ alive = TRUE
  /\ announced = {}
  /\ told = [s \in Streams |-> 0]
  /\ over = {}
  /\ early = [s \in Streams |-> 0]
  /\ sessions = {}
  /\ wire = <<>>
  /\ finished = {}
  /\ nextUni = FirstServerUniStream
  /\ datagram = [d \in Datagrams |-> Nowhere]

Client ==
  /\ alive /\ http /\ ClientStep
  /\ UNCHANGED <<alive, netVars, serverVars, datagram>>

(* A datagram is not retransmitted: one that is lost stays "up" for good. *)
SendDatagram(d, q) ==
  /\ alive /\ datagram[d] = Nowhere
  /\ asked[q] \in {"webtransport", "other"} /\ q \notin cancelled
  /\ datagram' = [datagram EXCEPT ![d] = [at |-> "up", session |-> q]]
  /\ UNCHANGED <<clientVars, alive, netVars, serverVars>>

(* The idle timeout, or either side closing; the handler only logs it. *)
Terminate ==
  /\ alive
  /\ alive' = FALSE
  /\ UNCHANGED <<clientVars, netVars, serverVars, datagram>>

-----------------------------------------------------------------------------
(* ProtocolNegotiated: the H3 connection is made; any other ALPN leaves    *)
(* _http unset and every later event without effect.                       *)
Negotiate ==
  /\ alive /\ ~http
  /\ http' = TRUE
  /\ UNCHANGED <<clientVars, alive, netVars, sessions, sendVars, datagram>>

ArrivedIn(q) == [s \in Streams |-> IF session[s] = q THEN told[s] ELSE early[s]]

(* Mutated: the session is recorded before the request is judged. *)
HandleHeadersAny(q) ==
  /\ alive /\ http /\ asked[q] # "" /\ q \notin announced
  /\ announced' = announced \cup {q}
  /\ sessions' = sessions \cup {q}
  /\ status' = [status EXCEPT ![q] = IF asked[q] = "other" THEN "404" ELSE "200"]
  /\ early' = ArrivedIn(q)
  /\ UNCHANGED <<asked, session, sent, ended, reset, cancelled, alive, http,
                 told, over, sendVars, datagram>>

(* _handle_headers: the session is recorded before its 200 is sent. *)
HandleHeaders(q) ==
  /\ alive /\ http /\ asked[q] # "" /\ q \notin announced
  /\ announced' = announced \cup {q}
  /\ sessions' = IF asked[q] = "webtransport" THEN sessions \cup {q} ELSE sessions
  /\ status' = [status EXCEPT ![q] = IF asked[q] = "other" THEN "404" ELSE "200"]
  /\ early' = ArrivedIn(q)
  /\ UNCHANGED <<asked, session, sent, ended, reset, cancelled, alive, http,
                 told, over, sendVars, datagram>>

(* _handle_datagram: what belongs to no accepted session is dropped. *)
HandleDatagram(d) ==
  /\ alive /\ http /\ datagram[d].at = "up"
  /\ datagram' = [datagram EXCEPT ![d] = IF @.session \in sessions
                                         THEN [@ EXCEPT !.at = "down"]
                                         ELSE Dropped]
  /\ UNCHANGED <<clientVars, alive, netVars, serverVars>>

OnWire(n) == IF n \in DOMAIN wire THEN wire[n] ELSE <<>>
Longer(n, bytes) == [m \in DOMAIN wire \cup {n} |->
                       IF m = n THEN OnWire(n) \o bytes ELSE wire[m]]

(* Mutated: the end of the client's stream is not passed on. *)
SendStreamDataUnended(n, bytes, fin) ==
  /\ wire' = Longer(n, bytes)
  /\ UNCHANGED finished

(* Mutated: the end of the stream is passed on by each write. *)
SendStreamDataEnded(n, bytes, fin) ==
  /\ wire' = Longer(n, bytes)
  /\ finished' = finished \cup {n}

SendStreamData(n, bytes, fin) ==
  /\ wire' = Longer(n, bytes)
  /\ finished' = IF fin THEN finished \cup {n} ELSE finished

(* Mutated: a uni event is answered only with the end of its stream. *)
AnswerAtEnd(s, bytes, fin) ==
  \/ (session[s] \notin sessions \/ (s \in UniStreams /\ ~fin)) /\ UNCHANGED sendVars
  \/ /\ session[s] \in sessions /\ s \in UniStreams /\ fin
     /\ SendStreamData(nextUni, Preface(session[s]) \o bytes, fin)
     /\ nextUni' = nextUni + 4
  \/ /\ session[s] \in sessions /\ s \in BidiStreams
     /\ SendStreamData(s, bytes, fin)
     /\ UNCHANGED nextUni

(* _handle_webtransport_stream: dropped without an accepted session; a     *)
(* unidirectional event is answered on a new server stream, a              *)
(* bidirectional one on its own stream.                                    *)
Answer(s, bytes, fin) ==
  \/ session[s] \notin sessions /\ UNCHANGED sendVars
  \/ /\ session[s] \in sessions /\ s \in UniStreams
     /\ SendStreamData(nextUni, Preface(session[s]) \o bytes, fin)
     /\ nextUni' = nextUni + 4
  \/ /\ session[s] \in sessions /\ s \in BidiStreams
     /\ SendStreamData(s, bytes, fin)
     /\ UNCHANGED nextUni

(* WebTransportStreamDataReceived: any part of what is on the way, with    *)
(* the end of the stream when that is what follows it.                     *)
HandleStream(s) ==
  /\ alive /\ http /\ session[s] # None /\ s \notin over /\ ~reset[s]
  /\ \E n \in told[s] .. sent[s], fin \in {FALSE, ended[s]} :
        /\ fin => n = sent[s]
        /\ n > told[s] \/ fin
        /\ told' = [told EXCEPT ![s] = n]
        /\ over' = IF fin THEN over \cup {s} ELSE over
        /\ Answer(s, Chunk(s, told[s], n), fin)
  /\ UNCHANGED <<clientVars, alive, announced, early, http, sessions, datagram>>

(* StreamReset is only logged: the echo of the stream is never ended. *)
HandleReset(s) ==
  /\ alive /\ http /\ s \notin over /\ reset[s]
  /\ over' = over \cup {s}
  /\ UNCHANGED <<clientVars, alive, announced, told, early, serverVars, datagram>>

Next ==
  \/ Client \/ Negotiate \/ Terminate
  \/ \E q \in Requests : HandleHeaders(q)
  \/ \E s \in Streams : HandleStream(s) \/ HandleReset(s)
  \/ \E d \in Datagrams : \/ \E q \in Requests : SendDatagram(d, q)
                          \/ HandleDatagram(d)

(* What has reached the host is handed to the protocol. *)
Fairness == \A s \in Streams : WF_vars(HandleStream(s))

Spec == Init /\ [][Next]_vars /\ Fairness

-----------------------------------------------------------------------------
(* What arrives on a stream before its session is accepted is dropped, so  *)
(* the contract is that of the streams that wait for it.                   *)
Orderly == BidiStreams \ Eager

Contract == INSTANCE EchoContract
  WITH Streams <- Orderly,
       sent <- [s \in Orderly |-> sent[s]],
       ended <- [s \in Orderly |-> ended[s]],
       echo <- [s \in Orderly |-> OnWire(s)],
       answered <- [s \in Orderly |-> s \in finished]

(* Bidirectional streams keep the contract (README.md:9-12): the echo has  *)
(* no gap and is ended only behind the last byte of an ended stream.       *)
ImplementsBidiEcho == Contract!Spec

ServerUniStreams == DOMAIN wire \ BidiStreams

(* Where the bytes of s are on server stream n. *)
PlacesOn(n, s) == {k \in DOMAIN wire[n] : wire[n][k][1] = s}

(* Split over as many server streams as it may be, what arrives on a       *)
(* client uni stream behind the 200 of its session comes back exactly      *)
(* once, earlier bytes on earlier streams, behind the preface of the       *)
(* session; what arrived before it, and nothing else, is missing for good. *)
UniBytesComeBackOnce ==
  \A s \in {u \in UniStreams : session[u] # None /\ status[session[u]] = "200"} :
    /\ \A p \in early[s] + 1 .. told[s] :
         \E n \in ServerUniStreams : \E k \in PlacesOn(n, s) : wire[n][k][2] = p
    /\ \A n \in ServerUniStreams : \A k \in PlacesOn(n, s) :
         wire[n][k][2] \in early[s] + 1 .. told[s]
    /\ \A n, m \in ServerUniStreams : \A i \in PlacesOn(n, s), j \in PlacesOn(m, s) :
         (n < m \/ (n = m /\ i < j)) => wire[n][i][2] < wire[m][j][2]
    /\ \A n \in ServerUniStreams :
         PlacesOn(n, s) # {} => wire[n][1] = <<session[s], 0>>

(* Nothing that a client sends in a session that was refused is echoed,    *)
(* neither streams nor datagrams (l.248-249, l.268-269).                   *)
RefusedSessionsAreSilent ==
  \A q \in Requests : status[q] = "404" =>
    /\ \A n \in DOMAIN wire, s \in Streams :
          session[s] = q => PlacesOn(n, s) = {}
    /\ \A d \in Datagrams : datagram[d].session = q => datagram[d].at # "down"

(* The echo of a uni stream is one server stream that holds all of it.     *)
UniEchoIsWhole ==
  \A n \in ServerUniStreams \cap finished : \E s \in UniStreams :
    ended[s] /\ wire[n] = Preface(session[s]) \o Payload(s, sent[s])

(* An ended bidirectional stream is echoed to its end while the connection *)
(* lives.                                                                  *)
EveryBidiStreamEchoed ==
  \A s \in Orderly :
    ended[s] ~> ~alive \/ s \in finished
===============================================================================
