------------------------------- MODULE QuinnEcho -------------------------------
(***************************************************************************)
(* One connection of the quinn echo server (src/main.rs).                  *)
(*                                                                         *)
(* handle_incoming lets H3 accept one request, answers it, and drops H3;   *)
(* from then on every stream that the client opens is a task of its own on *)
(* the raw QUIC connection.  A task awaits data, the client's flow control *)
(* windows and its stream limit, and tokio interleaves the tasks at every  *)
(* await.  A read error drops the task's send half, which quinn ends with  *)
(* a FIN.                                                                  *)
(***************************************************************************)
EXTENDS EchoClient, FiniteSets

CONSTANTS
  Datagrams,    \* the datagrams the client may send, each once
  Buffer,       \* the bytes of one read (16 KiB in the code)
  SendWindow,   \* the units the client lets be unread on a stream
  RecvWindow,   \* the bytes the server lets be unread on a stream
  UniLimit      \* the server uni streams the client lets be open

(* quinn hands out bidirectional streams in the order of their IDs, so the *)
(* request that H3 accepts is the client's first.                          *)
First == CHOOSE q \in Requests : \A r \in Requests : q <= r

ASSUME QuinnAssumption ==
  /\ Requests # {} /\ \A s \in BidiStreams : First < s
  /\ Buffer \in Nat \ {0} /\ SendWindow \in Nat \ {0}
  /\ RecvWindow \in Nat \ {0} /\ UniLimit \in Nat \ {0}

VARIABLES
  outlives,     \* the connection outlives H3: nobody closes it when H3 is dropped
  alive,        \* the QUIC connection is open
  phase,        \* how far handle_incoming is
  lost,         \* uni streams that H3 took and dropped with itself
  task,         \* task[s]: what the task of stream s awaits
  taken,        \* taken[s]: how many payload bytes of s it has read
  held,         \* held[s]: the units it has read and not written
  echoedOn,     \* echoedOn[s]: the server uni stream that answers s
  nextUni,      \* the ID of the next server uni stream
  wire,         \* wire[n]: what the server has written on stream n
  finished,     \* streams that it sends a FIN on
  seen,         \* seen[n]: how much of wire[n] the client has read
  datagram      \* datagram[d]: where the datagram d is

taskVars == <<task, taken, held>>
sendVars == <<echoedOn, nextUni, wire, finished>>
vars == <<clientVars, outlives, alive, phase, lost, taskVars, sendVars, seen, datagram>>

Phases == {"accepting", "resolving", "serving", "failed"}
Waits == {"none", "prefix", "reading", "opening", "writing", "done"}

TypeOK ==
  /\ ClientTypeOK
  /\ outlives \in BOOLEAN /\ alive \in BOOLEAN
  /\ phase \in Phases
  /\ lost \subseteq UniStreams
  /\ task \in [Streams -> Waits]
  /\ taken \in [Streams -> Nat] /\ \A s \in Streams : taken[s] <= sent[s]
  /\ held \in [Streams -> Seq(Unit)]
  /\ echoedOn \in [UniStreams -> Nat \cup {None}]
  /\ nextUni \in Nat
  /\ \A n \in DOMAIN wire : n \in Nat /\ wire[n] \in Seq(Unit)
  /\ finished \subseteq Nat
  /\ DOMAIN seen = DOMAIN wire
  /\ \A n \in DOMAIN seen : seen[n] \in 0 .. Len(wire[n])
  /\ datagram \in [Datagrams -> {"client", "up", "down"}]

-----------------------------------------------------------------------------
OnWire(n) == IF n \in DOMAIN wire THEN wire[n] ELSE <<>>

(* Bidirectional streams can be written as soon as they are open.          *)
Init ==
  /\ ClientInit
  /\ outlives \in BOOLEAN /\ alive = TRUE
  /\ phase = "accepting"
  /\ lost = {}
  /\ task = [s \in Streams |-> "none"]
  /\ taken = [s \in Streams |-> 0]
  /\ held = [s \in Streams |-> <<>>]
  /\ echoedOn = [s \in UniStreams |-> None]
  /\ nextUni = FirstServerUniStream
  /\ wire = [s \in BidiStreams |-> <<>>]
  /\ finished = {}
  /\ seen = [s \in BidiStreams |-> 0]
  /\ datagram = [d \in Datagrams |-> "client"]

-----------------------------------------------------------------------------
(* The client uses its stream IDs in order, and writes while the server's  *)
(* receive window leaves room.  Bound: a later request is for a session,   *)
(* since the server never learns what it is.                               *)
Client ==
  /\ alive /\ ClientStep
  /\ asked'[First] # ""
  /\ \A q \in Requests \ {First} : asked'[q] \in {"", "webtransport"}
  /\ \A s \in Streams : sent'[s] - taken[s] <= RecvWindow
  /\ UNCHANGED <<alive, phase, lost, taskVars, sendVars, seen, datagram>>

(* It reads what has come back on n, which moves the window on.            *)
ClientReads(n) ==
  /\ alive /\ n \in DOMAIN wire /\ seen[n] < Len(wire[n])
  /\ seen' = [seen EXCEPT ![n] = Len(wire[n])]
  /\ UNCHANGED <<clientVars, alive, phase, lost, taskVars, sendVars, datagram>>

(* A datagram that is lost, or finds a buffer full, stays "up" for good.   *)
SendDatagram(d) ==
  /\ alive /\ datagram[d] = "client" /\ asked[First] = "webtransport"
  /\ datagram' = [datagram EXCEPT ![d] = "up"]
  /\ UNCHANGED <<clientVars, alive, phase, lost, taskVars, sendVars, seen>>

(* The idle timeout, the client's close or the server's ctrl-c: all tasks  *)
(* end with their next await.                                              *)
Close ==
  /\ alive
  /\ alive' = FALSE
  /\ UNCHANGED <<clientVars, phase, lost, taskVars, sendVars, seen, datagram>>

-----------------------------------------------------------------------------
(* accept_webtransport_connect.  While H3 waits for the request it also    *)
(* takes the uni streams that arrive, to sort out its own.                 *)
H3TakesUni(s) ==
  /\ alive /\ phase = "accepting"
  /\ session[s] # None /\ s \notin lost
  /\ lost' = lost \cup {s}
  /\ UNCHANGED <<clientVars, alive, phase, taskVars, sendVars, seen, datagram>>

(* Every error leaves handle_incoming; its handles of the connection were  *)
(* the last ones, and quinn closes the connection behind them.             *)
GiveUp == phase' = "failed" /\ alive' = FALSE

(* No request within 20 seconds. *)
TimeOut ==
  /\ alive /\ phase = "accepting"
  /\ GiveUp
  /\ UNCHANGED <<clientVars, lost, taskVars, sendVars, seen, datagram>>

AcceptRequest ==
  /\ alive /\ phase = "accepting" /\ asked[First] # ""
  /\ phase' = "resolving"
  /\ UNCHANGED <<clientVars, alive, lost, taskVars, sendVars, seen, datagram>>

(* A CONNECT below /wt is answered, and H3 dropped behind the answer, its  *)
(* control stream with it (l.189-191).  What becomes of the connection is  *)
(* not in this code.  The library may close it with H3, and a client may   *)
(* when the control stream ends: at some later time, which is a Close, or  *)
(* at once.  If neither does, the connection outlives H3.                  *)
Establish ==
  /\ alive /\ phase = "resolving" /\ asked[First] = "webtransport"
  /\ status' = [status EXCEPT ![First] = "200"]
  /\ phase' = "serving" /\ alive' = outlives
  /\ UNCHANGED <<asked, session, sent, ended, reset, cancelled, lost,
                 taskVars, sendVars, seen, datagram>>

(* Anything else is answered with a 404 that the close may overtake. *)
Refuse ==
  /\ alive /\ phase = "resolving" /\ asked[First] # "webtransport"
  /\ status' \in {status, [status EXCEPT ![First] = "404"]}
  /\ GiveUp
  /\ UNCHANGED <<asked, session, sent, ended, reset, cancelled, lost,
                 taskVars, sendVars, seen, datagram>>

(* The client abandons the request before it is read or answered. *)
ResolveFails ==
  /\ alive /\ phase = "resolving" /\ First \in cancelled
  /\ GiveUp
  /\ UNCHANGED <<clientVars, lost, taskVars, sendVars, seen, datagram>>

Handshake == AcceptRequest \/ TimeOut \/ Establish \/ Refuse \/ ResolveFails

-----------------------------------------------------------------------------
(* Mutated: the tasks start before the request is judged. *)
ServingEarly == alive /\ phase \in {"resolving", "serving"}

Serving == alive /\ phase = "serving"

(* hold_connect_stream ends with the client's half, and so does the other. *)
ConnectEnds ==
  /\ Serving /\ First \in cancelled /\ First \notin finished
  /\ finished' = finished \cup {First}
  /\ UNCHANGED <<clientVars, alive, phase, lost, taskVars, echoedOn, nextUni,
                 wire, seen, datagram>>

(* A later request is a bidirectional stream of the wrong type: its task   *)
(* bails out, and the request gets a FIN and no response.                  *)
LaterRequest(q) ==
  /\ Serving /\ q # First /\ asked[q] # "" /\ q \notin finished
  /\ finished' = finished \cup {q}
  /\ UNCHANGED <<clientVars, alive, phase, lost, taskVars, echoedOn, nextUni,
                 wire, seen, datagram>>

(* echo_datagrams, which asks no datagram for its session. *)
EchoDatagram(d) ==
  /\ Serving /\ datagram[d] = "up"
  /\ datagram' = [datagram EXCEPT ![d] = "down"]
  /\ UNCHANGED <<clientVars, alive, phase, lost, taskVars, sendVars, seen>>

(* accept_bidi_streams and accept_uni_streams: one task per stream, not    *)
(* asked for its session.                                                  *)
AcceptStream(s) ==
  /\ Serving /\ task[s] = "none" /\ session[s] # None /\ s \notin lost
  /\ task' = [task EXCEPT ![s] = "prefix"]
  /\ UNCHANGED <<clientVars, alive, phase, lost, taken, held, sendVars, seen,
                 datagram>>

-----------------------------------------------------------------------------
(* The task has read s up to its n-th byte.  What a bidirectional task has *)
(* read it writes before it reads again; a unidirectional one collects.    *)
Read(s, n) ==
  /\ taken' = [taken EXCEPT ![s] = n]
  /\ held' = [held EXCEPT ![s] = @ \o Chunk(s, taken[s], n)]
  /\ task' = [task EXCEPT ![s] = IF s \in BidiStreams /\ n > taken[s]
                                 THEN "writing" ELSE "reading"]
  /\ UNCHANGED wire

Available(s) == taken[s] .. (IF sent[s] < taken[s] + Buffer
                             THEN sent[s] ELSE taken[s] + Buffer)

(* The preface is complete, in however many chunks, and the last of them   *)
(* may hold the first of the payload.                                      *)
ReadPrefix(s) ==
  /\ Serving /\ task[s] = "prefix"
  /\ \E n \in Available(s) : Read(s, n)
  /\ UNCHANGED <<clientVars, alive, phase, lost, echoedOn, nextUni, finished,
                 seen, datagram>>

(* Mutated: a task reads on while its write waits. *)
ReadPayloadAhead(s) ==
  /\ Serving /\ task[s] \in {"reading", "writing"} /\ ~ended[s]
  /\ \E n \in Available(s) \ {taken[s]} : Read(s, n)
  /\ UNCHANGED <<clientVars, alive, phase, lost, echoedOn, nextUni, finished,
                 seen, datagram>>

ReadPayload(s) ==
  /\ Serving /\ task[s] = "reading"
  /\ \E n \in Available(s) \ {taken[s]} : Read(s, n)
  /\ UNCHANGED <<clientVars, alive, phase, lost, echoedOn, nextUni, finished,
                 seen, datagram>>

(* The end of the stream: a bidirectional echo is ended, a unidirectional  *)
(* one begins.                                                             *)
ReadEnd(s) ==
  /\ Serving /\ task[s] = "reading" /\ ended[s] /\ taken[s] = sent[s]
  /\ \/ /\ s \in BidiStreams
        /\ task' = [task EXCEPT ![s] = "done"]
        /\ finished' = finished \cup {s}
     \/ /\ s \in UniStreams
        /\ task' = [task EXCEPT ![s] = "opening"]
        /\ UNCHANGED finished
  /\ UNCHANGED <<clientVars, alive, phase, lost, taken, held, echoedOn,
                 nextUni, wire, seen, datagram>>

(* A reset is met by a read only, never by a write that waits.  The task   *)
(* drops its halves of the stream, and what it holds.                      *)
ReadFails(s) ==
  /\ Serving /\ task[s] \in {"prefix", "reading"} /\ reset[s]
  /\ task' = [task EXCEPT ![s] = "done"]
  /\ held' = [held EXCEPT ![s] = <<>>]
  /\ finished' = finished \cup ({s} \cap BidiStreams)
  /\ UNCHANGED <<clientVars, alive, phase, lost, taken, echoedOn, nextUni,
                 wire, seen, datagram>>

EchoStream(s) == IF s \in BidiStreams THEN s ELSE echoedOn[s]

(* Server uni streams that count against the client's limit. *)
OpenUniStreams ==
  {n \in DOMAIN wire \ BidiStreams : n \notin finished \/ seen[n] < Len(wire[n])}

(* Mutated: the preface names the session that was accepted. *)
AcceptedPreface(s) == Preface(First)

(* The preface names the session that the client named, whichever it was.  *)
UniPreface(s) == Preface(session[s])

(* open_uni waits for the client's stream limit. *)
OpenUni(s) ==
  /\ Serving /\ task[s] = "opening" /\ Cardinality(OpenUniStreams) < UniLimit
  /\ echoedOn' = [echoedOn EXCEPT ![s] = nextUni]
  /\ nextUni' = nextUni + 4
  /\ wire' = [n \in DOMAIN wire \cup {nextUni} |-> OnWire(n)]
  /\ seen' = [n \in DOMAIN wire' |-> IF n = nextUni THEN 0 ELSE seen[n]]
  /\ held' = [held EXCEPT ![s] = UniPreface(s) \o @]
  /\ task' = [task EXCEPT ![s] = "writing"]
  /\ UNCHANGED <<clientVars, alive, phase, lost, taken, finished, datagram>>

(* Mutated: write instead of write_all; what is not taken is forgotten. *)
WriteOnce(s) ==
  /\ Serving /\ task[s] = "writing"
  /\ LET n == EchoStream(s)
         room == SendWindow - (Len(wire[n]) - seen[n])
     IN \E k \in 1 .. Len(held[s]) :
          /\ k <= room
          /\ wire' = [wire EXCEPT ![n] = @ \o SubSeq(held[s], 1, k)]
          /\ held' = [held EXCEPT ![s] = <<>>]
          /\ IF s \in BidiStreams
             THEN task' = [task EXCEPT ![s] = "reading"] /\ UNCHANGED finished
             ELSE /\ task' = [task EXCEPT ![s] = "done"]
                  /\ finished' = finished \cup {n}
  /\ UNCHANGED <<clientVars, alive, phase, lost, taken, echoedOn, nextUni,
                 seen, datagram>>

(* Mutated: nothing is written before the window has room for all of it. *)
WriteAllAtOnce(s) ==
  /\ Serving /\ task[s] = "writing"
  /\ LET n == EchoStream(s)
     IN /\ Len(held[s]) <= SendWindow - (Len(wire[n]) - seen[n])
        /\ wire' = [wire EXCEPT ![n] = @ \o held[s]]
        /\ IF s \in BidiStreams
           THEN task' = [task EXCEPT ![s] = "reading"] /\ UNCHANGED finished
           ELSE /\ task' = [task EXCEPT ![s] = "done"]
                /\ finished' = finished \cup {n}
  /\ held' = [held EXCEPT ![s] = <<>>]
  /\ UNCHANGED <<clientVars, alive, phase, lost, taken, echoedOn, nextUni,
                 seen, datagram>>

(* Part of a write_all: as much as the client's window leaves room for, or *)
(* less.  Behind the last unit a bidirectional task reads on, and a        *)
(* unidirectional echo is ended.                                           *)
WriteAll(s) ==
  /\ Serving /\ task[s] = "writing"
  /\ LET n == EchoStream(s)
         room == SendWindow - (Len(wire[n]) - seen[n])
     IN \E k \in 1 .. Len(held[s]) :
          /\ k <= room
          /\ wire' = [wire EXCEPT ![n] = @ \o SubSeq(held[s], 1, k)]
          /\ held' = [held EXCEPT ![s] = SubSeq(@, k + 1, Len(@))]
          /\ \/ k < Len(held[s]) /\ UNCHANGED <<task, finished>>
             \/ /\ k = Len(held[s]) /\ s \in BidiStreams
                /\ task' = [task EXCEPT ![s] = "reading"]
                /\ UNCHANGED finished
             \/ /\ k = Len(held[s]) /\ s \in UniStreams
                /\ task' = [task EXCEPT ![s] = "done"]
                /\ finished' = finished \cup {n}
  /\ UNCHANGED <<clientVars, alive, phase, lost, taken, echoedOn, nextUni,
                 seen, datagram>>

Task(s) ==
  \/ AcceptStream(s) \/ ReadPrefix(s) \/ ReadPayload(s) \/ ReadEnd(s)
  \/ ReadFails(s) \/ OpenUni(s) \/ WriteAll(s)

Next ==
  /\ \/ Client \/ Close
     \/ \E n \in DOMAIN wire : ClientReads(n)
     \/ \E d \in Datagrams : SendDatagram(d) \/ EchoDatagram(d)
     \/ Handshake \/ ConnectEnds \/ \E q \in Requests : LaterRequest(q)
     \/ \E s \in Streams : Task(s)
     \/ \E s \in UniStreams : H3TakesUni(s)
  /\ UNCHANGED outlives

(* tokio keeps scheduling a task that can go on, and the wait for the      *)
(* first request is timed.  Of the client only one thing is asked, that it *)
(* reads what has come back: the test page awaits every echo               *)
(* (public/index.html, the echo tests).                                    *)
Fairness ==
  /\ WF_vars(Handshake /\ UNCHANGED outlives)
  /\ WF_vars((\E s \in Streams : Task(s)) /\ UNCHANGED outlives)
  /\ WF_vars((\E n \in DOMAIN wire : ClientReads(n)) /\ UNCHANGED outlives)

Spec == Init /\ [][Next]_vars /\ Fairness

-----------------------------------------------------------------------------
Echoed(s) ==
  LET w == OnWire(EchoStream(s))
  IN  IF s \in BidiStreams \/ w = <<>> THEN w ELSE Tail(w)
Whole(s) == ended[s] /\ Echoed(s) = Payload(s, sent[s])

(* A reset bidirectional stream is not counted as answered, though a FIN   *)
(* is what the client gets: the one way for an echo to look complete that  *)
(* is not (the send half that l.330 drops).                                *)
Contract == INSTANCE EchoContract
  WITH echo <- [s \in Streams |-> Echoed(s)],
       answered <- [s \in Streams |-> EchoStream(s) \in finished
                                      /\ ~(s \in BidiStreams /\ reset[s])]

(* Whatever the client's windows and the interleaving of the tasks, what   *)
(* comes back on a stream is what was written on it, without a gap and in  *)
(* order, and a FIN stands behind the last byte only (write_all and finish *)
(* of echo_bidi_stream and echo_uni_stream).                               *)
ImplementsEcho == Contract!Spec

(* Every server uni stream answers one client uni stream, and names the    *)
(* session which that stream had named (l.394-397).                        *)
UniEchoInItsSession ==
  \A n \in DOMAIN wire \ BidiStreams :
    \E s \in UniStreams :
      /\ \A u \in UniStreams : echoedOn[u] = n <=> u = s
      /\ wire[n] # <<>> => wire[n][1] = <<session[s], 0>>

(* Nothing is echoed on a connection whose CONNECT was not accepted,       *)
(* whatever the client sent ahead of the answer (handle_incoming).         *)
NothingBeforeAccept ==
  status[First] # "200" =>
    /\ \A n \in DOMAIN wire : wire[n] = <<>>
    /\ finished = {}
    /\ \A d \in Datagrams : datagram[d] # "down"

(* A client that does not read its echoes is held back: of a bidirectional *)
(* stream the server holds one read at most, on any stream one window is   *)
(* unread (the write_all that l.323-336 await before they read on).        *)
BackPressure ==
  /\ \A s \in BidiStreams : Len(held[s]) <= Buffer
  /\ \A n \in DOMAIN wire : Len(wire[n]) - seen[n] <= SendWindow

(* On a connection that outlives H3 a client that reads its echoes gets    *)
(* all of them, even if it writes everything before, and however few uni   *)
(* streams it lets the server open (echo_bidi_stream, echo_uni_stream).    *)
(* The exception is a uni stream that H3 has taken.  Of a connection that  *)
(* is closed it says nothing: Chrome rejects ready on those of this server *)
(* (README.md:7, RESULTS.md:59), and then there is no echo to wait for.    *)
EveryStreamEchoed ==
  \A s \in Streams :
    outlives /\ ended[s] ~> \/ EchoStream(s) \in finished /\ Whole(s)
                            \/ s \in lost
                            \/ ~alive
===============================================================================
