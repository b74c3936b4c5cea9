------------------------------ MODULE QuicheEcho ------------------------------
(***************************************************************************)
(* One connection of the tokio-quiche echo server                          *)
(* (src/bin/tokio_quiche_wt_echo.rs).                                      *)
(*                                                                         *)
(* Three parties share it.  The client opens sessions and streams.  The    *)
(* H3 driver and the QUIC worker (both library code) report what arrives   *)
(* on the unbounded channel `events` and run the closures that arrive on   *)
(* the unbounded channel `commands`.  The application's event loop,        *)
(* serve_connection, turns one into the other: it never sees what became   *)
(* of a command.                                                           *)
(***************************************************************************)
EXTENDS EchoClient

CONSTANTS
  MaxEvents,    \* bound: the length of the channel `events`
  Short,        \* streams whose echoes quiche may take in part only
  Grease        \* whether the server runs with --grease

ASSUME QuicheAssumption ==
  /\ MaxEvents \in Nat \ {0}
  /\ Short \subseteq Streams
  /\ Grease \in BOOLEAN

VARIABLES
  \* the driver and the worker
  alive,        \* the QUIC connection is open
  announced,    \* request streams whose headers have been reported
  told,         \* told[s]: how many bytes of s have been reported
  over,         \* streams whose end or reset has been reported
  gone,         \* streams whose closing has been reported
  events,       \* the channel from the driver to the application
  commands,     \* the channel from the application to the worker
  wire,         \* wire[n]: what quiche took to send on stream n
  finished,     \* streams that quiche sends a FIN on
  \* the application
  running,      \* serve_connection has not returned
  sessions,     \* sessions it holds open
  uniPayloads,  \* what it has received of client uni streams without FIN
  nextUni,      \* the ID of the next server uni stream
  echoedOn      \* echoedOn[s]: the server uni stream that answers s

driverVars == <<announced, told, over, gone>>
sendVars   == <<wire, finished>>
appVars    == <<running, sessions, uniPayloads, nextUni, echoedOn>>
vars == <<clientVars, alive, driverVars, events, commands, sendVars, appVars>>

Event == [kind : {"headers", "data", "gone", "shutdown"},
          stream : Requests \cup Streams \cup {None},
          bytes : Seq(Unit), fin : BOOLEAN]
Command == [stream : Nat, bytes : Seq(Unit), fin : BOOLEAN]

EventOf(kind, n) == [kind |-> kind, stream |-> n, bytes |-> <<>>, fin |-> FALSE]

TypeOK ==
  /\ ClientTypeOK
  /\ alive \in BOOLEAN
  /\ announced \subseteq Requests
  /\ told \in [Streams -> Nat] /\ \A s \in Streams : told[s] <= sent[s]
  /\ over \subseteq Streams
  /\ gone \subseteq Streams \cup Requests
  /\ events \in Seq(Event)
  /\ commands \in Seq(Command)
  /\ \A n \in DOMAIN wire : n \in Nat /\ wire[n] \in Seq(Unit)
  /\ finished \subseteq DOMAIN wire
  /\ running \in BOOLEAN
  /\ sessions \subseteq Requests
  /\ DOMAIN uniPayloads \subseteq UniStreams
  /\ \A s \in DOMAIN uniPayloads :
        uniPayloads[s] \in [session : Requests, bytes : Seq(Unit)]
  /\ nextUni \in Nat
  /\ echoedOn \in [UniStreams -> Nat \cup {None}]

-----------------------------------------------------------------------------
With(f, n, v) == [m \in DOMAIN f \cup {n} |-> IF m = n THEN v ELSE f[m]]
Without(f, n) == [m \in DOMAIN f \ {n} |-> f[m]]

(* quiche itself opens a uni stream when it greases: the first one after   *)
(* the control and QPACK streams 3, 7 and 11, and it ends it at once.      *)
GreaseStreams == IF Grease THEN {15} ELSE {}

Init ==
  /\ ClientInit
  /\ alive = TRUE
  /\ announced = {}
  /\ told = [s \in Streams |-> 0]
  /\ over = {}
  /\ gone = {}
  /\ events = <<>>
  /\ commands = <<>>
  /\ wire = [n \in GreaseStreams |-> <<>>]
  /\ finished = GreaseStreams
  /\ running = TRUE
  /\ sessions = {}
  /\ uniPayloads = <<>>
  /\ nextUni = FirstServerUniStream
  /\ echoedOn = [s \in UniStreams |-> None]

-----------------------------------------------------------------------------
Client ==
  /\ alive /\ ClientStep
  /\ UNCHANGED <<alive, driverVars, events, commands, sendVars, appVars>>

(* The driver reports a request, whose headers it may hold back.           *)
ReportHeaders(q) ==
  /\ alive /\ asked[q] # "" /\ q \notin announced \cup gone
  /\ Len(events) < MaxEvents
  /\ announced' = announced \cup {q}
  /\ events' = Append(events, EventOf("headers", q))
  /\ UNCHANGED <<clientVars, alive, told, over, gone, commands, sendVars, appVars>>

(* The driver reports some or all of the bytes that s still holds, with    *)
(* the end of s when that is what follows them.                            *)
ReportData(s) ==
  /\ alive /\ s \notin over /\ ~reset[s] /\ Len(events) < MaxEvents
  /\ \E n \in told[s] .. sent[s], fin \in {FALSE, ended[s]} :
        /\ fin => n = sent[s]
        /\ n > told[s] \/ fin
        /\ told' = [told EXCEPT ![s] = n]
        /\ over' = IF fin THEN over \cup {s} ELSE over
        /\ events' = Append(events, [kind |-> "data", stream |-> s,
                                     bytes |-> Chunk(s, told[s], n), fin |-> fin])
  /\ UNCHANGED <<clientVars, alive, announced, gone, commands, sendVars, appVars>>

(* It reports that n is reset or closed, once nothing else will follow. *)
ReportGone(n) ==
  /\ alive /\ n \notin gone /\ Len(events) < MaxEvents
  /\ n \in cancelled \cup over \cup {s \in Streams : reset[s]}
  /\ gone' = gone \cup {n}
  /\ over' = over \cup ({n} \cap Streams)
  /\ events' = Append(events, EventOf("gone", n))
  /\ UNCHANGED <<clientVars, alive, announced, told, commands, sendVars, appVars>>

(* The connection is closed by the client or times out. *)
Shutdown ==
  /\ alive
  /\ alive' = FALSE
  /\ events' = Append(events, EventOf("shutdown", None))
  /\ UNCHANGED <<clientVars, driverVars, commands, sendVars, appVars>>

EchoStream(s) == IF s \in BidiStreams THEN s ELSE echoedOn[s]

(* What quiche takes of k bytes for stream n: all of them while the peer's *)
(* windows, its stream limit and the congestion window leave room, any     *)
(* part otherwise.                                                         *)
Taken(n, k) == IF \E s \in Short : EchoStream(s) = n THEN 0 .. k ELSE {k}

OnWire(n) == IF n \in DOMAIN wire THEN wire[n] ELSE <<>>

(* The worker runs the oldest closure of queue_stream_send.  What quiche   *)
(* does not take is only logged; the FIN goes with the last byte, and an   *)
(* ended stream takes nothing.                                             *)
Execute ==
  /\ alive /\ commands # <<>>
  /\ LET c == Head(commands)
     IN IF c.stream \in finished THEN UNCHANGED sendVars
        ELSE \E n \in Taken(c.stream, Len(c.bytes)) :
          /\ wire' = With(wire, c.stream, OnWire(c.stream) \o SubSeq(c.bytes, 1, n))
          /\ finished' = IF c.fin /\ n = Len(c.bytes)
                         THEN finished \cup {c.stream} ELSE finished
  /\ commands' = Tail(commands)
  /\ UNCHANGED <<clientVars, alive, driverVars, events, appVars>>

Library ==
  \/ \E q \in Requests : ReportHeaders(q)
  \/ \E s \in Streams : ReportData(s)
  \/ \E n \in Streams \cup Requests : ReportGone(n)
  \/ Shutdown \/ Execute

-----------------------------------------------------------------------------
(* The application: one action per event that serve_connection handles.    *)
Received(kind) == running /\ events # <<>> /\ Head(events).kind = kind

(* Mutated: the newest command overtakes the others. *)
QueueStreamSendInFront(n, bytes, fin) ==
  commands' = <<[stream |-> n, bytes |-> bytes, fin |-> fin]>> \o commands

QueueStreamSend(n, bytes, fin) ==
  commands' = Append(commands, [stream |-> n, bytes |-> bytes, fin |-> fin])

(* handle_headers: a 200 for a health check or a session, a 404 for the    *)
(* rest.                                                                   *)
Respond(q) ==
  /\ status' = [status EXCEPT ![q] = IF asked[q] = "other" THEN "404" ELSE "200"]
  /\ sessions' = IF asked[q] = "webtransport" THEN sessions \cup {q} ELSE sessions
  /\ UNCHANGED <<alive, running, uniPayloads>>

(* serve_connection returns and drops what it holds. *)
Leave == running' = FALSE /\ sessions' = {} /\ uniPayloads' = <<>>

(* The response, or the body of a health check, cannot be queued: its      *)
(* stream is gone.  The error leaves serve_connection, and the driver      *)
(* closes the connection without it.                                       *)
FailToRespond(q) ==
  /\ q \in gone
  /\ Leave
  /\ alive' = FALSE
  /\ \/ UNCHANGED status
     \/ asked[q] = "health" /\ status' = [status EXCEPT ![q] = "200"]

OnHeaders ==
  /\ Received("headers")
  /\ LET q == Head(events).stream IN Respond(q) \/ FailToRespond(q)
  /\ events' = Tail(events)
  /\ UNCHANGED <<asked, session, sent, ended, reset, cancelled, driverVars,
                 commands, sendVars, nextUni, echoedOn>>

(* Mutated: the FIN is not passed on. *)
OnBidiDataUnended ==
  /\ Received("data") /\ Head(events).stream \in BidiStreams
  /\ LET e == Head(events) IN QueueStreamSend(e.stream, e.bytes, FALSE)
  /\ events' = Tail(events)
  /\ UNCHANGED <<clientVars, alive, driverVars, sendVars, appVars>>

OnBidiData ==
  /\ Received("data") /\ Head(events).stream \in BidiStreams
  /\ LET e == Head(events) IN QueueStreamSend(e.stream, e.bytes, e.fin)
  /\ events' = Tail(events)
  /\ UNCHANGED <<clientVars, alive, driverVars, sendVars, appVars>>

(* Mutated: the newest chunk is put in front. *)
CollectedInFront(e) ==
  IF e.stream \in DOMAIN uniPayloads
  THEN [uniPayloads[e.stream] EXCEPT !.bytes = e.bytes \o @]
  ELSE [session |-> session[e.stream], bytes |-> e.bytes]

(* The payload received so far, with what the event adds to it. *)
Collected(e) ==
  IF e.stream \in DOMAIN uniPayloads
  THEN [uniPayloads[e.stream] EXCEPT !.bytes = @ \o e.bytes]
  ELSE [session |-> session[e.stream], bytes |-> e.bytes]

(* Mutated: the next server stream ID is not advanced. *)
OnUniDataSameStream ==
  /\ Received("data") /\ Head(events).stream \in UniStreams
  /\ LET e     == Head(events)
         entry == Collected(e)
     IN IF e.fin
        THEN /\ uniPayloads' = Without(uniPayloads, e.stream)
             /\ QueueStreamSend(nextUni, Preface(entry.session) \o entry.bytes, TRUE)
             /\ echoedOn' = [echoedOn EXCEPT ![e.stream] = nextUni]
             /\ nextUni' = nextUni
        ELSE /\ uniPayloads' = With(uniPayloads, e.stream, entry)
             /\ UNCHANGED <<commands, echoedOn, nextUni>>
  /\ events' = Tail(events)
  /\ UNCHANGED <<clientVars, alive, driverVars, sendVars, running, sessions>>

OnUniData ==
  /\ Received("data") /\ Head(events).stream \in UniStreams
  /\ LET e     == Head(events)
         entry == Collected(e)
     IN IF e.fin
        THEN /\ uniPayloads' = Without(uniPayloads, e.stream)
             /\ QueueStreamSend(nextUni, Preface(entry.session) \o entry.bytes, TRUE)
             /\ echoedOn' = [echoedOn EXCEPT ![e.stream] = nextUni]
             /\ nextUni' = nextUni + 4
        ELSE /\ uniPayloads' = With(uniPayloads, e.stream, entry)
             /\ UNCHANGED <<commands, echoedOn, nextUni>>
  /\ events' = Tail(events)
  /\ UNCHANGED <<clientVars, alive, driverVars, sendVars, running, sessions>>

(* Mutated: what a reset stream had sent is kept. *)
OnGoneKeepsPayload ==
  /\ Received("gone")
  /\ sessions' = sessions \ {Head(events).stream}
  /\ events' = Tail(events)
  /\ UNCHANGED <<clientVars, alive, driverVars, commands, sendVars, running,
                 uniPayloads, nextUni, echoedOn>>

(* ResetStream and StreamClosed are handled alike. *)
OnGone ==
  /\ Received("gone")
  /\ sessions' = sessions \ {Head(events).stream}
  /\ uniPayloads' = Without(uniPayloads, Head(events).stream)
  /\ events' = Tail(events)
  /\ UNCHANGED <<clientVars, alive, driverVars, commands, sendVars, running,
                 nextUni, echoedOn>>

(* ConnectionShutdown or ConnectionError. *)
OnShutdown ==
  /\ Received("shutdown")
  /\ Leave
  /\ events' = Tail(events)
  /\ UNCHANGED <<clientVars, alive, driverVars, commands, sendVars,
                 nextUni, echoedOn>>

Application == OnHeaders \/ OnBidiData \/ OnUniData \/ OnGone \/ OnShutdown

Next == Client \/ Library \/ Application

(* The driver, the worker and the application are tasks that tokio keeps   *)
(* scheduling.  The client owes nothing.                                   *)
Fairness ==
  /\ \A s \in Streams : WF_vars(ReportData(s))
  /\ WF_vars(Execute)
  /\ WF_vars(Application)

Spec == Init /\ [][Next]_vars /\ Fairness

-----------------------------------------------------------------------------
(* The payload that came back for s, and whether its echo was ended. *)
Echoed(s) ==
  LET w == OnWire(EchoStream(s))
  IN  IF s \in BidiStreams \/ w = <<>> THEN w ELSE Tail(w)
Answered(s) == EchoStream(s) \in finished

Contract == INSTANCE EchoContract
  WITH Streams  <- Streams \ Short,
       sent     <- [s \in Streams \ Short |-> sent[s]],
       ended    <- [s \in Streams \ Short |-> ended[s]],
       echo     <- [s \in Streams \ Short |-> Echoed(s)],
       answered <- [s \in Streams \ Short |-> Answered(s)]

(* README.md:159-164 promises an echo of every stream.  Through the two    *)
(* channels the server keeps the contract on every stream whose writes     *)
(* quiche takes, whatever it does to the others: no gap, no reordering,    *)
(* and a FIN only behind the last byte.                                    *)
ImplementsEcho == Contract!Spec

(* What came back on any stream is the beginning of what the client wrote  *)
(* on it (queue_stream_send, l.433-460).                                   *)
EchoIsPrefix ==
  \A s \in Streams : Len(Echoed(s)) <= sent[s]
                     /\ Echoed(s) = Payload(s, Len(Echoed(s)))

(* Whatever quiche refuses, an echo holds only bytes of its own stream,    *)
(* each at most once and in the order they were written.                   *)
NothingInvented ==
  \A s \in Streams : LET e == Echoed(s) IN
    \A i \in 1 .. Len(e) : /\ e[i][1] = s
                            /\ e[i][2] <= told[s]
                            /\ i > 1 => e[i - 1][2] < e[i][2]

(* Every server uni stream answers one client uni stream, in the session   *)
(* that the client opened that stream in.                                  *)
UniEchoInItsSession ==
  \A n \in DOMAIN wire : n \in BidiStreams \/ wire[n] = <<>> \/
    \E s \in UniStreams :
      /\ \A u \in UniStreams : echoedOn[u] = n <=> u = s
      /\ wire[n][1] = <<session[s], 0>>

(* Once it has caught up with its events, the application holds nothing of *)
(* a session or a stream that is reset or closed (l.268-277).              *)
NoLeak ==
  running /\ events = <<>> =>
    (sessions \cup DOMAIN uniPayloads) \cap gone = {}

(* A stream that the client ends is echoed to its end, unless the          *)
(* connection goes away or quiche takes its echo in part.                  *)
EveryStreamEchoed ==
  \A s \in Streams \ Short :
    ended[s] ~> \/ Answered(s) /\ Echoed(s) = Payload(s, sent[s])
               \/ ~alive
===============================================================================
