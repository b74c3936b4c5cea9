--------------------------- MODULE QuicheEchoProofs ---------------------------
(***************************************************************************)
(* Proofs about QuicheEcho, for any number of sessions and streams, any    *)
(* length of the two channels and any part of a write that quiche takes.   *)
(***************************************************************************)
EXTENDS QuicheEcho, SequenceTheorems, TLAPS

IsData(e) == e.kind = "data"
Held == sessions \cup DOMAIN uniPayloads

(* The client: only an open stream is written or ended.                    *)
OpenInv == \A s \in Streams : sent[s] > 0 \/ ended[s] => session[s] \in Requests

(* The channel to the application.  A data event belongs to an open stream *)
(* and, on a unidirectional one, comes before its echo.                    *)
EventOK(e) ==
  /\ e.kind = "headers" => e.stream \in Requests
  /\ IsData(e) =>
       /\ e.stream \in Streams /\ session[e.stream] \in Requests
       /\ e.fin => e.stream \in over
       /\ e.stream \in UniStreams => echoedOn[e.stream] = None
EventsInv == \A i \in 1 .. Len(events) : EventOK(events[i])

(* Behind the end of a stream comes none of its bytes.                     *)
FinLast ==
  \A i, j \in 1 .. Len(events) :
    i < j /\ IsData(events[i]) /\ IsData(events[j]) /\ events[i].stream = events[j].stream
      => ~events[i].fin

(* What is gone is announced as gone, behind everything else about it and  *)
(* while the application still holds something of it.                      *)
GoneLast ==
  \A i \in 1 .. Len(events) :
    events[i].kind \in {"headers", "data"} /\ events[i].stream \in gone =>
      \E j \in 1 .. Len(events) :
        i < j /\ events[j].kind = "gone" /\ events[j].stream = events[i].stream
HeldInv ==
  running => \A x \in Held \cap gone :
    \E j \in 1 .. Len(events) : events[j].kind = "gone" /\ events[j].stream = x
GoneInv == gone \cap Streams \subseteq over

(* The server's own streams: each answers one stream of the client.        *)
PayloadInv ==
  \A s \in DOMAIN uniPayloads : /\ uniPayloads[s].session = session[s]
                                /\ echoedOn[s] = None
EchoInv ==
  /\ nextUni % 4 = 3
  /\ \A s \in UniStreams : echoedOn[s] # None =>
       s \in over /\ echoedOn[s] < nextUni /\ session[s] \in Requests
       /\ echoedOn[s] % 4 = 3
  /\ \A s, u \in UniStreams :
       echoedOn[s] = echoedOn[u] /\ echoedOn[s] # None => s = u

(* What is sent on stream n begins with the session of the stream it       *)
(* answers.                                                                *)
Answers(n, bytes) ==
  \E s \in UniStreams : echoedOn[s] = n /\ bytes # <<>> /\ bytes[1] = <<session[s], 0>>
CommandOK(c) == c.stream \in BidiStreams \/ Answers(c.stream, c.bytes)
CommandsInv == \A i \in 1 .. Len(commands) : CommandOK(commands[i])
WireInv == \A n \in DOMAIN wire : n \in BidiStreams \/ wire[n] = <<>> \/ Answers(n, wire[n])

IInv ==
  /\ TypeOK /\ OpenInv /\ EventsInv /\ FinLast /\ GoneLast /\ HeldInv /\ GoneInv
  /\ PayloadInv /\ EchoInv /\ CommandsInv /\ WireInv

-----------------------------------------------------------------------------
LEMMA NoneIsNone ==
  /\ None \notin Nat
  /\ None \notin Requests
  /\ \A s \in Streams : s \in Nat
  /\ \A n \in BidiStreams : n % 4 = 0
  /\ BidiStreams \cap UniStreams = {}
BY ClientAssumption DEF None, Streams

(* A chunk is a sequence of bytes of its stream.                           *)
LEMMA ChunkType ==
  ASSUME NEW s \in Streams, NEW a \in Nat, NEW b \in Nat, a <= b, b <= MaxBytes[s]
  PROVE  Chunk(s, a, b) \in Seq(Unit)
<1>1. MaxBytes[s] \in Nat
  BY ClientAssumption DEF Streams
<1>2. \A i \in 1 .. b - a : <<s, a + i>> \in Unit
  <2> SUFFICES ASSUME NEW i \in 1 .. b - a PROVE <<s, a + i>> \in Unit
    OBVIOUS
  <2>1. a + i \in 1 .. MaxBytes[s]
    BY <1>1
  <2>2. <<s, a + i>> \in {s} \X (1 .. MaxBytes[s])
    BY <2>1
  <2> QED
    BY <2>2 DEF Unit
<1>3. b - a \in Nat
  OBVIOUS
<1> QED
  BY <1>2, <1>3, IsASeq DEF Chunk

LEMMA EventTypes ==
  /\ \A q \in Requests : EventOf("headers", q) \in Event
  /\ \A n \in Streams \cup Requests : EventOf("gone", n) \in Event
  /\ EventOf("shutdown", None) \in Event
<1>1. <<>> \in Seq(Unit)
  BY EmptySeq
<1> QED
  BY <1>1 DEF EventOf, Event

(* What a channel holds when something was put in at its end, and when its *)
(* first element was taken.                                                *)
LEMMA PutIn ==
  ASSUME NEW S, NEW q \in Seq(S), NEW x \in S
  PROVE  /\ Append(q, x) \in Seq(S)
         /\ Len(q) \in Nat /\ Len(Append(q, x)) = Len(q) + 1
         /\ \A i \in 1 .. Len(q) : Append(q, x)[i] = q[i]
         /\ Append(q, x)[Len(q) + 1] = x
BY AppendProperties, LenProperties

LEMMA TakenOut ==
  ASSUME NEW S, NEW q \in Seq(S), q # <<>>
  PROVE  /\ Head(q) \in S /\ Tail(q) \in Seq(S) /\ Head(q) = q[1]
         /\ Len(q) \in Nat /\ Len(q) >= 1 /\ Len(Tail(q)) = Len(q) - 1
         /\ \A i \in 1 .. Len(Tail(q)) : Tail(q)[i] = q[i + 1]
BY HeadTailProperties, LenProperties, EmptySeq

(* A stream that is open stays in its session.                             *)
LEMMA ClientKeeps ==
  ASSUME ClientTypeOK, OpenInv, ClientStep
  PROVE  /\ ClientTypeOK' /\ OpenInv'
         /\ \A s \in Streams : session[s] \in Requests => session'[s] = session[s]
         /\ \A s \in Streams : sent'[s] >= sent[s]
<1> DEFINE Kept == \A s \in Streams : session[s] \in Requests => session'[s] = session[s]
           More == \A s \in Streams : sent'[s] >= sent[s]
<1>t. sent \in [Streams -> Nat]
  BY DEF ClientTypeOK
<1>0. UNCHANGED <<session, sent>> => Kept /\ More
  BY <1>t
<1>1. ASSUME NEW q \in Requests, NEW kind \in Kinds, Request(q, kind)
      PROVE  ClientTypeOK' /\ OpenInv' /\ Kept /\ More
  <2>1. ClientTypeOK' /\ UNCHANGED <<session, sent, ended>>
    BY <1>1 DEF Request, ClientTypeOK
  <2> QED
    BY <1>0, <2>1 DEF OpenInv
<1>2. ASSUME NEW q \in Requests, Cancel(q)
      PROVE  ClientTypeOK' /\ OpenInv' /\ Kept /\ More
  <2>1. ClientTypeOK' /\ UNCHANGED <<session, sent, ended>>
    BY <1>2 DEF Cancel, ClientTypeOK
  <2> QED
    BY <1>0, <2>1 DEF OpenInv
<1>3. ASSUME NEW s \in Streams, NEW q \in Requests, Open(s, q)
      PROVE  ClientTypeOK' /\ OpenInv' /\ Kept /\ More
  <2>1. ClientTypeOK' /\ UNCHANGED sent
    BY <1>3 DEF Open, ClientTypeOK
  <2>2. OpenInv'
    BY <1>3, NoneIsNone DEF Open, OpenInv, ClientTypeOK
  <2>3. Kept
    BY <1>3, NoneIsNone DEF Open, ClientTypeOK
  <2> QED
    BY <1>t, <2>1, <2>2, <2>3
<1>4. ASSUME NEW s \in Streams, Write(s)
      PROVE  ClientTypeOK' /\ OpenInv' /\ Kept /\ More
  <2>1. MaxBytes[s] \in Nat
    BY ClientAssumption DEF Streams
  <2>2. \A u \in Streams : sent'[u] = IF u = s THEN sent[u] + 1 ELSE sent[u]
    BY <1>4, <1>t DEF Write
  <2>3. session[s] \in Requests
    BY <1>4, NoneIsNone DEF Write, Usable, ClientTypeOK
  <2>4. More
    BY <2>2, <1>t
  <2>5. ClientTypeOK'
    <3>1. sent' \in [Streams -> Nat]
      BY <1>4, <1>t DEF Write
    <3>2. \A u \in Streams : sent'[u] <= MaxBytes[u]
      <4> SUFFICES ASSUME NEW u \in Streams PROVE sent'[u] <= MaxBytes[u]
        OBVIOUS
      <4>1. MaxBytes[u] \in Nat
        BY ClientAssumption DEF Streams
      <4>2. sent[s] < MaxBytes[s]
        BY <1>4 DEF Write
      <4>3. sent[u] <= MaxBytes[u]
        BY DEF ClientTypeOK
      <4> QED
        BY <1>t, <2>1, <2>2, <4>1, <4>2, <4>3
    <3> QED
      BY <1>4, <3>1, <3>2 DEF Write, ClientTypeOK
  <2>6. OpenInv'
    BY <1>4, <2>2, <2>3 DEF Write, OpenInv
  <2>7. Kept
    BY <1>4 DEF Write
  <2> QED
    BY <2>4, <2>5, <2>6, <2>7
<1>5. ASSUME NEW s \in Streams, End(s)
      PROVE  ClientTypeOK' /\ OpenInv' /\ Kept /\ More
  <2>1. ClientTypeOK' /\ UNCHANGED <<session, sent>>
    BY <1>5 DEF End, ClientTypeOK
  <2>2. OpenInv'
    BY <1>5, NoneIsNone DEF End, Usable, OpenInv, ClientTypeOK
  <2> QED
    BY <1>0, <2>1, <2>2
<1>6. ASSUME NEW s \in Streams, Reset(s)
      PROVE  ClientTypeOK' /\ OpenInv' /\ Kept /\ More
  <2>1. ClientTypeOK' /\ UNCHANGED <<session, sent>>
    BY <1>6 DEF Reset, ClientTypeOK
  <2>2. OpenInv'
    BY <1>6, NoneIsNone DEF Reset, Usable, OpenInv, ClientTypeOK
  <2> QED
    BY <1>0, <2>1, <2>2
<1> HIDE DEF Kept, More
<1>7. ClientTypeOK' /\ OpenInv' /\ Kept /\ More
  BY <1>1, <1>2, <1>3, <1>4, <1>5, <1>6, Zenon DEF ClientStep
<1> QED
  BY <1>7 DEF Kept, More

-----------------------------------------------------------------------------
(* The channel to the application.                                         *)
LEMMA EventIn ==
  ASSUME events \in Seq(Event), NEW e \in Event, events' = Append(events, e),
         EventsInv, FinLast, GoneLast, HeldInv,
         UNCHANGED <<session, echoedOn, running, sessions, uniPayloads>>,
         over \subseteq over', EventOK(e)',
         IsData(e) => e.stream \notin over,
         e.kind \in {"headers", "data"} => e.stream \notin gone',
         \A x \in gone' : x \in gone \/ (e.kind = "gone" /\ e.stream = x)
  PROVE  EventsInv' /\ FinLast' /\ GoneLast' /\ HeldInv'
<1> DEFINE n == Len(events)
<1>1. /\ n \in Nat /\ Len(events') = n + 1
      /\ \A i \in 1 .. n : events'[i] = events[i]
      /\ events'[n + 1] = e
  BY PutIn
<1>2. \A i \in 1 .. n + 1 : (i \in 1 .. n /\ events'[i] = events[i]) \/ (i = n + 1 /\ events'[i] = e)
  BY <1>1
<1> HIDE DEF n
<1>3. EventsInv'
  <2> SUFFICES ASSUME NEW i \in 1 .. n + 1 PROVE EventOK(events[i])'
    BY <1>1 DEF EventsInv
  <2>1. CASE i = n + 1
    BY <2>1, <1>1 DEF EventOK, IsData
  <2>2. CASE i \in 1 .. n /\ events'[i] = events[i]
    <3>1. EventOK(events[i])
      BY <2>2 DEF EventsInv, n
    <3> QED
      BY <2>2, <3>1 DEF EventOK, IsData
  <2> QED
    BY <2>1, <2>2, <1>2
<1>4. FinLast'
  <2> SUFFICES ASSUME NEW i \in 1 .. n + 1, NEW j \in 1 .. n + 1, i < j,
                      IsData(events'[i]), IsData(events'[j]),
                      events'[i].stream = events'[j].stream,
                      events'[i].fin
               PROVE  FALSE
    BY <1>1 DEF FinLast, IsData
  <2>1. i \in 1 .. n /\ events'[i] = events[i]
    BY <1>1, <1>2
  <2>2. events[i].stream \in over
    BY <2>1 DEF EventsInv, EventOK, n
  <2>3. CASE j = n + 1
    BY <2>1, <2>2, <2>3, <1>1
  <2>4. CASE j \in 1 .. n /\ events'[j] = events[j]
    BY <2>1, <2>4 DEF FinLast, n
  <2> QED
    BY <1>2, <2>3, <2>4
<1>5. \A x : (\E j \in 1 .. n : events[j].kind = "gone" /\ events[j].stream = x)
             => \E j \in 1 .. n + 1 : events'[j].kind = "gone" /\ events'[j].stream = x
  BY <1>1
<1>6. \A x \in gone' \ gone : events'[n + 1].kind = "gone" /\ events'[n + 1].stream = x
  BY <1>1
<1>7. GoneLast'
  <2> SUFFICES ASSUME NEW i \in 1 .. n + 1, events'[i].kind \in {"headers", "data"},
                      events'[i].stream \in gone'
               PROVE  \E j \in 1 .. n + 1 : i < j /\ events'[j].kind = "gone"
                                            /\ events'[j].stream = events'[i].stream
    BY <1>1 DEF GoneLast
  <2>1. i \in 1 .. n /\ events'[i] = events[i]
    BY <1>1, <1>2
  <2>2. CASE events[i].stream \in gone
    <3>1. \E j \in 1 .. n : i < j /\ events[j].kind = "gone"
                            /\ events[j].stream = events[i].stream
      BY <2>1, <2>2 DEF GoneLast, n
    <3> QED
      BY <3>1, <2>1, <1>1
  <2>3. CASE events[i].stream \notin gone
    <3>1. n + 1 \in 1 .. n + 1 /\ i < n + 1
      BY <1>1, <2>1
    <3> QED
      BY <3>1, <2>1, <2>3, <1>6
  <2> QED
    BY <2>2, <2>3
<1>8. HeldInv'
  <2> SUFFICES ASSUME running, NEW x \in Held \cap gone'
               PROVE  \E j \in 1 .. n + 1 : events'[j].kind = "gone" /\ events'[j].stream = x
    BY <1>1 DEF HeldInv, Held
  <2>1. CASE x \in gone
    BY <2>1, <1>5 DEF HeldInv, n
  <2>2. CASE x \notin gone
    BY <2>2, <1>1, <1>6
  <2> QED
    BY <2>1, <2>2
<1> QED
  BY <1>3, <1>4, <1>7, <1>8

LEMMA EventOut ==
  ASSUME events \in Seq(Event), events # <<>>, events' = Tail(events),
         EventsInv, FinLast, GoneLast, HeldInv,
         UNCHANGED <<session, over, gone>>,
         \A s \in UniStreams :
           \/ echoedOn'[s] = echoedOn[s]
           \/ IsData(Head(events)) /\ Head(events).fin /\ Head(events).stream = s,
         running' => running /\ \A x \in Held' :
           \/ x \in Held
           \/ Head(events).kind \in {"headers", "data"} /\ Head(events).stream = x,
         running' /\ Head(events).kind = "gone" => Head(events).stream \notin Held'
  PROVE  EventsInv' /\ FinLast' /\ GoneLast' /\ HeldInv'
<1> DEFINE n == Len(events)
           m == Len(events')
<1>1. /\ Head(events) = events[1] /\ n \in Nat /\ n >= 1 /\ m = n - 1
      /\ \A i \in 1 .. m : events'[i] = events[i + 1]
  BY TakenOut
<1>2. \A i \in 1 .. m : i + 1 \in 1 .. n /\ 1 < i + 1
  BY <1>1
<1>3. \A j \in 1 .. n : 1 < j => j - 1 \in 1 .. m /\ events'[j - 1] = events[j]
  BY <1>1
<1> HIDE DEF n, m
<1>4. EventsInv'
  <2> SUFFICES ASSUME NEW i \in 1 .. m PROVE EventOK(events[i])'
    BY DEF EventsInv, m
  <2> DEFINE e == events[i + 1]
  <2>1. events'[i] = e /\ EventOK(e)
    BY <1>1, <1>2 DEF EventsInv, n
  <2>2. 1 \in 1 .. n /\ i + 1 \in 1 .. n /\ 1 < i + 1
    BY <1>1, <1>2
  <2>3. IsData(events[1]) /\ events[1].fin /\ IsData(e) => events[1].stream # e.stream
    BY <2>2 DEF FinLast, n
  <2> HIDE DEF e
  <2> QED
    BY <2>1, <2>3, <1>1 DEF EventOK, IsData
<1>5. FinLast'
  <2> SUFFICES ASSUME NEW i \in 1 .. m, NEW j \in 1 .. m, i < j,
                      IsData(events'[i]), IsData(events'[j]),
                      events'[i].stream = events'[j].stream
               PROVE  ~events'[i].fin
    BY DEF FinLast, IsData, m
  <2>1. i + 1 \in 1 .. n /\ j + 1 \in 1 .. n /\ i + 1 < j + 1
    BY <1>1, <1>2
  <2>2. events'[i] = events[i + 1] /\ events'[j] = events[j + 1]
    BY <1>1
  <2> QED
    BY <2>1, <2>2 DEF FinLast, n
<1>6. GoneLast'
  <2> SUFFICES ASSUME NEW i \in 1 .. m, events'[i].kind \in {"headers", "data"},
                      events'[i].stream \in gone
               PROVE  \E j \in 1 .. m : i < j /\ events'[j].kind = "gone"
                                        /\ events'[j].stream = events'[i].stream
    BY DEF GoneLast, m
  <2>1. i + 1 \in 1 .. n /\ events'[i] = events[i + 1]
    BY <1>1, <1>2
  <2>2. PICK j \in 1 .. n : i + 1 < j /\ events[j].kind = "gone"
                            /\ events[j].stream = events[i + 1].stream
    BY <2>1 DEF GoneLast, n
  <2>3. 1 < j /\ i < j - 1
    BY <2>2
  <2>4. j - 1 \in 1 .. m /\ events'[j - 1] = events[j]
    BY <2>3, <1>3
  <2> QED
    BY <2>1, <2>2, <2>3, <2>4
<1>7. HeldInv'
  <2> SUFFICES ASSUME running', NEW x \in Held' \cap gone
               PROVE  \E j \in 1 .. m : events'[j].kind = "gone" /\ events'[j].stream = x
    BY DEF HeldInv, m
  <2>1. ASSUME NEW j \in 1 .. n, 1 < j, events[j].kind = "gone", events[j].stream = x
        PROVE  \E k \in 1 .. m : events'[k].kind = "gone" /\ events'[k].stream = x
    BY <2>1, <1>3
  <2>2. CASE x \in Held
    <3>1. PICK j \in 1 .. n : events[j].kind = "gone" /\ events[j].stream = x
      BY <2>2 DEF HeldInv, n
    <3>2. j # 1
      BY <3>1, <1>1
    <3>3. 1 < j
      BY <3>2
    <3> QED
      BY <2>1, <3>1, <3>3
  <2>3. CASE Head(events).kind \in {"headers", "data"} /\ Head(events).stream = x
    <3>1. 1 \in 1 .. n
      BY <1>1
    <3>2. \E j \in 1 .. n : 1 < j /\ events[j].kind = "gone" /\ events[j].stream = x
      BY <2>3, <3>1, <1>1 DEF GoneLast, n
    <3> QED
      BY <3>2, <2>1
  <2> QED
    BY <2>2, <2>3
<1> QED
  BY <1>4, <1>5, <1>6, <1>7

(* What was said of the streams of the server stays true as sessions and   *)
(* echoes are added.                                                       *)
LEMMA AnswersStay ==
  ASSUME echoedOn \in [UniStreams -> Nat \cup {None}], EchoInv,
         \A s \in Streams : session[s] \in Requests => session'[s] = session[s],
         \A s \in UniStreams : echoedOn[s] # None => echoedOn'[s] = echoedOn[s],
         NEW n \in Nat, NEW bytes, Answers(n, bytes)
  PROVE  Answers(n, bytes)'
<1>1. PICK s \in UniStreams : echoedOn[s] = n /\ bytes # <<>> /\ bytes[1] = <<session[s], 0>>
  BY DEF Answers
<1>2. echoedOn[s] # None
  BY <1>1, NoneIsNone
<1>3. session[s] \in Requests
  BY <1>2 DEF EchoInv
<1> QED
  BY <1>1, <1>2, <1>3 DEF Answers, Streams

-----------------------------------------------------------------------------
LEMMA InitInv == Init => IInv
<1> SUFFICES ASSUME Init PROVE IInv
  OBVIOUS
<1>a. /\ session = [s \in Streams |-> None] /\ sent = [s \in Streams |-> 0]
      /\ ended = [s \in Streams |-> FALSE] /\ reset = [s \in Streams |-> FALSE]
      /\ asked = [q \in Requests |-> ""] /\ status = [q \in Requests |-> ""]
      /\ cancelled = {}
  BY DEF Init, ClientInit
<1>b. /\ alive = TRUE /\ announced = {} /\ told = [s \in Streams |-> 0] /\ over = {}
      /\ gone = {} /\ running = TRUE /\ sessions = {}
  BY DEF Init
<1>c. /\ events = <<>> /\ commands = <<>> /\ uniPayloads = <<>>
      /\ wire = [n \in GreaseStreams |-> <<>>] /\ finished = GreaseStreams
  BY DEF Init
<1>d. nextUni = FirstServerUniStream /\ echoedOn = [s \in UniStreams |-> None]
  BY DEF Init
<1>1. ClientTypeOK
  <2>1. \A s \in Streams : MaxBytes[s] \in Nat
    BY ClientAssumption DEF Streams
  <2>2. sent \in [Streams -> Nat]
    BY <1>a
  <2>3. \A s \in Streams : sent[s] <= MaxBytes[s]
    <3> SUFFICES ASSUME NEW s \in Streams PROVE sent[s] <= MaxBytes[s]
      OBVIOUS
    <3>1. sent[s] = 0
      BY <1>a
    <3> QED
      BY <2>1, <3>1
  <2> QED
    BY <1>a, <2>2, <2>3 DEF ClientTypeOK
<1>2. Len(events) = 0 /\ Len(commands) = 0 /\ DOMAIN uniPayloads = {}
  BY <1>c
<1>3. TypeOK
  <2>1. \A s \in Streams : sent[s] = 0
    BY <1>a
  <2>2. told \in [Streams -> Nat] /\ \A s \in Streams : told[s] = 0
    BY <1>b
  <2>3. \A s \in Streams : told[s] <= sent[s]
    BY <2>1, <2>2
  <2>4. events \in Seq(Event) /\ commands \in Seq(Command) /\ <<>> \in Seq(Unit)
    BY <1>c, EmptySeq
  <2>5. \A n \in DOMAIN wire : n \in Nat /\ wire[n] \in Seq(Unit)
    <3>1. \A n \in GreaseStreams : n \in Nat
      BY DEF GreaseStreams
    <3> QED
      BY <1>c, <2>4, <3>1
  <2>6. finished \subseteq DOMAIN wire
    BY <1>c
  <2>7. nextUni \in Nat
    BY <1>d DEF FirstServerUniStream
  <2>8. echoedOn \in [UniStreams -> Nat \cup {None}]
    BY <1>d
  <2> QED
    BY <1>1, <1>2, <1>b, <2>2, <2>3, <2>4, <2>5, <2>6, <2>7, <2>8 DEF TypeOK
<1>4. OpenInv
  <2>1. \A s \in Streams : sent[s] = 0 /\ ended[s] = FALSE
    BY <1>a
  <2> QED
    BY <2>1 DEF OpenInv
<1>5. EventsInv /\ FinLast /\ GoneLast /\ CommandsInv
  <2>1. 1 .. Len(events) = {} /\ 1 .. Len(commands) = {}
    BY <1>2
  <2> QED
    BY <2>1 DEF EventsInv, FinLast, GoneLast, CommandsInv
<1>6. HeldInv /\ GoneInv /\ PayloadInv
  BY <1>2, <1>b DEF HeldInv, GoneInv, PayloadInv
<1>7. EchoInv
  <2>1. \A s \in UniStreams : echoedOn[s] = None
    BY <1>d
  <2>2. nextUni % 4 = 3
    BY <1>d DEF FirstServerUniStream
  <2> QED
    BY <2>1, <2>2 DEF EchoInv
<1>8. WireInv
  BY <1>c DEF WireInv
<1> QED
  BY <1>3, <1>4, <1>5, <1>6, <1>7, <1>8 DEF IInv

LEMMA ClientInv == IInv /\ Client => IInv'
<1> SUFFICES ASSUME IInv, Client PROVE IInv'
  OBVIOUS
<1>1. /\ ClientTypeOK' /\ OpenInv'
      /\ \A s \in Streams : session[s] \in Requests => session'[s] = session[s]
      /\ \A s \in Streams : sent'[s] >= sent[s]
  BY ClientKeeps DEF IInv, TypeOK, Client
<1>2. UNCHANGED <<alive, driverVars, events, commands, sendVars, appVars>>
  BY DEF Client
<1> USE <1>2 DEF driverVars, sendVars, appVars
<1>3. TypeOK'
  <2>1. told \in [Streams -> Nat] /\ sent \in [Streams -> Nat] /\ sent' \in [Streams -> Nat]
    BY <1>1 DEF IInv, TypeOK, ClientTypeOK
  <2>2. \A s \in Streams : told[s] <= sent[s]
    BY DEF IInv, TypeOK
  <2>3. \A s \in Streams : told'[s] <= sent'[s]
    BY <1>1, <2>1, <2>2
  <2> QED
    BY <1>1, <2>3 DEF IInv, TypeOK
<1>4. EventsInv'
  BY <1>1 DEF IInv, EventsInv, EventOK, IsData
<1>5. FinLast' /\ GoneLast' /\ HeldInv' /\ GoneInv'
  BY DEF IInv, FinLast, GoneLast, HeldInv, Held, GoneInv
<1>6. PayloadInv'
  <2>1. \A s \in DOMAIN uniPayloads : s \in Streams /\ uniPayloads[s].session \in Requests
    BY DEF IInv, TypeOK, Streams
  <2> QED
    BY <1>1, <2>1 DEF IInv, PayloadInv
<1>7. EchoInv'
  BY <1>1 DEF IInv, EchoInv, Streams
<1>8. \A n \in Nat : \A bytes : Answers(n, bytes) => Answers(n, bytes)'
  <2>1. echoedOn \in [UniStreams -> Nat \cup {None}]
    BY DEF IInv, TypeOK
  <2> QED
    BY <1>1, <2>1, AnswersStay DEF IInv
<1>9. CommandsInv'
  <2>1. \A i \in 1 .. Len(commands) : commands[i].stream \in Nat
    <3>1. commands \in Seq(Command)
      BY DEF IInv, TypeOK
    <3>2. \A i \in 1 .. Len(commands) : commands[i] \in Command
      BY <3>1, ElementOfSeq
    <3> QED
      BY <3>2 DEF Command
  <2> QED
    BY <1>8, <2>1 DEF IInv, CommandsInv, CommandOK
<1>10. WireInv'
  BY <1>8 DEF IInv, TypeOK, WireInv
<1> QED
  BY <1>1, <1>3, <1>4, <1>5, <1>6, <1>7, <1>9, <1>10 DEF IInv

-----------------------------------------------------------------------------
(* The library.                                                            *)
LEMMA ReportHeadersInv ==
  ASSUME IInv, NEW q \in Requests, ReportHeaders(q)
  PROVE  IInv'
<1> DEFINE e == EventOf("headers", q)
<1>1. /\ events' = Append(events, e) /\ q \notin gone /\ announced' = announced \cup {q}
      /\ UNCHANGED <<clientVars, alive, told, over, gone, commands, sendVars, appVars>>
  BY DEF ReportHeaders
<1>2. e \in Event /\ e.kind = "headers" /\ e.stream = q
  BY EventTypes DEF EventOf
<1>3. EventOK(e)'
  BY <1>2 DEF EventOK, IsData
<1> HIDE DEF e
<1> USE <1>1 DEF clientVars, sendVars, appVars
<1>4. TypeOK'
  <2>1. events' \in Seq(Event)
    BY <1>2, PutIn DEF IInv, TypeOK
  <2> QED
    BY <2>1 DEF IInv, TypeOK, ClientTypeOK
<1>5. EventsInv' /\ FinLast' /\ GoneLast' /\ HeldInv'
  BY <1>2, <1>3, EventIn DEF IInv, TypeOK, IsData
<1>6. OpenInv' /\ GoneInv' /\ PayloadInv' /\ EchoInv'
  BY DEF IInv, OpenInv, GoneInv, PayloadInv, EchoInv
<1>7. CommandsInv' /\ WireInv'
  BY DEF IInv, CommandsInv, CommandOK, WireInv, Answers
<1> QED
  BY <1>4, <1>5, <1>6, <1>7 DEF IInv

LEMMA ReportDataInv ==
  ASSUME IInv, NEW s \in Streams, ReportData(s)
  PROVE  IInv'
<1>1. PICK n \in told[s] .. sent[s], fin \in {FALSE, ended[s]} :
        /\ fin => n = sent[s]
        /\ n > told[s] \/ fin
        /\ told' = [told EXCEPT ![s] = n]
        /\ over' = IF fin THEN over \cup {s} ELSE over
        /\ events' = Append(events, [kind |-> "data", stream |-> s,
                                     bytes |-> Chunk(s, told[s], n), fin |-> fin])
  BY DEF ReportData
<1>2. s \notin over /\ UNCHANGED <<clientVars, alive, announced, gone, commands, sendVars, appVars>>
  BY DEF ReportData
<1>3. told[s] \in Nat /\ sent[s] \in Nat /\ told[s] <= sent[s] /\ sent[s] <= MaxBytes[s]
  BY DEF IInv, TypeOK, ClientTypeOK
<1>4. fin \in BOOLEAN /\ n \in Nat /\ told[s] <= n /\ n <= sent[s] /\ n <= MaxBytes[s]
  <2>1. MaxBytes[s] \in Nat
    BY ClientAssumption DEF Streams
  <2>2. fin \in BOOLEAN
    BY DEF IInv, TypeOK, ClientTypeOK
  <2> QED
    BY <1>3, <2>1, <2>2
<1>5. session[s] \in Requests
  <2>1. n > told[s] \/ fin
    BY <1>1
  <2>2. CASE n > told[s]
    BY <2>2, <1>3, <1>4 DEF IInv, OpenInv
  <2>3. CASE fin
    BY <2>3, <1>1 DEF IInv, OpenInv
  <2> QED
    BY <2>1, <2>2, <2>3
<1>6. PICK e \in Event : /\ events' = Append(events, e)
                         /\ e.kind = "data" /\ e.stream = s /\ e.fin = fin
  <2> DEFINE new == [kind |-> "data", stream |-> s, bytes |-> Chunk(s, told[s], n), fin |-> fin]
  <2>1. Chunk(s, told[s], n) \in Seq(Unit)
    BY <1>3, <1>4, ChunkType
  <2>2. new \in Event
    BY <2>1, <1>4 DEF Event
  <2>3. events' = Append(events, new)
    BY <1>1
  <2>4. new.kind = "data" /\ new.stream = s /\ new.fin = fin
    OBVIOUS
  <2> HIDE DEF new
  <2> QED
    BY <2>2, <2>3, <2>4
<1> USE <1>2 DEF clientVars, sendVars, appVars
<1>8. over \subseteq over' /\ (fin => s \in over') /\ over' \subseteq over \cup {s}
  BY <1>1, <1>4
<1>9. EventOK(e)'
  <2>1. s \in UniStreams => echoedOn[s] = None
    BY DEF IInv, EchoInv
  <2> QED
    BY <1>5, <1>6, <1>8, <2>1 DEF EventOK, IsData
<1>10. TypeOK'
  <2>1. events' \in Seq(Event)
    BY <1>6, PutIn DEF IInv, TypeOK
  <2>2. told \in [Streams -> Nat] /\ \A u \in Streams : told[u] <= sent[u]
    BY DEF IInv, TypeOK
  <2>3. told' \in [Streams -> Nat] /\ \A u \in Streams : told'[u] <= sent[u]
    BY <1>1, <1>4, <2>2
  <2> QED
    BY <1>8, <2>1, <2>3 DEF IInv, TypeOK, ClientTypeOK
<1>11. s \notin gone
  BY DEF IInv, GoneInv
<1>12. EventsInv' /\ FinLast' /\ GoneLast' /\ HeldInv'
  BY <1>6, <1>8, <1>9, <1>11, EventIn DEF IInv, TypeOK, IsData
<1>13. OpenInv' /\ GoneInv' /\ PayloadInv' /\ EchoInv'
  BY <1>8 DEF IInv, OpenInv, GoneInv, PayloadInv, EchoInv
<1>14. CommandsInv' /\ WireInv'
  BY DEF IInv, CommandsInv, CommandOK, WireInv, Answers
<1> QED
  BY <1>10, <1>12, <1>13, <1>14 DEF IInv

LEMMA ReportGoneInv ==
  ASSUME IInv, NEW n \in Streams \cup Requests, ReportGone(n)
  PROVE  IInv'
<1> DEFINE e == EventOf("gone", n)
<1>1. /\ events' = Append(events, e)
      /\ gone' = gone \cup {n} /\ over' = over \cup ({n} \cap Streams)
      /\ UNCHANGED <<clientVars, alive, announced, told, commands, sendVars, appVars>>
  BY DEF ReportGone
<1>2. e \in Event /\ e.kind = "gone" /\ e.stream = n
  BY EventTypes DEF EventOf
<1>3. EventOK(e)'
  BY <1>2 DEF EventOK, IsData
<1> HIDE DEF e
<1> USE <1>1 DEF clientVars, sendVars, appVars
<1>4. TypeOK'
  <2>1. events' \in Seq(Event)
    BY <1>2, PutIn DEF IInv, TypeOK
  <2> QED
    BY <2>1 DEF IInv, TypeOK, ClientTypeOK
<1>5. EventsInv' /\ FinLast' /\ GoneLast' /\ HeldInv'
  BY <1>2, <1>3, EventIn DEF IInv, TypeOK, IsData
<1>6. OpenInv' /\ GoneInv' /\ PayloadInv' /\ EchoInv'
  BY DEF IInv, OpenInv, GoneInv, PayloadInv, EchoInv
<1>7. CommandsInv' /\ WireInv'
  BY DEF IInv, CommandsInv, CommandOK, WireInv, Answers
<1> QED
  BY <1>4, <1>5, <1>6, <1>7 DEF IInv

LEMMA ShutdownInv == IInv /\ Shutdown => IInv'
<1> SUFFICES ASSUME IInv, Shutdown PROVE IInv'
  OBVIOUS
<1> DEFINE e == EventOf("shutdown", None)
<1>1. /\ events' = Append(events, e) /\ alive' = FALSE
      /\ UNCHANGED <<clientVars, driverVars, commands, sendVars, appVars>>
  BY DEF Shutdown
<1>2. e \in Event /\ e.kind = "shutdown"
  BY EventTypes DEF EventOf
<1>3. EventOK(e)'
  BY <1>2 DEF EventOK, IsData
<1> HIDE DEF e
<1> USE <1>1 DEF clientVars, driverVars, sendVars, appVars
<1>4. TypeOK'
  <2>1. events' \in Seq(Event)
    BY <1>2, PutIn DEF IInv, TypeOK
  <2> QED
    BY <2>1 DEF IInv, TypeOK, ClientTypeOK
<1>5. EventsInv' /\ FinLast' /\ GoneLast' /\ HeldInv'
  BY <1>2, <1>3, EventIn DEF IInv, TypeOK, IsData
<1>6. OpenInv' /\ GoneInv' /\ PayloadInv' /\ EchoInv'
  BY DEF IInv, OpenInv, GoneInv, PayloadInv, EchoInv
<1>7. CommandsInv' /\ WireInv'
  BY DEF IInv, CommandsInv, CommandOK, WireInv, Answers
<1> QED
  BY <1>4, <1>5, <1>6, <1>7 DEF IInv

(* The worker extends what was sent on a stream or begins it.              *)
LEMMA TakenSome ==
  ASSUME NEW n, NEW bytes \in Seq(Unit), NEW k \in Taken(n, Len(bytes))
  PROVE  /\ k \in 0 .. Len(bytes) /\ SubSeq(bytes, 1, k) \in Seq(Unit)
         /\ Len(SubSeq(bytes, 1, k)) = k
         /\ \A i \in 1 .. k : SubSeq(bytes, 1, k)[i] = bytes[i]
<1>1. Len(bytes) \in Nat
  BY LenProperties
<1>2. k \in 0 .. Len(bytes)
  BY <1>1 DEF Taken
<1>3. \A i \in 1 .. k : bytes[i] \in Unit
  BY <1>1, <1>2, ElementOfSeq
<1>4. /\ SubSeq(bytes, 1, k) \in Seq(Unit)
      /\ Len(SubSeq(bytes, 1, k)) = IF 1 <= k THEN k - 1 + 1 ELSE 0
      /\ \A i \in 1 .. k - 1 + 1 : SubSeq(bytes, 1, k)[i] = bytes[1 + i - 1]
  <2>1. 1 \in Int /\ k \in Int
    BY <1>2
  <2> QED
    BY <1>3, <2>1, SubSeqProperties
<1>5. Len(SubSeq(bytes, 1, k)) = k
  BY <1>2, <1>4
<1>6. \A i \in 1 .. k : SubSeq(bytes, 1, k)[i] = bytes[i]
  <2> SUFFICES ASSUME NEW i \in 1 .. k PROVE SubSeq(bytes, 1, k)[i] = bytes[i]
    OBVIOUS
  <2>1. i \in 1 .. k - 1 + 1 /\ 1 + i - 1 = i
    BY <1>2
  <2> QED
    BY <1>4, <2>1
<1> QED
  BY <1>2, <1>4, <1>5, <1>6

LEMMA AnswersExtended ==
  ASSUME NEW n, NEW a \in Seq(Unit), NEW b \in Seq(Unit),
         a = <<>> \/ Answers(n, a), b = <<>> \/ Answers(n, b)
  PROVE  a \o b = <<>> \/ Answers(n, a \o b)
<1>1. /\ a \o b \in Seq(Unit) /\ Len(a) \in Nat /\ Len(b) \in Nat
      /\ Len(a \o b) = Len(a) + Len(b)
      /\ \A i \in 1 .. Len(a) + Len(b) : (a \o b)[i] = IF i <= Len(a) THEN a[i] ELSE b[i - Len(a)]
  BY ConcatProperties, LenProperties
<1>2. CASE a = <<>>
  BY <1>2, ConcatEmptySeq
<1>3. CASE a # <<>>
  <2>1. Len(a) >= 1
    BY <1>3, EmptySeq
  <2>2. 1 \in 1 .. Len(a) + Len(b) /\ 1 <= Len(a)
    BY <1>1, <2>1
  <2>3. (a \o b)[1] = a[1]
    BY <1>1, <2>2
  <2>4. a \o b # <<>>
    BY <1>1, <2>1, EmptySeq
  <2> QED
    BY <1>3, <2>3, <2>4 DEF Answers
<1> QED
  BY <1>2, <1>3

(* What the worker does to the streams of the server.                      *)
LEMMA ExecuteSends ==
  ASSUME TypeOK, Execute
  PROVE  LET c == Head(commands) IN
         \/ UNCHANGED <<wire, finished>>
         \/ \E k \in Taken(c.stream, Len(c.bytes)) :
              /\ DOMAIN wire' = DOMAIN wire \cup {c.stream}
              /\ \A m \in DOMAIN wire : m # c.stream => wire'[m] = wire[m]
              /\ wire'[c.stream] = OnWire(c.stream) \o SubSeq(c.bytes, 1, k)
              /\ finished' \subseteq finished \cup {c.stream}
BY DEF Execute, With, sendVars

LEMMA ExecuteInv == IInv /\ Execute => IInv'
<1> SUFFICES ASSUME IInv, Execute PROVE IInv'
  OBVIOUS
<1> DEFINE c == Head(commands)
           n == c.stream
<1>1. /\ commands # <<>> /\ commands' = Tail(commands)
      /\ UNCHANGED <<clientVars, alive, driverVars, events, appVars>>
  BY DEF Execute
<1> USE <1>1 DEF clientVars, driverVars, appVars
<1>2. commands \in Seq(Command)
  BY DEF IInv, TypeOK
<1>3. /\ c \in Command /\ Tail(commands) \in Seq(Command) /\ c = commands[1]
      /\ Len(commands) \in Nat /\ Len(commands) >= 1
      /\ Len(Tail(commands)) = Len(commands) - 1
      /\ \A i \in 1 .. Len(Tail(commands)) : Tail(commands)[i] = commands[i + 1]
  BY <1>2, TakenOut
<1>4. c.bytes \in Seq(Unit) /\ n \in Nat
  BY <1>3 DEF Command
<1>5. CommandOK(c)
  <2>1. 1 \in 1 .. Len(commands)
    BY <1>3
  <2> QED
    BY <2>1, <1>3 DEF IInv, CommandsInv
<1>6. \/ UNCHANGED <<wire, finished>>
      \/ \E k \in Taken(n, Len(c.bytes)) :
           /\ DOMAIN wire' = DOMAIN wire \cup {n}
           /\ \A m \in DOMAIN wire : m # n => wire'[m] = wire[m]
           /\ wire'[n] = OnWire(n) \o SubSeq(c.bytes, 1, k)
           /\ finished' \subseteq finished \cup {n}
  BY ExecuteSends DEF IInv
<1> HIDE DEF c, n
<1>7. /\ \A m \in DOMAIN wire' : m \in Nat /\ wire'[m] \in Seq(Unit)
      /\ finished' \subseteq DOMAIN wire'
      /\ WireInv'
  <2>1. /\ \A m \in DOMAIN wire : m \in Nat /\ wire[m] \in Seq(Unit)
        /\ finished \subseteq DOMAIN wire
    BY DEF IInv, TypeOK
  <2>2. \A m, b : Answers(m, b) => Answers(m, b)'
    BY DEF Answers
  <2>3. CASE UNCHANGED <<wire, finished>>
    BY <2>1, <2>2, <2>3 DEF IInv, WireInv
  <2>4. ASSUME NEW k \in Taken(n, Len(c.bytes)),
               DOMAIN wire' = DOMAIN wire \cup {n},
               \A m \in DOMAIN wire : m # n => wire'[m] = wire[m],
               wire'[n] = OnWire(n) \o SubSeq(c.bytes, 1, k),
               finished' \subseteq finished \cup {n}
        PROVE  /\ \A m \in DOMAIN wire' : m \in Nat /\ wire'[m] \in Seq(Unit)
               /\ finished' \subseteq DOMAIN wire'
               /\ WireInv'
    <3> DEFINE b == SubSeq(c.bytes, 1, k)
    <3>1. /\ k \in 0 .. Len(c.bytes) /\ b \in Seq(Unit) /\ Len(b) = k
          /\ \A i \in 1 .. k : b[i] = c.bytes[i]
      BY <1>4, TakenSome
    <3>2. OnWire(n) \in Seq(Unit) /\ (n \in BidiStreams \/ OnWire(n) = <<>> \/ Answers(n, OnWire(n)))
      BY <2>1, EmptySeq DEF OnWire, IInv, WireInv
    <3>3. n \in BidiStreams \/ b = <<>> \/ Answers(n, b)
      <4>1. CASE k = 0
        BY <4>1, <3>1, EmptySeq
      <4>2. CASE k # 0
        <5>1. 1 \in 1 .. k
          BY <3>1, <4>2
        <5>2. b[1] = c.bytes[1] /\ b # <<>>
          BY <3>1, <5>1, <4>2, EmptySeq
        <5> QED
          BY <5>2, <1>5 DEF CommandOK, Answers, n
      <4> QED
        BY <4>1, <4>2
    <3> HIDE DEF b
    <3>4. OnWire(n) \o b \in Seq(Unit)
      BY <3>1, <3>2, ConcatProperties
    <3>5. n \in BidiStreams \/ OnWire(n) \o b = <<>> \/ Answers(n, OnWire(n) \o b)
      BY <3>1, <3>2, <3>3, AnswersExtended
    <3>6. wire'[n] = OnWire(n) \o b
      BY <2>4 DEF b
    <3>7. \A m \in DOMAIN wire' : m \in BidiStreams \/ wire'[m] = <<>> \/ Answers(m, wire'[m])
      BY <2>4, <3>5, <3>6 DEF IInv, WireInv
    <3>8. WireInv'
      BY <3>7 DEF WireInv, Answers
    <3> QED
      BY <2>1, <2>4, <1>4, <3>4, <3>6, <3>8
  <2> QED
    BY <1>6, <2>3, <2>4
<1>8. TypeOK'
  BY <1>3, <1>7 DEF IInv, TypeOK, ClientTypeOK
<1>9. EventsInv' /\ FinLast' /\ GoneLast'
  BY DEF IInv, EventsInv, EventOK, IsData, FinLast, GoneLast
<1>10. HeldInv'
  BY DEF IInv, HeldInv, Held
<1>11. OpenInv' /\ GoneInv' /\ PayloadInv' /\ EchoInv'
  BY DEF IInv, OpenInv, GoneInv, PayloadInv, EchoInv
<1>12. CommandsInv'
  <2>1. \A i \in 1 .. Len(commands') :
          i + 1 \in 1 .. Len(commands) /\ commands'[i] = commands[i + 1]
    BY <1>3
  <2>2. \A i \in 1 .. Len(commands') : CommandOK(commands'[i])
    BY <2>1 DEF IInv, CommandsInv
  <2> QED
    BY <2>2 DEF CommandsInv, CommandOK, Answers
<1> QED
  BY <1>7, <1>8, <1>9, <1>10, <1>11, <1>12 DEF IInv

-----------------------------------------------------------------------------
(* The application.                                                        *)
LEMMA HeadEvent ==
  ASSUME IInv, NEW kind, Received(kind)
  PROVE  /\ running /\ events \in Seq(Event) /\ events # <<>>
         /\ Head(events) \in Event /\ Head(events).kind = kind
         /\ Tail(events) \in Seq(Event)
         /\ EventOK(Head(events))
<1>1. events \in Seq(Event) /\ events # <<>> /\ running /\ Head(events).kind = kind
  BY DEF Received, IInv, TypeOK
<1>2. /\ Head(events) \in Event /\ Tail(events) \in Seq(Event)
      /\ Head(events) = events[1] /\ 1 \in 1 .. Len(events)
  BY <1>1, TakenOut
<1> QED
  BY <1>1, <1>2 DEF IInv, EventsInv

LEMMA OnHeadersInv == IInv /\ OnHeaders => IInv'
<1> SUFFICES ASSUME IInv, OnHeaders PROVE IInv'
  OBVIOUS
<1> DEFINE q == Head(events).stream
<1>1. /\ events' = Tail(events)
      /\ UNCHANGED <<asked, session, sent, ended, reset, cancelled, driverVars,
                     commands, sendVars, nextUni, echoedOn>>
      /\ Received("headers")
      /\ Respond(q) \/ FailToRespond(q)
  BY DEF OnHeaders
<1> USE <1>1 DEF driverVars, sendVars
<1>2. /\ running /\ events \in Seq(Event) /\ events # <<>>
      /\ Head(events) \in Event /\ Head(events).kind = "headers"
      /\ events' \in Seq(Event) /\ q \in Requests
  BY HeadEvent DEF EventOK
<1>3. /\ status' \in [Requests -> {"", "200", "404"}]
      /\ alive' \in BOOLEAN /\ running' \in BOOLEAN
      /\ sessions' \subseteq sessions \cup {q}
      /\ uniPayloads' = uniPayloads \/ (uniPayloads' = <<>> /\ ~running')
  <2>1. status \in [Requests -> {"", "200", "404"}] /\ alive \in BOOLEAN /\ running \in BOOLEAN
    BY DEF IInv, TypeOK, ClientTypeOK
  <2>2. CASE Respond(q)
    <3>1. IF asked[q] = "other" THEN TRUE ELSE TRUE
      OBVIOUS
    <3>2. status' \in [Requests -> {"", "200", "404"}]
      BY <2>1, <2>2 DEF Respond
    <3> QED
      BY <2>1, <2>2, <3>2 DEF Respond
  <2>3. CASE FailToRespond(q)
    BY <2>1, <2>3 DEF FailToRespond, Leave
  <2> QED
    BY <1>1, <2>2, <2>3
<1> HIDE DEF q
<1>4. DOMAIN uniPayloads' \subseteq DOMAIN uniPayloads
      /\ \A s \in DOMAIN uniPayloads' : uniPayloads'[s] = uniPayloads[s]
  <2>1. DOMAIN <<>> = {}
    OBVIOUS
  <2> QED
    BY <1>3, <2>1
<1>5. TypeOK'
  <2>1. ClientTypeOK'
    BY <1>3 DEF IInv, TypeOK, ClientTypeOK
  <2> QED
    BY <2>1, <1>2, <1>3, <1>4 DEF IInv, TypeOK
<1>6. EventsInv' /\ FinLast' /\ GoneLast' /\ HeldInv'
  <2>1. \A x \in Held' : x \in Held \/ x = q
    BY <1>3, <1>4 DEF Held
  <2> QED
    BY <1>2, <2>1, EventOut DEF IInv, q
<1>7. OpenInv' /\ GoneInv' /\ EchoInv'
  BY DEF IInv, OpenInv, GoneInv, EchoInv
<1>8. PayloadInv'
  BY <1>4 DEF IInv, PayloadInv
<1>9. CommandsInv' /\ WireInv'
  BY DEF IInv, CommandsInv, CommandOK, WireInv, Answers
<1> QED
  BY <1>5, <1>6, <1>7, <1>8, <1>9 DEF IInv

LEMMA OnGoneInv == IInv /\ OnGone => IInv'
<1> SUFFICES ASSUME IInv, OnGone PROVE IInv'
  OBVIOUS
<1> DEFINE n == Head(events).stream
<1>1. /\ Received("gone")
      /\ sessions' = sessions \ {n}
      /\ uniPayloads' = Without(uniPayloads, n)
      /\ events' = Tail(events)
      /\ UNCHANGED <<clientVars, alive, driverVars, commands, sendVars, running,
                     nextUni, echoedOn>>
  BY DEF OnGone
<1> USE <1>1 DEF clientVars, driverVars, sendVars
<1>2. /\ running /\ events \in Seq(Event) /\ events # <<>>
      /\ Head(events) \in Event /\ Head(events).kind = "gone"
      /\ events' \in Seq(Event)
  BY HeadEvent
<1>3. DOMAIN uniPayloads' = DOMAIN uniPayloads \ {n}
      /\ \A s \in DOMAIN uniPayloads' : uniPayloads'[s] = uniPayloads[s]
  BY DEF Without
<1>4. TypeOK'
  BY <1>2, <1>3 DEF IInv, TypeOK, ClientTypeOK
<1>5. EventsInv' /\ FinLast' /\ GoneLast' /\ HeldInv'
  <2>1. (\A x \in Held' : x \in Held) /\ n \notin Held'
    BY <1>3 DEF Held
  <2> QED
    BY <1>2, <2>1, EventOut DEF IInv
<1>6. OpenInv' /\ GoneInv' /\ EchoInv'
  BY DEF IInv, OpenInv, GoneInv, EchoInv
<1>7. PayloadInv'
  BY <1>3 DEF IInv, PayloadInv
<1>8. CommandsInv' /\ WireInv'
  BY DEF IInv, CommandsInv, CommandOK, WireInv, Answers
<1> QED
  BY <1>4, <1>5, <1>6, <1>7, <1>8 DEF IInv

LEMMA OnShutdownInv == IInv /\ OnShutdown => IInv'
<1> SUFFICES ASSUME IInv, OnShutdown PROVE IInv'
  OBVIOUS
<1>1. /\ Received("shutdown")
      /\ running' = FALSE /\ sessions' = {} /\ uniPayloads' = <<>>
      /\ events' = Tail(events)
      /\ UNCHANGED <<clientVars, alive, driverVars, commands, sendVars,
                     nextUni, echoedOn>>
  BY DEF OnShutdown, Leave
<1> USE <1>1 DEF clientVars, driverVars, sendVars
<1>2. /\ running /\ events \in Seq(Event) /\ events # <<>>
      /\ Head(events) \in Event /\ Head(events).kind = "shutdown"
      /\ events' \in Seq(Event)
  BY HeadEvent
<1>3. DOMAIN uniPayloads' = {}
  OBVIOUS
<1>4. TypeOK'
  BY <1>2, <1>3 DEF IInv, TypeOK, ClientTypeOK
<1>5. EventsInv' /\ FinLast' /\ GoneLast' /\ HeldInv'
  BY <1>2, EventOut DEF IInv
<1>6. OpenInv' /\ GoneInv' /\ EchoInv'
  BY DEF IInv, OpenInv, GoneInv, EchoInv
<1>7. PayloadInv'
  BY <1>3 DEF IInv, PayloadInv
<1>8. CommandsInv' /\ WireInv'
  BY DEF IInv, CommandsInv, CommandOK, WireInv, Answers
<1> QED
  BY <1>4, <1>5, <1>6, <1>7, <1>8 DEF IInv

(* A command joins the others.                                             *)
LEMMA CommandIn ==
  ASSUME IInv, NEW n \in Nat, NEW bytes \in Seq(Unit), NEW fin \in BOOLEAN,
         QueueStreamSend(n, bytes, fin),
         n \in BidiStreams \/ Answers(n, bytes)',
         UNCHANGED session,
         \A s \in UniStreams : echoedOn[s] # None => echoedOn'[s] = echoedOn[s]
  PROVE  commands' \in Seq(Command) /\ CommandsInv'
<1> DEFINE c == [stream |-> n, bytes |-> bytes, fin |-> fin]
           m == Len(commands)
<1>1. c \in Command /\ commands' = Append(commands, c) /\ commands \in Seq(Command)
  BY DEF Command, QueueStreamSend, IInv, TypeOK
<1>2. c.stream = n /\ c.bytes = bytes
  OBVIOUS
<1> HIDE DEF c
<1>3. /\ commands' \in Seq(Command)
      /\ m \in Nat /\ Len(commands') = m + 1
      /\ \A i \in 1 .. m : commands'[i] = commands[i]
      /\ commands'[m + 1] = c
  BY <1>1, PutIn
<1>4. \A i \in 1 .. m : commands[i] \in Command
  BY <1>1, ElementOfSeq
<1>5. echoedOn \in [UniStreams -> Nat \cup {None}] /\ EchoInv
  BY DEF IInv, TypeOK
<1> HIDE DEF m
<1>6. ASSUME NEW i \in 1 .. m + 1 PROVE CommandOK(commands[i])'
  <2>1. CASE i = m + 1
    BY <2>1, <1>2, <1>3 DEF CommandOK, Answers
  <2>2. CASE i # m + 1
    <3>1. i \in 1 .. m
      BY <2>2, <1>3
    <3>2. CommandOK(commands[i]) /\ commands[i].stream \in Nat
      BY <3>1, <1>4 DEF IInv, CommandsInv, Command, m
    <3>3. commands[i].stream \notin BidiStreams =>
            \E s \in UniStreams : /\ echoedOn'[s] = commands[i].stream /\ commands[i].bytes # <<>>
                                  /\ commands[i].bytes[1] = <<session[s], 0>>
      BY <3>2, <1>5, NoneIsNone DEF CommandOK, Answers
    <3> QED
      BY <3>1, <3>3, <1>3 DEF CommandOK, Answers
  <2> QED
    BY <2>1, <2>2
<1> QED
  BY <1>3, <1>6 DEF CommandsInv

LEMMA OnBidiDataInv == IInv /\ OnBidiData => IInv'
<1> SUFFICES ASSUME IInv, OnBidiData PROVE IInv'
  OBVIOUS
<1> DEFINE e == Head(events)
<1>1. /\ Received("data") /\ e.stream \in BidiStreams
      /\ QueueStreamSend(e.stream, e.bytes, e.fin)
      /\ events' = Tail(events)
      /\ UNCHANGED <<clientVars, alive, driverVars, sendVars, appVars>>
  BY DEF OnBidiData
<1> USE <1>1 DEF clientVars, driverVars, sendVars, appVars
<1>2. /\ running /\ events \in Seq(Event) /\ events # <<>>
      /\ e \in Event /\ e.kind = "data" /\ events' \in Seq(Event)
  BY HeadEvent
<1>3. e.stream \in Nat /\ e.bytes \in Seq(Unit) /\ e.fin \in BOOLEAN
  BY <1>2, NoneIsNone DEF Event, Streams
<1>4. commands' \in Seq(Command) /\ CommandsInv'
  BY <1>3, CommandIn
<1> HIDE DEF e
<1>5. TypeOK'
  BY <1>2, <1>4 DEF IInv, TypeOK, ClientTypeOK
<1>6. EventsInv' /\ FinLast' /\ GoneLast' /\ HeldInv'
  BY <1>2, EventOut DEF IInv, Held, e
<1>7. OpenInv' /\ GoneInv' /\ EchoInv' /\ PayloadInv'
  BY DEF IInv, OpenInv, GoneInv, EchoInv, PayloadInv
<1>8. WireInv'
  BY DEF IInv, WireInv, Answers
<1> QED
  BY <1>4, <1>5, <1>6, <1>7, <1>8 DEF IInv

(* What has been collected of a stream belongs to its session.             *)
LEMMA CollectedType ==
  ASSUME IInv, NEW e \in Event, IsData(e), EventOK(e), e.stream \in UniStreams
  PROVE  /\ Collected(e) \in [session : Requests, bytes : Seq(Unit)]
         /\ Collected(e).session = session[e.stream]
<1>1. e.bytes \in Seq(Unit) /\ session[e.stream] \in Requests
  BY DEF Event, EventOK
<1>2. CASE e.stream \notin DOMAIN uniPayloads
  BY <1>1, <1>2 DEF Collected
<1>3. CASE e.stream \in DOMAIN uniPayloads
  <2> DEFINE p == uniPayloads[e.stream]
  <2>1. p \in [session : Requests, bytes : Seq(Unit)] /\ p.session = session[e.stream]
    BY <1>3 DEF IInv, TypeOK, PayloadInv
  <2>2. Collected(e) = [p EXCEPT !.bytes = p.bytes \o e.bytes]
    BY <1>3 DEF Collected
  <2> HIDE DEF p
  <2>3. p.bytes \o e.bytes \in Seq(Unit)
    BY <1>1, <2>1, ConcatProperties
  <2> QED
    BY <2>1, <2>2, <2>3
<1> QED
  BY <1>2, <1>3

LEMMA PrefaceAndPayload ==
  ASSUME NEW q \in Requests, NEW bytes \in Seq(Unit)
  PROVE  /\ Preface(q) \o bytes \in Seq(Unit)
         /\ Preface(q) \o bytes # <<>>
         /\ (Preface(q) \o bytes)[1] = <<q, 0>>
<1>1. <<q, 0>> \in Unit
  BY DEF Unit
<1>2. Preface(q) \in Seq(Unit) /\ Len(Preface(q)) = 1 /\ Preface(q)[1] = <<q, 0>>
  BY <1>1 DEF Preface
<1>3. Len(bytes) \in Nat
  BY LenProperties
<1> DEFINE p == Preface(q)
           whole == p \o bytes
<1>4. /\ whole \in Seq(Unit)
      /\ Len(whole) = Len(p) + Len(bytes)
      /\ \A i \in 1 .. Len(p) + Len(bytes) :
            whole[i] = IF i <= Len(p) THEN p[i] ELSE bytes[i - Len(p)]
  BY <1>2, ConcatProperties
<1>5. 1 \in 1 .. Len(p) + Len(bytes) /\ 1 <= Len(p)
  BY <1>2, <1>3
<1>6. whole[1] = p[1] /\ Len(whole) # 0
  BY <1>4, <1>5
<1> HIDE DEF whole, p
<1>7. whole # <<>>
  BY <1>6, EmptySeq
<1> QED
  BY <1>2, <1>4, <1>6, <1>7 DEF whole, p

LEMMA OnUniDataInv == IInv /\ OnUniData => IInv'
<1> SUFFICES ASSUME IInv, OnUniData PROVE IInv'
  OBVIOUS
<1> DEFINE e == Head(events)
           s == e.stream
           entry == Collected(e)
<1>1. /\ Received("data") /\ s \in UniStreams
      /\ events' = Tail(events)
      /\ UNCHANGED <<clientVars, alive, driverVars, sendVars, running, sessions>>
      /\ IF e.fin
         THEN /\ uniPayloads' = Without(uniPayloads, s)
              /\ QueueStreamSend(nextUni, Preface(entry.session) \o entry.bytes, TRUE)
              /\ echoedOn' = [echoedOn EXCEPT ![s] = nextUni]
              /\ nextUni' = nextUni + 4
         ELSE /\ uniPayloads' = With(uniPayloads, s, entry)
              /\ UNCHANGED <<commands, echoedOn, nextUni>>
  BY DEF OnUniData
<1> USE <1>1 DEF clientVars, driverVars, sendVars
<1>2. /\ running /\ events \in Seq(Event) /\ events # <<>>
      /\ e \in Event /\ e.kind = "data" /\ events' \in Seq(Event) /\ EventOK(e)
  BY HeadEvent
<1>3. /\ session[s] \in Requests /\ echoedOn[s] = None
      /\ (e.fin => s \in over) /\ s \in Streams /\ e.fin \in BOOLEAN
  BY <1>2 DEF EventOK, IsData, Event
<1>4. entry \in [session : Requests, bytes : Seq(Unit)] /\ entry.session = session[s]
  BY <1>2, CollectedType DEF IsData
<1> HIDE DEF entry
<1>5. /\ nextUni \in Nat /\ nextUni % 4 = 3
      /\ echoedOn \in [UniStreams -> Nat \cup {None}]
  BY DEF IInv, TypeOK, EchoInv
<1>6. /\ nextUni' \in Nat /\ nextUni' % 4 = 3
      /\ echoedOn' \in [UniStreams -> Nat \cup {None}]
      /\ \A u \in UniStreams : u # s => echoedOn'[u] = echoedOn[u]
      /\ echoedOn'[s] = IF e.fin THEN nextUni ELSE None
  <2>1. CASE e.fin
    <3>1. nextUni' = nextUni + 4
      BY <2>1
    <3>2. nextUni' \in Nat /\ nextUni' % 4 = 3
      BY <3>1, <1>5
    <3> QED
      BY <2>1, <3>2, <1>5
  <2>2. CASE ~e.fin
    BY <2>2, <1>3, <1>5
  <2> QED
    BY <2>1, <2>2
<1>7. /\ DOMAIN uniPayloads' \subseteq UniStreams
      /\ e.fin => s \notin DOMAIN uniPayloads'
      /\ DOMAIN uniPayloads' \subseteq DOMAIN uniPayloads \cup {s}
      /\ \A u \in DOMAIN uniPayloads' :
           /\ uniPayloads'[u] \in [session : Requests, bytes : Seq(Unit)]
           /\ uniPayloads'[u].session = session[u]
  <2>1. \A u \in DOMAIN uniPayloads :
          /\ u \in UniStreams
          /\ uniPayloads[u] \in [session : Requests, bytes : Seq(Unit)]
          /\ uniPayloads[u].session = session[u]
    BY DEF IInv, TypeOK, PayloadInv
  <2>2. CASE e.fin
    <3>1. DOMAIN uniPayloads' = DOMAIN uniPayloads \ {s}
          /\ \A u \in DOMAIN uniPayloads' : uniPayloads'[u] = uniPayloads[u]
      BY <2>2 DEF Without
    <3> QED
      BY <2>1, <2>2, <3>1
  <2>3. CASE ~e.fin
    <3>1. DOMAIN uniPayloads' = DOMAIN uniPayloads \cup {s}
          /\ \A u \in DOMAIN uniPayloads' :
                uniPayloads'[u] = IF u = s THEN entry ELSE uniPayloads[u]
      BY <2>3 DEF With
    <3> QED
      BY <2>1, <2>3, <3>1, <1>4
  <2> QED
    BY <2>2, <2>3
<1>8. \A u \in UniStreams : echoedOn[u] # None => echoedOn'[u] = echoedOn[u]
  BY <1>3, <1>6
<1>9. commands' \in Seq(Command) /\ CommandsInv'
  <2>1. CASE e.fin
    <3> DEFINE out == Preface(entry.session) \o entry.bytes
    <3>1. out \in Seq(Unit) /\ out # <<>> /\ out[1] = <<session[s], 0>>
      BY <1>4, PrefaceAndPayload
    <3>2. QueueStreamSend(nextUni, out, TRUE)
      BY <2>1
    <3> HIDE DEF out
    <3>3. PICK n \in Nat, bytes \in Seq(Unit) :
            n = nextUni /\ bytes = out
      BY <1>5, <3>1
    <3>4. QueueStreamSend(n, bytes, TRUE)
      BY <3>2, <3>3 DEF QueueStreamSend
    <3>5. Answers(n, bytes)'
      BY <1>6, <2>1, <3>1, <3>3 DEF Answers
    <3> QED
      BY <1>8, <3>4, <3>5, CommandIn
  <2>2. CASE ~e.fin
    BY <2>2 DEF IInv, TypeOK, CommandsInv, CommandOK, Answers
  <2> QED
    BY <2>1, <2>2
<1>10. TypeOK'
  BY <1>2, <1>6, <1>7, <1>9 DEF IInv, TypeOK, ClientTypeOK
<1>11. EventsInv' /\ FinLast' /\ GoneLast' /\ HeldInv'
  <2>1. \A x \in Held' : x \in Held \/ x = s
    BY <1>7 DEF Held
  <2>2. \A u \in UniStreams : echoedOn'[u] = echoedOn[u] \/ (e.fin /\ s = u)
    BY <1>3, <1>6
  <2> QED
    BY <1>2, <2>1, <2>2, EventOut DEF IInv, IsData
<1>12. OpenInv' /\ GoneInv'
  BY DEF IInv, OpenInv, GoneInv
<1>13. PayloadInv'
  <2>1. \A u \in DOMAIN uniPayloads' : echoedOn'[u] = None
    BY <1>3, <1>6, <1>7 DEF IInv, PayloadInv
  <2> QED
    BY <1>7, <2>1 DEF PayloadInv
<1>14. EchoInv'
  <2>1. \A u \in UniStreams : echoedOn[u] # None =>
          /\ u \in over /\ echoedOn[u] < nextUni /\ session[u] \in Requests
          /\ echoedOn[u] % 4 = 3 /\ echoedOn[u] \in Nat
    BY <1>5 DEF IInv, EchoInv
  <2>2. nextUni <= nextUni' /\ (e.fin => nextUni < nextUni')
    <3>1. nextUni' = nextUni + 4 \/ (nextUni' = nextUni /\ ~e.fin)
      OBVIOUS
    <3> QED
      BY <3>1, <1>5
  <2>3. nextUni # None
    BY <1>5, NoneIsNone
  <2>4. \A u \in UniStreams : echoedOn'[u] # None =>
          /\ u \in over /\ echoedOn'[u] < nextUni' /\ session[u] \in Requests
          /\ echoedOn'[u] % 4 = 3
    BY <1>3, <1>5, <1>6, <2>1, <2>2
  <2>5. \A u \in UniStreams : u # s => echoedOn'[u] # nextUni
    BY <1>5, <1>6, <2>1, <2>3
  <2>6. \A u, v \in UniStreams :
          echoedOn'[u] = echoedOn'[v] /\ echoedOn'[u] # None => u = v
    BY <1>6, <2>5 DEF IInv, EchoInv
  <2> QED
    BY <1>6, <2>4, <2>6 DEF EchoInv
<1>15. WireInv'
  <2>1. \A n \in DOMAIN wire : n \in Nat
    BY DEF IInv, TypeOK
  <2> QED
    BY <1>5, <1>8, <2>1, AnswersStay DEF IInv, WireInv
<1> QED
  BY <1>9, <1>10, <1>11, <1>12, <1>13, <1>14, <1>15 DEF IInv

-----------------------------------------------------------------------------
LEMMA NextInv == IInv /\ [Next]_vars => IInv'
<1> SUFFICES ASSUME IInv, [Next]_vars PROVE IInv'
  OBVIOUS
<1>1. CASE Client
  BY <1>1, ClientInv
<1>2. CASE Library
  BY <1>2, ReportHeadersInv, ReportDataInv, ReportGoneInv, ShutdownInv, ExecuteInv
     DEF Library
<1>3. CASE Application
  BY <1>3, OnHeadersInv, OnBidiDataInv, OnUniDataInv, OnGoneInv, OnShutdownInv
     DEF Application
<1>4. CASE UNCHANGED vars
  <2> USE <1>4 DEF vars, clientVars, driverVars, sendVars, appVars
  <2>1. TypeOK' /\ OpenInv'
    BY DEF IInv, TypeOK, ClientTypeOK, OpenInv
  <2>2. EventsInv' /\ FinLast' /\ GoneLast' /\ HeldInv' /\ GoneInv'
    BY DEF IInv, EventsInv, EventOK, IsData, FinLast, GoneLast, HeldInv, Held, GoneInv
  <2>3. PayloadInv' /\ EchoInv' /\ CommandsInv' /\ WireInv'
    BY DEF IInv, PayloadInv, EchoInv, CommandsInv, CommandOK, Answers, WireInv
  <2> QED
    BY <2>1, <2>2, <2>3 DEF IInv
<1> QED
  BY <1>1, <1>2, <1>3, <1>4 DEF Next

(* All of a connection: the types, the order of the events and whom the    *)
(* server's streams answer (serve_connection).                             *)
THEOREM QuicheInvariant == Spec => []IInv
BY InitInv, NextInv, PTL DEF Spec

(* Every server uni stream answers one client uni stream, in the session   *)
(* that the client opened it in, for any number of sessions and streams    *)
(* (l.223-240).                                                            *)
THEOREM EchoesInTheirSessions == Spec => []UniEchoInItsSession
<1>1. IInv => UniEchoInItsSession
  <2> SUFFICES ASSUME IInv, NEW n \in DOMAIN wire, n \notin BidiStreams, wire[n] # <<>>
               PROVE  \E s \in UniStreams :
                        /\ \A u \in UniStreams : echoedOn[u] = n <=> u = s
                        /\ wire[n][1] = <<session[s], 0>>
    BY DEF UniEchoInItsSession
  <2>1. PICK s \in UniStreams : echoedOn[s] = n /\ wire[n][1] = <<session[s], 0>>
    BY DEF IInv, WireInv, Answers
  <2>2. n # None
    BY NoneIsNone DEF IInv, TypeOK
  <2>3. \A u \in UniStreams : echoedOn[u] = n <=> u = s
    BY <2>1, <2>2 DEF IInv, EchoInv
  <2> QED
    BY <2>1, <2>3
<1> QED
  BY <1>1, QuicheInvariant, PTL

(* Whatever the order of resets, closings, headers and data, the           *)
(* application that has caught up holds nothing of what is gone            *)
(* (l.268-277).                                                            *)
THEOREM NothingLeaks == Spec => []NoLeak
<1>1. IInv => NoLeak
  <2> SUFFICES ASSUME IInv, running, events = <<>>, NEW x \in Held \cap gone PROVE FALSE
    BY DEF NoLeak, Held
  <2>1. \E j \in 1 .. Len(events) : events[j].kind = "gone"
    BY DEF IInv, HeldInv
  <2>2. Len(events) = 0
    OBVIOUS
  <2> QED
    BY <2>1, <2>2
<1> QED
  BY <1>1, QuicheInvariant, PTL

-----------------------------------------------------------------------------
(***************************************************************************)
(* The bytes of a stream stay in their order on their way through the two  *)
(* channels, whatever part of a write quiche takes and however bytes of    *)
(* other streams are mixed with them.                                      *)
(***************************************************************************)

(* Some of the first n bytes of s, in their order; all of a before all of  *)
(* b; and the beginning of b.                                              *)
Of(s, b, n) == \A k \in 1 .. Len(b) : b[k][1] = s /\ b[k][2] \in 1 .. n
Rising(b) == \A j, k \in 1 .. Len(b) : j < k => b[j][2] < b[k][2]
InOrder(s, b, n) == Of(s, b, n) /\ Rising(b)
Before(a, b) == \A j \in 1 .. Len(a), k \in 1 .. Len(b) : a[j][2] < b[k][2]
FrontOf(a, b) == Len(a) <= Len(b) /\ \A k \in 1 .. Len(a) : a[k] = b[k]

DataOf(e, s) == IsData(e) /\ e.stream = s
Body(c) == IF c.stream \in BidiStreams THEN c.bytes ELSE Tail(c.bytes)

(* The bytes of a stream pass from the events, over the payload that is    *)
(* being collected or not, to the commands and to the wire.  They are in   *)
(* order within each of these places, and from place to place.             *)
EventOrder ==
  \A s \in Streams : \A i \in 1 .. Len(events) : DataOf(events[i], s) =>
    /\ InOrder(s, events[i].bytes, told[s])
    /\ \A j \in 1 .. Len(events) :
         DataOf(events[j], s) /\ i < j => Before(events[i].bytes, events[j].bytes)
PayloadOrder ==
  \A s \in DOMAIN uniPayloads :
    /\ InOrder(s, uniPayloads[s].bytes, told[s])
    /\ \A j \in 1 .. Len(events) :
         DataOf(events[j], s) => Before(uniPayloads[s].bytes, events[j].bytes)
CommandOrder ==
  \A s \in Streams : \A i \in 1 .. Len(commands) : commands[i].stream = EchoStream(s) =>
    /\ InOrder(s, Body(commands[i]), told[s])
    /\ \A j \in 1 .. Len(commands) :
         commands[j].stream = EchoStream(s) /\ i < j =>
           Before(Body(commands[i]), Body(commands[j]))
    /\ \A j \in 1 .. Len(events) :
         DataOf(events[j], s) => Before(Body(commands[i]), events[j].bytes)
WireOrder ==
  \A s \in Streams :
    /\ InOrder(s, Echoed(s), told[s])
    /\ \A i \in 1 .. Len(commands) :
         commands[i].stream = EchoStream(s) => Before(Echoed(s), Body(commands[i]))
    /\ \A j \in 1 .. Len(events) :
         DataOf(events[j], s) => Before(Echoed(s), events[j].bytes)

(* A stream of the server is written by one command, and nothing is on it  *)
(* before.                                                                 *)
OneCommand ==
  \A i \in 1 .. Len(commands) : commands[i].stream \notin BidiStreams =>
    /\ commands[i].stream < nextUni
    /\ OnWire(commands[i].stream) = <<>>
    /\ commands[i].bytes # <<>>
    /\ \A j \in 1 .. Len(commands) : commands[j].stream = commands[i].stream => i = j
NewStreams == \A n \in DOMAIN wire : n \in BidiStreams \/ n < nextUni \/ wire[n] = <<>>

OrderInv ==
  IInv /\ EventOrder /\ PayloadOrder /\ CommandOrder /\ WireOrder /\ OneCommand /\ NewStreams

-----------------------------------------------------------------------------
(* Sequences in order.                                                     *)
LEMMA OrderOfConcat ==
  ASSUME NEW s, NEW n, NEW a \in Seq(Unit), NEW b \in Seq(Unit),
         InOrder(s, a, n), InOrder(s, b, n), Before(a, b)
  PROVE  a \o b \in Seq(Unit) /\ InOrder(s, a \o b, n)
<1> DEFINE c == a \o b
<1>1. /\ c \in Seq(Unit) /\ Len(a) \in Nat /\ Len(b) \in Nat
      /\ Len(c) = Len(a) + Len(b)
      /\ \A k \in 1 .. Len(a) + Len(b) : c[k] = IF k <= Len(a) THEN a[k] ELSE b[k - Len(a)]
  BY ConcatProperties, LenProperties
<1> HIDE DEF c
<1>2. \A k \in 1 .. Len(c) : \/ k \in 1 .. Len(a) /\ c[k] = a[k]
                             \/ k > Len(a) /\ k - Len(a) \in 1 .. Len(b) /\ c[k] = b[k - Len(a)]
  BY <1>1
<1>3. Of(s, c, n)
  BY <1>2 DEF Of, InOrder
<1>4. Rising(c)
  <2> SUFFICES ASSUME NEW j \in 1 .. Len(c), NEW k \in 1 .. Len(c), j < k
               PROVE  c[j][2] < c[k][2]
    BY DEF Rising
  <2>1. CASE k \in 1 .. Len(a) /\ c[k] = a[k]
    <3>1. j \in 1 .. Len(a) /\ c[j] = a[j]
      BY <1>1, <1>2, <2>1
    <3> QED
      BY <2>1, <3>1 DEF InOrder, Rising
  <2>2. CASE k > Len(a) /\ k - Len(a) \in 1 .. Len(b) /\ c[k] = b[k - Len(a)]
    <3>1. CASE j \in 1 .. Len(a) /\ c[j] = a[j]
      BY <2>2, <3>1 DEF Before
    <3>2. CASE j > Len(a) /\ j - Len(a) \in 1 .. Len(b) /\ c[j] = b[j - Len(a)]
      <4>1. j - Len(a) < k - Len(a)
        BY <1>1
      <4> QED
        BY <2>2, <3>2, <4>1 DEF InOrder, Rising
    <3> QED
      BY <1>2, <3>1, <3>2
  <2> QED
    BY <1>2, <2>1, <2>2
<1> QED
  BY <1>1, <1>3, <1>4 DEF InOrder, c

LEMMA BeforeConcat ==
  ASSUME NEW a \in Seq(Unit), NEW b \in Seq(Unit), NEW c, Before(a, c), Before(b, c)
  PROVE  Before(a \o b, c)
<1> DEFINE d == a \o b
<1>1. /\ Len(a) \in Nat /\ Len(b) \in Nat
      /\ Len(d) = Len(a) + Len(b)
      /\ \A k \in 1 .. Len(a) + Len(b) : d[k] = IF k <= Len(a) THEN a[k] ELSE b[k - Len(a)]
  BY ConcatProperties, LenProperties
<1> HIDE DEF d
<1>2. \A k \in 1 .. Len(d) : \/ k \in 1 .. Len(a) /\ d[k] = a[k]
                             \/ k - Len(a) \in 1 .. Len(b) /\ d[k] = b[k - Len(a)]
  BY <1>1
<1>3. Before(d, c)
  BY <1>2 DEF Before
<1> QED
  BY <1>3 DEF d

LEMMA FrontInOrder ==
  ASSUME NEW s, NEW n, NEW a \in Seq(Unit), NEW b \in Seq(Unit), FrontOf(a, b)
  PROVE  /\ InOrder(s, b, n) => InOrder(s, a, n)
         /\ \A c : Before(b, c) => Before(a, c)
         /\ \A c : Before(c, b) => Before(c, a)
<1>1. Len(a) \in Nat /\ Len(b) \in Nat
  BY LenProperties
<1>2. \A k \in 1 .. Len(a) : k \in 1 .. Len(b) /\ a[k] = b[k]
  BY <1>1 DEF FrontOf
<1> QED
  BY <1>2 DEF InOrder, Of, Rising, Before

LEMMA EmptyInOrder ==
  ASSUME NEW s, NEW n
  PROVE  /\ InOrder(s, <<>>, n)
         /\ \A c : Before(<<>>, c) /\ Before(c, <<>>)
<1>1. 1 .. Len(<<>>) = {}
  OBVIOUS
<1> QED
  BY <1>1 DEF InOrder, Of, Rising, Before

(* What comes next of a stream comes after everything that has come.       *)
LEMMA ChunkInOrder ==
  ASSUME NEW s, NEW n \in Nat, NEW m \in Nat, n <= m
  PROVE  /\ InOrder(s, Chunk(s, n, m), m)
         /\ \A b : Of(s, b, n) => Before(b, Chunk(s, n, m))
         /\ \A b : InOrder(s, b, n) => InOrder(s, b, m)
<1> DEFINE c == Chunk(s, n, m)
<1>1. Len(c) = m - n /\ \A k \in 1 .. m - n : c[k] = <<s, n + k>>
  <2>1. m - n \in Nat
    OBVIOUS
  <2>2. c = [i \in 1 .. m - n |-> <<s, n + i>>]
    BY DEF Chunk
  <2> QED
    BY <2>1, <2>2
<1> HIDE DEF c
<1>2. \A k \in 1 .. Len(c) : c[k][1] = s /\ c[k][2] = n + k /\ n + k \in 1 .. m
  BY <1>1
<1>3. InOrder(s, c, m)
  BY <1>1, <1>2 DEF InOrder, Of, Rising
<1>4. ASSUME NEW b, Of(s, b, n) PROVE Before(b, c)
  <2> SUFFICES ASSUME NEW j \in 1 .. Len(b), NEW k \in 1 .. Len(c) PROVE b[j][2] < c[k][2]
    BY DEF Before
  <2>1. b[j][2] \in 1 .. n
    BY <1>4 DEF Of
  <2> QED
    BY <1>1, <1>2, <2>1
<1>5. ASSUME NEW b, InOrder(s, b, n) PROVE InOrder(s, b, m)
  <2>1. \A x : x \in 1 .. n => x \in 1 .. m
    OBVIOUS
  <2> QED
    BY <1>5, <2>1 DEF InOrder, Of
<1> QED
  BY <1>3, <1>4, <1>5 DEF c

-----------------------------------------------------------------------------
LEMMA OrderInitInv == Init => OrderInv
<1> SUFFICES ASSUME Init PROVE OrderInv
  OBVIOUS
<1>1. IInv
  BY InitInv
<1>2. /\ events = <<>> /\ commands = <<>> /\ uniPayloads = <<>>
      /\ wire = [n \in GreaseStreams |-> <<>>]
  BY DEF Init
<1>3. 1 .. Len(events) = {} /\ 1 .. Len(commands) = {} /\ DOMAIN uniPayloads = {}
  BY <1>2
<1>4. \A n : OnWire(n) = <<>>
  BY <1>2 DEF OnWire
<1>5. \A s : Echoed(s) = <<>>
  BY <1>4 DEF Echoed
<1>6. WireOrder
  BY <1>3, <1>5, EmptyInOrder DEF WireOrder
<1>7. EventOrder /\ PayloadOrder /\ CommandOrder /\ OneCommand
  BY <1>3 DEF EventOrder, PayloadOrder, CommandOrder, OneCommand
<1>8. NewStreams
  BY <1>2 DEF NewStreams
<1> QED
  BY <1>1, <1>6, <1>7, <1>8 DEF OrderInv

FewerPayloads ==
  /\ DOMAIN uniPayloads' \subseteq DOMAIN uniPayloads
  /\ \A s \in DOMAIN uniPayloads' : uniPayloads'[s] = uniPayloads[s]

(* Where data only leave the channels, what is left is in order.           *)
LEMMA OrderOfFewer ==
  ASSUME OrderInv, NEW d \in {0, 1}, NEW f \in {0, 1},
         \A j \in 1 .. Len(events') : \A s \in Streams : DataOf(events'[j], s) =>
            j + d \in 1 .. Len(events) /\ events'[j] = events[j + d],
         \A j \in 1 .. Len(commands') :
            j + f \in 1 .. Len(commands) /\ commands'[j] = commands[j + f],
         UNCHANGED <<told, wire, echoedOn, nextUni>>
  PROVE  /\ EventOrder' /\ CommandOrder' /\ WireOrder' /\ OneCommand' /\ NewStreams'
         /\ FewerPayloads => PayloadOrder'
<1>1. \A i, j : i \in 1 .. Len(events') /\ j \in 1 .. Len(events') /\ i < j => i + d < j + d
  OBVIOUS
<1>2. \A i, j : i \in 1 .. Len(commands') /\ j \in 1 .. Len(commands') =>
          /\ i < j => i + f < j + f
          /\ i + f = j + f => i = j
  OBVIOUS
<1>3. \A s \in DOMAIN uniPayloads : s \in Streams
  BY DEF OrderInv, IInv, TypeOK, Streams
<1>4. EventOrder'
  BY <1>1 DEF OrderInv, EventOrder
<1>5. FewerPayloads => PayloadOrder'
  BY <1>3 DEF OrderInv, PayloadOrder, FewerPayloads
<1>6. CommandOrder'
  <2> SUFFICES ASSUME NEW s \in Streams, NEW i \in 1 .. Len(commands'),
                      commands'[i].stream = EchoStream(s)
               PROVE  /\ InOrder(s, Body(commands'[i]), told[s])
                      /\ \A j \in 1 .. Len(commands') :
                           commands'[j].stream = EchoStream(s) /\ i < j =>
                             Before(Body(commands'[i]), Body(commands'[j]))
                      /\ \A j \in 1 .. Len(events') :
                           DataOf(events'[j], s) => Before(Body(commands'[i]), events'[j].bytes)
    BY DEF CommandOrder, EchoStream
  <2>1. i + f \in 1 .. Len(commands) /\ commands'[i] = commands[i + f]
    OBVIOUS
  <2>2. /\ InOrder(s, Body(commands[i + f]), told[s])
        /\ \A j \in 1 .. Len(commands) :
             commands[j].stream = EchoStream(s) /\ i + f < j =>
               Before(Body(commands[i + f]), Body(commands[j]))
        /\ \A j \in 1 .. Len(events) :
             DataOf(events[j], s) => Before(Body(commands[i + f]), events[j].bytes)
    BY <2>1 DEF OrderInv, CommandOrder
  <2> QED
    BY <1>2, <2>1, <2>2
<1>7. WireOrder'
  BY DEF OrderInv, WireOrder, Echoed, OnWire, EchoStream
<1>8. OneCommand'
  <2> SUFFICES ASSUME NEW i \in 1 .. Len(commands'), commands'[i].stream \notin BidiStreams
               PROVE  /\ commands'[i].stream < nextUni
                      /\ OnWire(commands'[i].stream) = <<>>
                      /\ commands'[i].bytes # <<>>
                      /\ \A j \in 1 .. Len(commands') :
                           commands'[j].stream = commands'[i].stream => i = j
    BY DEF OneCommand, OnWire
  <2>1. i + f \in 1 .. Len(commands) /\ commands'[i] = commands[i + f]
    OBVIOUS
  <2>2. /\ commands[i + f].stream < nextUni
        /\ OnWire(commands[i + f].stream) = <<>>
        /\ commands[i + f].bytes # <<>>
        /\ \A j \in 1 .. Len(commands) : commands[j].stream = commands[i + f].stream => i + f = j
    BY <2>1 DEF OrderInv, OneCommand
  <2>3. \A j \in 1 .. Len(commands') : commands'[j].stream = commands'[i].stream => i + f = j + f
    BY <2>1, <2>2
  <2> QED
    BY <1>2, <2>1, <2>2, <2>3
<1>9. NewStreams'
  BY DEF OrderInv, NewStreams
<1> QED
  BY <1>4, <1>5, <1>6, <1>7, <1>8, <1>9

(* An event that carries no data.                                          *)
LEMMA OrderOfPlain ==
  ASSUME OrderInv, NEW e \in Event, ~IsData(e), events' = Append(events, e),
         UNCHANGED <<told, wire, echoedOn, nextUni, commands, uniPayloads>>
  PROVE  /\ EventOrder' /\ PayloadOrder' /\ CommandOrder' /\ WireOrder'
         /\ OneCommand' /\ NewStreams'
<1>1. /\ Len(events) \in Nat /\ Len(events') = Len(events) + 1
      /\ \A i \in 1 .. Len(events) : events'[i] = events[i]
      /\ events'[Len(events) + 1] = e
  BY PutIn DEF OrderInv, IInv, TypeOK
<1>2. \A j \in 1 .. Len(events') : \A s \in Streams : DataOf(events'[j], s) =>
         j + 0 \in 1 .. Len(events) /\ events'[j] = events[j + 0]
  BY <1>1 DEF DataOf
<1>3. \A j \in 1 .. Len(commands') :
         j + 0 \in 1 .. Len(commands) /\ commands'[j] = commands[j + 0]
  OBVIOUS
<1> QED
  BY <1>2, <1>3, OrderOfFewer DEF FewerPayloads

(* An event that is handled without an echo.                               *)
LEMMA OrderOfHandled ==
  ASSUME OrderInv, events # <<>>, events' = Tail(events),
         UNCHANGED <<told, wire, echoedOn, nextUni, commands>>
  PROVE  /\ EventOrder' /\ CommandOrder' /\ WireOrder' /\ OneCommand' /\ NewStreams'
         /\ FewerPayloads => PayloadOrder'
<1>1. /\ Len(events) \in Nat /\ Len(events') = Len(events) - 1
      /\ \A i \in 1 .. Len(events') : events'[i] = events[i + 1]
  BY TakenOut DEF OrderInv, IInv, TypeOK
<1>2. \A j \in 1 .. Len(events') : \A s \in Streams : DataOf(events'[j], s) =>
         j + 1 \in 1 .. Len(events) /\ events'[j] = events[j + 1]
  BY <1>1
<1>3. \A j \in 1 .. Len(commands') :
         j + 0 \in 1 .. Len(commands) /\ commands'[j] = commands[j + 0]
  OBVIOUS
<1> QED
  BY <1>2, <1>3, OrderOfFewer

LEMMA OrderOfReport ==
  ASSUME OrderInv, NEW s \in Streams, ReportData(s)
  PROVE  /\ EventOrder' /\ PayloadOrder' /\ CommandOrder' /\ WireOrder'
         /\ OneCommand' /\ NewStreams'
<1>1. PICK n \in told[s] .. sent[s], fin \in {FALSE, ended[s]} :
        /\ told' = [told EXCEPT ![s] = n]
        /\ events' = Append(events, [kind |-> "data", stream |-> s,
                                     bytes |-> Chunk(s, told[s], n), fin |-> fin])
  BY DEF ReportData
<1>2. UNCHANGED <<wire, echoedOn, nextUni, commands, uniPayloads>>
  BY DEF ReportData, sendVars, appVars
<1>3. /\ told[s] \in Nat /\ sent[s] \in Nat /\ n \in Nat /\ told[s] <= n /\ n <= sent[s]
      /\ sent[s] <= MaxBytes[s] /\ fin \in BOOLEAN /\ events \in Seq(Event)
  <2>1. /\ told[s] \in Nat /\ sent[s] \in Nat /\ sent[s] <= MaxBytes[s]
        /\ ended[s] \in BOOLEAN /\ events \in Seq(Event)
    BY DEF OrderInv, IInv, TypeOK, ClientTypeOK
  <2>2. n \in Nat /\ told[s] <= n /\ n <= sent[s]
    BY <2>1
  <2> QED
    BY <2>1, <2>2
<1>4. told \in [Streams -> Nat] /\ told'[s] = n /\ \A u \in Streams : u # s => told'[u] = told[u]
  BY <1>1 DEF OrderInv, IInv, TypeOK
<1> DEFINE c == Chunk(s, told[s], n)
<1>5. /\ InOrder(s, c, told'[s])
      /\ \A b : Of(s, b, told[s]) => Before(b, c)
      /\ \A b : \A u \in Streams : InOrder(u, b, told[u]) => InOrder(u, b, told'[u])
  BY <1>3, <1>4, ChunkInOrder
<1>6. PICK e \in Event : events' = Append(events, e) /\ IsData(e) /\ e.stream = s /\ e.bytes = c
  <2> DEFINE new == [kind |-> "data", stream |-> s, bytes |-> c, fin |-> fin]
  <2>1. MaxBytes[s] \in Nat
    BY ClientAssumption DEF Streams
  <2>2. n <= MaxBytes[s]
    BY <1>3, <2>1
  <2>3. c \in Seq(Unit)
    BY <1>3, <2>2, ChunkType
  <2> HIDE DEF c
  <2>4. new \in Event
    BY <1>3, <2>3 DEF Event
  <2>5. events' = Append(events, new)
    BY <1>1 DEF c
  <2>6. IsData(new) /\ new.stream = s /\ new.bytes = c
    BY DEF IsData
  <2> HIDE DEF new
  <2> QED
    BY <2>4, <2>5, <2>6
<1> HIDE DEF c
<1> DEFINE m == Len(events)
<1>7. /\ m \in Nat /\ Len(events') = m + 1
      /\ \A i \in 1 .. m : events'[i] = events[i]
      /\ events'[m + 1] = e
  BY <1>3, <1>6, PutIn
<1>8. \A j \in 1 .. Len(events') : \/ j \in 1 .. m /\ events'[j] = events[j]
                                   \/ j = m + 1 /\ events'[j] = e
  BY <1>7
<1>9. \A b : \A u \in Streams : InOrder(u, b, told[u]) /\ DataOf(e, u) => Before(b, e.bytes)
  BY <1>5, <1>6 DEF InOrder, DataOf
<1>10. \A u \in Streams : DataOf(e, u) => InOrder(u, e.bytes, told'[u])
  BY <1>5, <1>6 DEF DataOf
<1> HIDE DEF m
<1>11. EventOrder'
  <2> SUFFICES ASSUME NEW u \in Streams, NEW i \in 1 .. Len(events'), DataOf(events'[i], u)
               PROVE  /\ InOrder(u, events'[i].bytes, told'[u])
                      /\ \A j \in 1 .. Len(events') : DataOf(events'[j], u) /\ i < j =>
                            Before(events'[i].bytes, events'[j].bytes)
    BY DEF EventOrder
  <2>1. CASE i = m + 1 /\ events'[i] = e
    <3>1. \A j \in 1 .. Len(events') : ~(i < j)
      BY <1>7, <2>1
    <3> QED
      BY <1>10, <2>1, <3>1
  <2>2. CASE i \in 1 .. m /\ events'[i] = events[i]
    <3>1. /\ InOrder(u, events[i].bytes, told[u])
          /\ \A j \in 1 .. m : DataOf(events[j], u) /\ i < j =>
                Before(events[i].bytes, events[j].bytes)
      BY <2>2 DEF OrderInv, EventOrder, m
    <3>2. ASSUME NEW j \in 1 .. Len(events'), DataOf(events'[j], u), i < j
          PROVE  Before(events'[i].bytes, events'[j].bytes)
      <4>1. CASE j \in 1 .. m /\ events'[j] = events[j]
        BY <2>2, <3>1, <3>2, <4>1
      <4>2. CASE j = m + 1 /\ events'[j] = e
        BY <2>2, <3>1, <3>2, <4>2, <1>9
      <4> QED
        BY <1>8, <4>1, <4>2
    <3>3. InOrder(u, events[i].bytes, told'[u])
      BY <3>1, <1>5
    <3> QED
      BY <2>2, <3>2, <3>3
  <2> QED
    BY <1>8, <2>1, <2>2
<1>12. ASSUME NEW u \in Streams, NEW b, InOrder(u, b, told[u]),
              \A j \in 1 .. m : DataOf(events[j], u) => Before(b, events[j].bytes)
       PROVE  /\ InOrder(u, b, told'[u])
              /\ \A j \in 1 .. Len(events') : DataOf(events'[j], u) => Before(b, events'[j].bytes)
  <2>1. InOrder(u, b, told'[u])
    BY <1>12, <1>5
  <2>2. \A j \in 1 .. Len(events') : DataOf(events'[j], u) => Before(b, events'[j].bytes)
    BY <1>8, <1>9, <1>12
  <2> QED
    BY <2>1, <2>2
<1>13. PayloadOrder'
  <2>1. \A u \in DOMAIN uniPayloads : u \in Streams
    BY DEF OrderInv, IInv, TypeOK, Streams
  <2> QED
    BY <1>2, <1>12, <2>1 DEF OrderInv, PayloadOrder, m
<1>14. CommandOrder'
  <2> SUFFICES ASSUME NEW u \in Streams, NEW i \in 1 .. Len(commands),
                      commands[i].stream = EchoStream(u)
               PROVE  /\ InOrder(u, Body(commands[i]), told'[u])
                      /\ \A j \in 1 .. Len(commands) :
                           commands[j].stream = EchoStream(u) /\ i < j =>
                             Before(Body(commands[i]), Body(commands[j]))
                      /\ \A j \in 1 .. Len(events') :
                           DataOf(events'[j], u) => Before(Body(commands[i]), events'[j].bytes)
    BY <1>2 DEF CommandOrder, EchoStream
  <2>1. /\ InOrder(u, Body(commands[i]), told[u])
        /\ \A j \in 1 .. Len(commands) :
             commands[j].stream = EchoStream(u) /\ i < j =>
               Before(Body(commands[i]), Body(commands[j]))
        /\ \A j \in 1 .. m :
             DataOf(events[j], u) => Before(Body(commands[i]), events[j].bytes)
    BY DEF OrderInv, CommandOrder, m
  <2> QED
    BY <1>12, <2>1
<1>15. WireOrder'
  <2>1. \A u : Echoed(u)' = Echoed(u) /\ EchoStream(u)' = EchoStream(u)
    BY <1>2 DEF Echoed, OnWire, EchoStream
  <2> SUFFICES ASSUME NEW u \in Streams
               PROVE  /\ InOrder(u, Echoed(u), told'[u])
                      /\ \A i \in 1 .. Len(commands) :
                           commands[i].stream = EchoStream(u) => Before(Echoed(u), Body(commands[i]))
                      /\ \A j \in 1 .. Len(events') :
                           DataOf(events'[j], u) => Before(Echoed(u), events'[j].bytes)
    BY <1>2, <2>1 DEF WireOrder
  <2>2. /\ InOrder(u, Echoed(u), told[u])
        /\ \A i \in 1 .. Len(commands) :
             commands[i].stream = EchoStream(u) => Before(Echoed(u), Body(commands[i]))
        /\ \A j \in 1 .. m : DataOf(events[j], u) => Before(Echoed(u), events[j].bytes)
    BY DEF OrderInv, WireOrder, m
  <2> QED
    BY <1>12, <2>2
<1>16. OneCommand' /\ NewStreams'
  BY <1>2 DEF OrderInv, OneCommand, NewStreams, OnWire
<1> QED
  BY <1>11, <1>13, <1>14, <1>15, <1>16

-----------------------------------------------------------------------------
(* The streams that answer two streams of the client are two.              *)
LEMMA EchoStreamOfOne ==
  ASSUME IInv
  PROVE  /\ \A u, v \in Streams :
              EchoStream(u) = EchoStream(v) /\ EchoStream(u) # None => u = v
         /\ \A u \in Streams : EchoStream(u) \in BidiStreams => EchoStream(u) = u
         /\ \A u \in Streams : EchoStream(u) # nextUni
         /\ \A n \in BidiStreams : n # nextUni /\ n # None
<1>1. \A u \in UniStreams : echoedOn[u] = None \/
        (echoedOn[u] % 4 = 3 /\ echoedOn[u] < nextUni /\ echoedOn[u] \in Nat)
  BY DEF IInv, TypeOK, EchoInv
<1>2. \A n \in BidiStreams : n \in Nat /\ n % 4 = 0
  BY NoneIsNone DEF Streams
<1>3. nextUni \in Nat /\ nextUni % 4 = 3 /\ None \notin Nat
  BY NoneIsNone DEF IInv, TypeOK, EchoInv
<1>4. \A u \in UniStreams : echoedOn[u] \notin BidiStreams /\ echoedOn[u] # nextUni
  BY <1>1, <1>2, <1>3
<1>5. \A u \in Streams : u \notin BidiStreams => u \in UniStreams
  BY DEF Streams
<1>6. \A u, v \in Streams : EchoStream(u) = EchoStream(v) /\ EchoStream(u) # None => u = v
  BY <1>4, <1>5 DEF EchoStream, IInv, EchoInv
<1>7. \A n \in BidiStreams : n # nextUni /\ n # None
  BY <1>2, <1>3
<1> QED
  BY <1>4, <1>5, <1>6, <1>7 DEF EchoStream

LEMMA EchoedType ==
  ASSUME IInv, NEW u \in Streams
  PROVE  Echoed(u) \in Seq(Unit) /\ OnWire(EchoStream(u)) \in Seq(Unit)
<1>1. OnWire(EchoStream(u)) \in Seq(Unit)
  BY EmptySeq DEF OnWire, IInv, TypeOK
<1>2. OnWire(EchoStream(u)) # <<>> => Tail(OnWire(EchoStream(u))) \in Seq(Unit)
  BY <1>1, HeadTailProperties
<1> QED
  BY <1>1, <1>2 DEF Echoed

(* The event that is handled comes after what was handled before and       *)
(* before what is left.                                                    *)
LEMMA HeadInOrder ==
  ASSUME OrderInv, events # <<>>, events' = Tail(events), NEW s \in Streams,
         DataOf(Head(events), s)
  PROVE  /\ InOrder(s, Head(events).bytes, told[s])
         /\ \A j \in 1 .. Len(events') :
              DataOf(events'[j], s) => Before(Head(events).bytes, events'[j].bytes)
         /\ s \in DOMAIN uniPayloads => Before(uniPayloads[s].bytes, Head(events).bytes)
         /\ Before(Echoed(s), Head(events).bytes)
         /\ \A i \in 1 .. Len(commands) :
              commands[i].stream = EchoStream(s) => Before(Body(commands[i]), Head(events).bytes)
<1>1. /\ Len(events) \in Nat /\ 1 \in 1 .. Len(events) /\ Head(events) = events[1]
      /\ Len(events') = Len(events) - 1
      /\ \A i \in 1 .. Len(events') : events'[i] = events[i + 1]
  BY TakenOut DEF OrderInv, IInv, TypeOK
<1>2. \A j \in 1 .. Len(events') :
         j + 1 \in 1 .. Len(events) /\ 1 < j + 1 /\ events'[j] = events[j + 1]
  BY <1>1
<1>3. /\ InOrder(s, events[1].bytes, told[s])
      /\ \A j \in 1 .. Len(events) : DataOf(events[j], s) /\ 1 < j =>
            Before(events[1].bytes, events[j].bytes)
  BY <1>1 DEF OrderInv, EventOrder
<1>4. s \in DOMAIN uniPayloads => Before(uniPayloads[s].bytes, events[1].bytes)
  BY <1>1 DEF OrderInv, PayloadOrder
<1>5. Before(Echoed(s), events[1].bytes)
  BY <1>1 DEF OrderInv, WireOrder
<1>6. \A i \in 1 .. Len(commands) :
        commands[i].stream = EchoStream(s) => Before(Body(commands[i]), events[1].bytes)
  BY <1>1 DEF OrderInv, CommandOrder
<1>7. \A j \in 1 .. Len(events') :
        DataOf(events'[j], s) => Before(events[1].bytes, events'[j].bytes)
  BY <1>2, <1>3
<1> QED
  BY <1>1, <1>3, <1>4, <1>5, <1>6, <1>7

(* Of a channel that lost its first event the rest stays as it was.        *)
LEMMA RestInOrder ==
  ASSUME OrderInv, events # <<>>, events' = Tail(events), UNCHANGED told
  PROVE  /\ EventOrder'
         /\ \A u, b : (\A j \in 1 .. Len(events) :
                         DataOf(events[j], u) => Before(b, events[j].bytes))
              => \A j \in 1 .. Len(events') :
                         DataOf(events'[j], u) => Before(b, events'[j].bytes)
<1>1. /\ Len(events) \in Nat /\ Len(events') = Len(events) - 1
      /\ \A i \in 1 .. Len(events') : events'[i] = events[i + 1]
  BY TakenOut DEF OrderInv, IInv, TypeOK
<1>2. \A j \in 1 .. Len(events') : j + 1 \in 1 .. Len(events) /\ events'[j] = events[j + 1]
  BY <1>1
<1>3. \A i, j : i \in 1 .. Len(events') /\ j \in 1 .. Len(events') /\ i < j => i + 1 < j + 1
  OBVIOUS
<1>4. EventOrder'
  BY <1>2, <1>3 DEF OrderInv, EventOrder
<1> QED
  BY <1>2, <1>4

(* A bidirectional echo: the event becomes a command.                      *)
LEMMA OrderOfBidi ==
  ASSUME OrderInv, OnBidiData
  PROVE  /\ EventOrder' /\ PayloadOrder' /\ CommandOrder' /\ WireOrder'
         /\ OneCommand' /\ NewStreams'
<1> DEFINE e == Head(events)
           s == e.stream
           m == Len(commands)
           c == [stream |-> s, bytes |-> e.bytes, fin |-> e.fin]
<1>1. /\ Received("data") /\ s \in BidiStreams
      /\ QueueStreamSend(s, e.bytes, e.fin)
      /\ events' = Tail(events)
      /\ UNCHANGED <<told, wire, echoedOn, nextUni, uniPayloads>>
  BY DEF OnBidiData, driverVars, sendVars, appVars
<1>2. /\ events # <<>> /\ e \in Event /\ DataOf(e, s)
      /\ IInv /\ s \in Streams
  BY <1>1, HeadEvent DEF OrderInv, DataOf, IsData, Streams
<1>3. c \in Command /\ commands' = Append(commands, c) /\ commands \in Seq(Command)
  BY <1>1, <1>2, NoneIsNone DEF Event, Command, QueueStreamSend, IInv, TypeOK
<1>4. c.stream = s /\ Body(c) = e.bytes
  BY <1>1 DEF Body
<1> HIDE DEF c
<1>5. /\ m \in Nat /\ Len(commands') = m + 1
      /\ \A i \in 1 .. m : commands'[i] = commands[i]
      /\ commands'[m + 1] = c
  BY <1>3, PutIn
<1>6. \A i \in 1 .. Len(commands') : \/ i \in 1 .. m /\ commands'[i] = commands[i]
                                     \/ i = m + 1 /\ commands'[i] = c
  BY <1>5
<1>7. \A u \in Streams : EchoStream(u) = s => u = s
  BY <1>1, <1>2, EchoStreamOfOne
<1>8. /\ InOrder(s, Body(c), told[s])
      /\ \A j \in 1 .. Len(events') : DataOf(events'[j], s) => Before(Body(c), events'[j].bytes)
      /\ Before(Echoed(s), Body(c))
      /\ \A i \in 1 .. m :
           commands[i].stream = EchoStream(s) => Before(Body(commands[i]), Body(c))
  BY <1>1, <1>2, <1>4, HeadInOrder
<1>9. /\ EventOrder'
      /\ \A u, b : (\A j \in 1 .. Len(events) :
                      DataOf(events[j], u) => Before(b, events[j].bytes))
           => \A j \in 1 .. Len(events') :
                      DataOf(events'[j], u) => Before(b, events'[j].bytes)
  BY <1>1, <1>2, RestInOrder
<1> HIDE DEF m, s, e
<1>10. PayloadOrder'
  BY <1>1, <1>9 DEF OrderInv, PayloadOrder
<1>11. CommandOrder'
  <2> SUFFICES ASSUME NEW u \in Streams, NEW i \in 1 .. Len(commands'),
                      commands'[i].stream = EchoStream(u)
               PROVE  /\ InOrder(u, Body(commands'[i]), told[u])
                      /\ \A j \in 1 .. Len(commands') :
                           commands'[j].stream = EchoStream(u) /\ i < j =>
                             Before(Body(commands'[i]), Body(commands'[j]))
                      /\ \A j \in 1 .. Len(events') :
                           DataOf(events'[j], u) => Before(Body(commands'[i]), events'[j].bytes)
    BY <1>1 DEF CommandOrder, EchoStream
  <2>1. CASE i = m + 1 /\ commands'[i] = c
    <3>1. u = s
      BY <1>4, <1>7, <2>1
    <3>2. \A j \in 1 .. Len(commands') : ~(i < j)
      BY <1>5, <2>1
    <3> QED
      BY <1>8, <2>1, <3>1, <3>2
  <2>2. CASE i \in 1 .. m /\ commands'[i] = commands[i]
    <3>1. /\ InOrder(u, Body(commands[i]), told[u])
          /\ \A j \in 1 .. m :
               commands[j].stream = EchoStream(u) /\ i < j =>
                 Before(Body(commands[i]), Body(commands[j]))
          /\ \A j \in 1 .. Len(events) :
               DataOf(events[j], u) => Before(Body(commands[i]), events[j].bytes)
      BY <2>2 DEF OrderInv, CommandOrder, m
    <3>2. ASSUME NEW j \in 1 .. Len(commands'), commands'[j].stream = EchoStream(u), i < j
          PROVE  Before(Body(commands'[i]), Body(commands'[j]))
      <4>1. CASE j \in 1 .. m /\ commands'[j] = commands[j]
        BY <2>2, <3>1, <3>2, <4>1
      <4>2. CASE j = m + 1 /\ commands'[j] = c
        BY <1>4, <1>7, <1>8, <2>2, <3>2, <4>2
      <4> QED
        BY <1>6, <4>1, <4>2
    <3> QED
      BY <1>9, <2>2, <3>1, <3>2
  <2> QED
    BY <1>6, <2>1, <2>2
<1>12. WireOrder'
  <2>1. \A u : Echoed(u)' = Echoed(u) /\ EchoStream(u)' = EchoStream(u)
    BY <1>1 DEF Echoed, OnWire, EchoStream
  <2> SUFFICES ASSUME NEW u \in Streams
               PROVE  /\ InOrder(u, Echoed(u), told[u])
                      /\ \A i \in 1 .. Len(commands') :
                           commands'[i].stream = EchoStream(u) =>
                             Before(Echoed(u), Body(commands'[i]))
                      /\ \A j \in 1 .. Len(events') :
                           DataOf(events'[j], u) => Before(Echoed(u), events'[j].bytes)
    BY <1>1, <2>1 DEF WireOrder
  <2>2. /\ InOrder(u, Echoed(u), told[u])
        /\ \A i \in 1 .. m :
             commands[i].stream = EchoStream(u) => Before(Echoed(u), Body(commands[i]))
        /\ \A j \in 1 .. Len(events) :
             DataOf(events[j], u) => Before(Echoed(u), events[j].bytes)
    BY DEF OrderInv, WireOrder, m
  <2>3. \A i \in 1 .. Len(commands') :
          commands'[i].stream = EchoStream(u) => Before(Echoed(u), Body(commands'[i]))
    BY <1>4, <1>6, <1>7, <1>8, <2>2
  <2> QED
    BY <1>9, <2>2, <2>3
<1>13. OneCommand'
  <2> SUFFICES ASSUME NEW i \in 1 .. Len(commands'), commands'[i].stream \notin BidiStreams
               PROVE  /\ commands'[i].stream < nextUni
                      /\ OnWire(commands'[i].stream) = <<>>
                      /\ commands'[i].bytes # <<>>
                      /\ \A j \in 1 .. Len(commands') :
                           commands'[j].stream = commands'[i].stream => i = j
    BY <1>1 DEF OneCommand, OnWire
  <2>1. i \in 1 .. m /\ commands'[i] = commands[i]
    BY <1>1, <1>4, <1>6
  <2>2. /\ commands[i].stream < nextUni
        /\ OnWire(commands[i].stream) = <<>>
        /\ commands[i].bytes # <<>>
        /\ \A j \in 1 .. m : commands[j].stream = commands[i].stream => i = j
    BY <2>1 DEF OrderInv, OneCommand, m
  <2> QED
    BY <1>1, <1>4, <1>6, <2>1, <2>2
<1>14. NewStreams'
  BY <1>1 DEF OrderInv, NewStreams
<1> QED
  BY <1>9, <1>10, <1>11, <1>12, <1>13, <1>14

-----------------------------------------------------------------------------
(* What is collected of a unidirectional stream stays in order.            *)
LEMMA CollectedInOrder ==
  ASSUME OrderInv, OnUniData
  PROVE  LET e == Head(events) IN
         /\ Collected(e).bytes \in Seq(Unit) /\ Collected(e).session \in Requests
         /\ InOrder(e.stream, Collected(e).bytes, told[e.stream])
         /\ \A j \in 1 .. Len(events') :
              DataOf(events'[j], e.stream) => Before(Collected(e).bytes, events'[j].bytes)
<1> DEFINE e == Head(events)
           s == e.stream
<1>1. Received("data") /\ s \in UniStreams /\ events' = Tail(events) /\ UNCHANGED told
  BY DEF OnUniData, driverVars
<1>2. /\ IInv /\ events # <<>> /\ e \in Event /\ DataOf(e, s) /\ EventOK(e) /\ IsData(e)
      /\ s \in Streams /\ e.bytes \in Seq(Unit)
  BY <1>1, HeadEvent DEF OrderInv, DataOf, IsData, Streams, Event
<1>3. Collected(e).bytes \in Seq(Unit) /\ Collected(e).session \in Requests
  BY <1>1, <1>2, CollectedType
<1>4. /\ InOrder(s, e.bytes, told[s])
      /\ \A j \in 1 .. Len(events') : DataOf(events'[j], s) => Before(e.bytes, events'[j].bytes)
      /\ s \in DOMAIN uniPayloads => Before(uniPayloads[s].bytes, e.bytes)
  BY <1>1, <1>2, HeadInOrder
<1>5. CASE s \notin DOMAIN uniPayloads
  <2>1. Collected(e).bytes = e.bytes
    BY <1>5 DEF Collected
  <2> QED
    BY <1>3, <1>4, <2>1
<1>6. CASE s \in DOMAIN uniPayloads
  <2> DEFINE b == uniPayloads[s].bytes
  <2>1. uniPayloads[s] \in [session : Requests, bytes : Seq(Unit)]
    BY <1>2, <1>6 DEF IInv, TypeOK
  <2>2. Collected(e).bytes = b \o e.bytes /\ b \in Seq(Unit)
    BY <1>6, <2>1 DEF Collected
  <2>3. InOrder(s, b, told[s]) /\ Before(b, e.bytes)
    BY <1>4, <1>6 DEF OrderInv, PayloadOrder
  <2>4. \A j \in 1 .. Len(events') : DataOf(events'[j], s) => Before(b, events'[j].bytes)
    BY <1>1, <1>2, <1>6, RestInOrder DEF OrderInv, PayloadOrder
  <2> HIDE DEF b
  <2>5. InOrder(s, b \o e.bytes, told[s])
    BY <1>2, <1>4, <2>2, <2>3, OrderOfConcat
  <2>6. \A j \in 1 .. Len(events') :
          DataOf(events'[j], s) => Before(b \o e.bytes, events'[j].bytes)
    BY <1>2, <1>4, <2>2, <2>4, BeforeConcat
  <2> QED
    BY <1>3, <2>2, <2>5, <2>6
<1> QED
  BY <1>5, <1>6

LEMMA OrderOfCollecting ==
  ASSUME OrderInv, OnUniData, ~Head(events).fin
  PROVE  /\ EventOrder' /\ PayloadOrder' /\ CommandOrder' /\ WireOrder'
         /\ OneCommand' /\ NewStreams'
<1> DEFINE e == Head(events)
           s == e.stream
           entry == Collected(e)
<1>1. /\ Received("data") /\ s \in UniStreams /\ events' = Tail(events)
      /\ uniPayloads' = With(uniPayloads, s, entry)
      /\ UNCHANGED <<told, wire, commands, echoedOn, nextUni>>
  BY DEF OnUniData, driverVars, sendVars
<1>2. events # <<>>
  BY <1>1, HeadEvent DEF OrderInv
<1>3. /\ EventOrder' /\ CommandOrder' /\ WireOrder' /\ OneCommand' /\ NewStreams'
  BY <1>1, <1>2, OrderOfHandled
<1>4. /\ InOrder(s, entry.bytes, told[s])
      /\ \A j \in 1 .. Len(events') :
           DataOf(events'[j], s) => Before(entry.bytes, events'[j].bytes)
  BY CollectedInOrder
<1>5. /\ DOMAIN uniPayloads' = DOMAIN uniPayloads \cup {s}
      /\ uniPayloads'[s] = entry
      /\ \A u \in DOMAIN uniPayloads' : u # s =>
            u \in DOMAIN uniPayloads /\ uniPayloads'[u] = uniPayloads[u]
  BY <1>1 DEF With
<1> HIDE DEF entry, s
<1>6. PayloadOrder'
  <2> SUFFICES ASSUME NEW u \in DOMAIN uniPayloads'
               PROVE  /\ InOrder(u, uniPayloads'[u].bytes, told[u])
                      /\ \A j \in 1 .. Len(events') :
                           DataOf(events'[j], u) => Before(uniPayloads'[u].bytes, events'[j].bytes)
    BY <1>1 DEF PayloadOrder
  <2>1. CASE u = s
    BY <1>4, <1>5, <2>1
  <2>2. CASE u # s
    <3>1. /\ InOrder(u, uniPayloads[u].bytes, told[u])
          /\ \A j \in 1 .. Len(events) :
               DataOf(events[j], u) => Before(uniPayloads[u].bytes, events[j].bytes)
      BY <1>5, <2>2 DEF OrderInv, PayloadOrder
    <3> QED
      BY <1>1, <1>2, <1>5, <2>2, <3>1, RestInOrder
  <2> QED
    BY <2>1, <2>2
<1> QED
  BY <1>3, <1>6

(* The payload behind a preface.                                           *)
LEMMA PayloadBehindPreface ==
  ASSUME NEW q \in Requests, NEW bytes \in Seq(Unit)
  PROVE  Tail(Preface(q) \o bytes) = bytes
<1> DEFINE p == Preface(q)
           whole == p \o bytes
<1>1. <<q, 0>> \in Unit
  BY DEF Unit
<1>2. p \in Seq(Unit) /\ Len(p) = 1
  BY <1>1 DEF Preface
<1>3. /\ whole \in Seq(Unit) /\ Len(bytes) \in Nat
      /\ Len(whole) = Len(p) + Len(bytes)
      /\ \A i \in 1 .. Len(p) + Len(bytes) :
            whole[i] = IF i <= Len(p) THEN p[i] ELSE bytes[i - Len(p)]
  BY <1>2, ConcatProperties, LenProperties
<1> HIDE DEF p, whole
<1>4. whole # <<>>
  BY <1>2, <1>3, EmptySeq
<1>5. /\ Tail(whole) \in Seq(Unit) /\ Len(Tail(whole)) = Len(whole) - 1
      /\ \A i \in 1 .. Len(Tail(whole)) : Tail(whole)[i] = whole[i + 1]
  BY <1>3, <1>4, HeadTailProperties
<1>6. Len(Tail(whole)) = Len(bytes)
  BY <1>2, <1>3, <1>5
<1>7. \A i \in 1 .. Len(Tail(whole)) : Tail(whole)[i] = bytes[i]
  <2> SUFFICES ASSUME NEW i \in 1 .. Len(bytes) PROVE Tail(whole)[i] = bytes[i]
    BY <1>6
  <2>1. Tail(whole)[i] = whole[i + 1]
    BY <1>5, <1>6
  <2>2. i + 1 \in 1 .. Len(p) + Len(bytes) /\ ~(i + 1 <= Len(p)) /\ i + 1 - Len(p) = i
    BY <1>2, <1>3
  <2>3. whole[i + 1] = bytes[i + 1 - Len(p)]
    BY <1>3, <2>2
  <2> QED
    BY <2>1, <2>2, <2>3
<1>8. Tail(whole) = bytes
  BY <1>5, <1>6, <1>7, SeqEqual
<1> QED
  BY <1>8 DEF p, whole

(* The end of a unidirectional stream: what was collected becomes the one  *)
(* command of a new stream.                                                *)
LEMMA OrderOfUniEnd ==
  ASSUME OrderInv, OnUniData, Head(events).fin
  PROVE  /\ EventOrder' /\ PayloadOrder' /\ CommandOrder' /\ WireOrder'
         /\ OneCommand' /\ NewStreams'
<1> DEFINE e == Head(events)
<1>0. PICK s \in UniStreams : s = e.stream
  BY DEF OnUniData
<1> DEFINE m == Len(commands)
           body == Collected(e).bytes
           c == [stream |-> nextUni,
                 bytes |-> Preface(Collected(e).session) \o body, fin |-> TRUE]
<1>1. /\ Received("data") /\ events' = Tail(events)
      /\ uniPayloads' = Without(uniPayloads, s)
      /\ QueueStreamSend(nextUni, Preface(Collected(e).session) \o body, TRUE)
      /\ echoedOn' = [echoedOn EXCEPT ![s] = nextUni]
      /\ nextUni' = nextUni + 4
      /\ UNCHANGED <<told, wire>>
  BY <1>0 DEF OnUniData, driverVars, sendVars
<1>2. /\ IInv /\ events # <<>> /\ e \in Event /\ DataOf(e, s) /\ EventOK(e)
      /\ s \in Streams /\ nextUni \in Nat /\ commands \in Seq(Command)
      /\ echoedOn \in [UniStreams -> Nat \cup {None}]
  BY <1>0, <1>1, HeadEvent DEF OrderInv, DataOf, IsData, Streams, IInv, TypeOK
<1>3. /\ body \in Seq(Unit) /\ Collected(e).session \in Requests
      /\ InOrder(s, body, told[s])
  BY <1>0, CollectedInOrder
<1>4. /\ c \in Command /\ c.stream = nextUni /\ c.bytes # <<>>
      /\ Tail(c.bytes) = body
      /\ commands' = Append(commands, c)
  BY <1>1, <1>2, <1>3, PrefaceAndPayload, PayloadBehindPreface DEF Command, QueueStreamSend
<1> HIDE DEF c, body
<1>5. /\ m \in Nat /\ Len(commands') = m + 1
      /\ \A i \in 1 .. m : commands'[i] = commands[i]
      /\ commands'[m + 1] = c
  BY <1>2, <1>4, PutIn
<1>6. \A i \in 1 .. Len(commands') : \/ i \in 1 .. m /\ commands'[i] = commands[i]
                                     \/ i = m + 1 /\ commands'[i] = c
  BY <1>5
<1>7. \A j \in 1 .. Len(events') : ~DataOf(events'[j], s)
  <2>1. /\ Len(events) \in Nat /\ 1 \in 1 .. Len(events) /\ e = events[1]
        /\ Len(events') = Len(events) - 1
        /\ \A i \in 1 .. Len(events') : events'[i] = events[i + 1]
    BY <1>1, <1>2, TakenOut DEF IInv, TypeOK
  <2>2. \A j \in 1 .. Len(events') :
          j + 1 \in 1 .. Len(events) /\ 1 < j + 1 /\ events'[j] = events[j + 1]
    BY <2>1
  <2> QED
    BY <1>2, <2>1, <2>2 DEF IInv, FinLast, DataOf
<1>8. /\ EventOrder'
      /\ \A u, b : (\A j \in 1 .. Len(events) :
                      DataOf(events[j], u) => Before(b, events[j].bytes))
           => \A j \in 1 .. Len(events') :
                      DataOf(events'[j], u) => Before(b, events'[j].bytes)
  BY <1>1, <1>2, RestInOrder
<1>9. /\ \A i \in 1 .. m : commands[i].stream # nextUni
      /\ \A u \in Streams : EchoStream(u) # nextUni
      /\ nextUni \notin BidiStreams
  <2>1. \A i \in 1 .. m : commands[i] \in Command
    BY <1>2, ElementOfSeq
  <2>2. \A i \in 1 .. m : commands[i].stream \in BidiStreams \/ commands[i].stream < nextUni
    BY DEF OrderInv, OneCommand
  <2>3. \A i \in 1 .. m : commands[i].stream \in Nat
    BY <2>1 DEF Command
  <2>4. \A u \in Streams : EchoStream(u) # nextUni
    BY <1>2, EchoStreamOfOne
  <2>5. nextUni \notin BidiStreams
    BY <1>2, EchoStreamOfOne
  <2>6. \A k : k < nextUni /\ k \in Nat => k # nextUni
    BY <1>2
  <2> QED
    BY <2>2, <2>3, <2>4, <2>5, <2>6
<1>10. /\ EchoStream(s)' = nextUni
       /\ \A u \in Streams : u # s => EchoStream(u)' = EchoStream(u)
  <2>1. s \notin BidiStreams
    BY <1>1, NoneIsNone
  <2>2. \A u \in Streams : u \notin BidiStreams => u \in UniStreams
    BY DEF Streams
  <2> QED
    BY <1>1, <1>2, <2>1, <2>2 DEF EchoStream
<1>11. OnWire(nextUni) = <<>>
  BY <1>2, <1>9 DEF OrderInv, NewStreams, OnWire
<1>12. Body(c) = body
  BY <1>4, <1>9 DEF Body
<1> HIDE DEF m, e
<1>13. PayloadOrder'
  <2>1. \A u \in DOMAIN uniPayloads' : u \in DOMAIN uniPayloads /\ uniPayloads'[u] = uniPayloads[u]
    BY <1>1 DEF Without
  <2> QED
    BY <1>1, <1>8, <2>1 DEF OrderInv, PayloadOrder
<1>14. CommandOrder'
  <2> SUFFICES ASSUME NEW u \in Streams, NEW i \in 1 .. Len(commands'),
                      commands'[i].stream = EchoStream(u)'
               PROVE  /\ InOrder(u, Body(commands'[i]), told[u])
                      /\ \A j \in 1 .. Len(commands') :
                           commands'[j].stream = EchoStream(u)' /\ i < j =>
                             Before(Body(commands'[i]), Body(commands'[j]))
                      /\ \A j \in 1 .. Len(events') :
                           DataOf(events'[j], u) => Before(Body(commands'[i]), events'[j].bytes)
    BY <1>1 DEF CommandOrder
  <2>1. CASE u = s
    <3>1. i = m + 1 /\ commands'[i] = c
      BY <1>6, <1>9, <1>10, <2>1
    <3>2. \A j \in 1 .. Len(commands') : ~(i < j)
      BY <1>5, <3>1
    <3> QED
      BY <1>3, <1>7, <1>12, <2>1, <3>1, <3>2
  <2>2. CASE u # s
    <3>1. EchoStream(u)' = EchoStream(u) /\ EchoStream(u) # nextUni
      BY <1>9, <1>10, <2>2
    <3>2. \A j \in 1 .. Len(commands') : commands'[j].stream = EchoStream(u) =>
            j \in 1 .. m /\ commands'[j] = commands[j]
      BY <1>4, <1>6, <3>1
    <3>3. i \in 1 .. m /\ commands'[i] = commands[i] /\ commands[i].stream = EchoStream(u)
      BY <3>1, <3>2
    <3>4. /\ InOrder(u, Body(commands[i]), told[u])
          /\ \A j \in 1 .. m :
               commands[j].stream = EchoStream(u) /\ i < j =>
                 Before(Body(commands[i]), Body(commands[j]))
          /\ \A j \in 1 .. Len(events) :
               DataOf(events[j], u) => Before(Body(commands[i]), events[j].bytes)
      BY <3>3 DEF OrderInv, CommandOrder, m
    <3> QED
      BY <1>8, <3>1, <3>2, <3>3, <3>4
  <2> QED
    BY <2>1, <2>2
<1>15. WireOrder'
  <2> SUFFICES ASSUME NEW u \in Streams
               PROVE  /\ InOrder(u, Echoed(u)', told[u])
                      /\ \A i \in 1 .. Len(commands') :
                           commands'[i].stream = EchoStream(u)' =>
                             Before(Echoed(u)', Body(commands'[i]))
                      /\ \A j \in 1 .. Len(events') :
                           DataOf(events'[j], u) => Before(Echoed(u)', events'[j].bytes)
    BY <1>1 DEF WireOrder
  <2>1. \A n : OnWire(n)' = OnWire(n)
    BY <1>1 DEF OnWire
  <2>2. CASE u = s
    <3>1. Echoed(u)' = <<>>
      BY <1>10, <1>11, <1>1, <2>1, <2>2 DEF Echoed, OnWire
    <3> QED
      BY <3>1, EmptyInOrder
  <2>3. CASE u # s
    <3>1. EchoStream(u)' = EchoStream(u) /\ EchoStream(u) # nextUni
      BY <1>9, <1>10, <2>3
    <3>2. Echoed(u)' = Echoed(u)
      BY <1>1, <3>1 DEF Echoed, OnWire
    <3>3. \A j \in 1 .. Len(commands') : commands'[j].stream = EchoStream(u) =>
            j \in 1 .. m /\ commands'[j] = commands[j]
      BY <1>4, <1>6, <3>1
    <3>4. /\ InOrder(u, Echoed(u), told[u])
          /\ \A i \in 1 .. m :
               commands[i].stream = EchoStream(u) => Before(Echoed(u), Body(commands[i]))
          /\ \A j \in 1 .. Len(events) :
               DataOf(events[j], u) => Before(Echoed(u), events[j].bytes)
      BY DEF OrderInv, WireOrder, m
    <3> QED
      BY <1>8, <3>1, <3>2, <3>3, <3>4
  <2> QED
    BY <2>2, <2>3
<1>16. OneCommand'
  <2>1. nextUni < nextUni' /\ \A k \in Nat : k < nextUni => k < nextUni'
    BY <1>1, <1>2
  <2> SUFFICES ASSUME NEW i \in 1 .. Len(commands'), commands'[i].stream \notin BidiStreams
               PROVE  /\ commands'[i].stream < nextUni'
                      /\ OnWire(commands'[i].stream) = <<>>
                      /\ commands'[i].bytes # <<>>
                      /\ \A j \in 1 .. Len(commands') :
                           commands'[j].stream = commands'[i].stream => i = j
    BY <1>1 DEF OneCommand, OnWire
  <2>2. CASE i = m + 1 /\ commands'[i] = c
    BY <1>4, <1>6, <1>9, <1>11, <2>1, <2>2 DEF m
  <2>3. CASE i \in 1 .. m /\ commands'[i] = commands[i]
    <3>1. /\ commands[i].stream < nextUni
          /\ OnWire(commands[i].stream) = <<>>
          /\ commands[i].bytes # <<>>
          /\ \A j \in 1 .. m : commands[j].stream = commands[i].stream => i = j
      BY <2>3 DEF OrderInv, OneCommand, m
    <3>2. commands[i].stream \in Nat
      <4>1. commands[i] \in Command
        BY <1>2, <2>3, ElementOfSeq DEF m
      <4> QED
        BY <4>1 DEF Command
    <3>3. \A j \in 1 .. Len(commands') : commands'[j].stream = commands'[i].stream => i = j
      BY <1>4, <1>6, <1>9, <2>3, <3>1 DEF m
    <3> QED
      BY <2>1, <2>3, <3>1, <3>2, <3>3
  <2> QED
    BY <1>6, <2>2, <2>3
<1>17. NewStreams'
  <2>1. \A n \in DOMAIN wire : n \in Nat
    BY <1>2 DEF IInv, TypeOK
  <2>2. \A n \in Nat : n < nextUni => n < nextUni'
    BY <1>1, <1>2
  <2> QED
    BY <1>1, <2>1, <2>2 DEF OrderInv, NewStreams
<1> QED
  BY <1>8, <1>13, <1>14, <1>15, <1>16, <1>17

-----------------------------------------------------------------------------
(* What is left of the commands stays in order.                            *)
LEMMA RestOfCommands ==
  ASSUME OrderInv, Execute
  PROVE  /\ UNCHANGED <<told, events, uniPayloads, echoedOn, nextUni>>
         /\ Head(commands) \in Command /\ Head(commands) = commands[1]
         /\ 1 \in 1 .. Len(commands)
         /\ \A j \in 1 .. Len(commands') :
              j + 1 \in 1 .. Len(commands) /\ 1 < j + 1 /\ commands'[j] = commands[j + 1]
         /\ EventOrder' /\ PayloadOrder' /\ CommandOrder'
<1>1. /\ commands # <<>> /\ commands' = Tail(commands)
      /\ UNCHANGED <<told, events, uniPayloads, echoedOn, nextUni>>
  BY DEF Execute, driverVars, appVars
<1>2. /\ Head(commands) \in Command /\ Head(commands) = commands[1]
      /\ Len(commands) \in Nat /\ 1 \in 1 .. Len(commands)
      /\ Len(commands') = Len(commands) - 1
      /\ \A j \in 1 .. Len(commands') : commands'[j] = commands[j + 1]
  BY <1>1, TakenOut DEF OrderInv, IInv, TypeOK
<1>3. \A j \in 1 .. Len(commands') :
        j + 1 \in 1 .. Len(commands) /\ 1 < j + 1 /\ commands'[j] = commands[j + 1]
  BY <1>2
<1>4. \A i, j : i \in 1 .. Len(commands') /\ j \in 1 .. Len(commands') /\ i < j => i + 1 < j + 1
  OBVIOUS
<1>5. EventOrder' /\ PayloadOrder'
  BY <1>1 DEF OrderInv, EventOrder, PayloadOrder
<1>6. CommandOrder'
  <2> SUFFICES ASSUME NEW u \in Streams, NEW i \in 1 .. Len(commands'),
                      commands'[i].stream = EchoStream(u)
               PROVE  /\ InOrder(u, Body(commands'[i]), told[u])
                      /\ \A j \in 1 .. Len(commands') :
                           commands'[j].stream = EchoStream(u) /\ i < j =>
                             Before(Body(commands'[i]), Body(commands'[j]))
                      /\ \A j \in 1 .. Len(events) :
                           DataOf(events[j], u) => Before(Body(commands'[i]), events[j].bytes)
    BY <1>1 DEF CommandOrder, EchoStream
  <2>1. i + 1 \in 1 .. Len(commands) /\ commands'[i] = commands[i + 1]
    BY <1>3
  <2>2. /\ InOrder(u, Body(commands[i + 1]), told[u])
        /\ \A j \in 1 .. Len(commands) :
             commands[j].stream = EchoStream(u) /\ i + 1 < j =>
               Before(Body(commands[i + 1]), Body(commands[j]))
        /\ \A j \in 1 .. Len(events) :
             DataOf(events[j], u) => Before(Body(commands[i + 1]), events[j].bytes)
    BY <2>1 DEF OrderInv, CommandOrder
  <2> QED
    BY <1>3, <1>4, <2>1, <2>2
<1> QED
  BY <1>1, <1>2, <1>3, <1>5, <1>6

(* What quiche takes of a command is the beginning of it, and all of it on *)
(* a stream that is not short.                                             *)
LEMMA WorkerSends ==
  ASSUME IInv, Execute
  PROVE  \/ Head(commands).stream \in finished /\ UNCHANGED <<wire, finished>>
         \/ \E fr \in Seq(Unit) :
              /\ Head(commands).stream \notin finished
              /\ \/ finished' = finished
                 \/ Head(commands).fin /\ finished' = finished \cup {Head(commands).stream}
              /\ FrontOf(fr, Head(commands).bytes)
              /\ \A u \in Streams \ Short :
                   EchoStream(u) = Head(commands).stream => fr = Head(commands).bytes
              /\ wire' = With(wire, Head(commands).stream, OnWire(Head(commands).stream) \o fr)
<1> DEFINE c == Head(commands)
<1>1. CASE c.stream \in finished
  BY <1>1 DEF Execute, sendVars
<1>2. CASE c.stream \notin finished
  <2>1. PICK k \in Taken(c.stream, Len(c.bytes)) :
          /\ wire' = With(wire, c.stream, OnWire(c.stream) \o SubSeq(c.bytes, 1, k))
          /\ finished' = IF c.fin /\ k = Len(c.bytes)
                         THEN finished \cup {c.stream} ELSE finished
    BY <1>2 DEF Execute
  <2>2. c \in Command /\ commands # <<>>
    BY TakenOut DEF Execute, IInv, TypeOK
  <2>3. c.bytes \in Seq(Unit) /\ c.stream \in Nat
    BY <2>2 DEF Command
  <2> DEFINE fr == SubSeq(c.bytes, 1, k)
  <2>4. /\ k \in 0 .. Len(c.bytes) /\ fr \in Seq(Unit) /\ Len(fr) = k
        /\ \A i \in 1 .. k : fr[i] = c.bytes[i]
    BY <2>1, <2>3, TakenSome
  <2>5. Len(c.bytes) \in Nat
    BY <2>3, LenProperties
  <2> HIDE DEF fr
  <2>6. FrontOf(fr, c.bytes)
    BY <2>4, <2>5 DEF FrontOf
  <2>7. ASSUME NEW u \in Streams \ Short, EchoStream(u) = c.stream
        PROVE  fr = c.bytes
    <3>1. c.stream # None
      BY <2>3, NoneIsNone
    <3>2. \A v \in Streams : EchoStream(v) = EchoStream(u) => v = u
      BY <2>7, <3>1, EchoStreamOfOne
    <3>3. ~ \E v \in Short : EchoStream(v) = c.stream
      BY <2>7, <3>2, QuicheAssumption
    <3>4. k = Len(c.bytes)
      BY <2>1, <3>3 DEF Taken
    <3> QED
      BY <2>3, <2>4, <3>4, SeqEqual
  <2>8. wire' = With(wire, c.stream, OnWire(c.stream) \o fr)
    BY <2>1 DEF fr
  <2> QED
    BY <1>2, <2>1, <2>4, <2>6, <2>7, <2>8
<1> QED
  BY <1>1, <1>2

(* On the wire, the echo grows by the beginning of what the command has.   *)
LEMMA EchoGrows ==
  ASSUME OrderInv, Execute
  PROVE  LET c == Head(commands) IN
         /\ \A n : n # c.stream => OnWire(n)' = OnWire(n)
         /\ \A u \in Streams :
              \/ Echoed(u)' = Echoed(u) /\ (c.stream \in finished \/ EchoStream(u) # c.stream)
              \/ /\ EchoStream(u) = c.stream
                 /\ \E fr \in Seq(Unit) :
                      /\ FrontOf(fr, Body(c))
                      /\ u \notin Short => fr = Body(c)
                      /\ Echoed(u)' = Echoed(u) \o fr
<1>1. /\ UNCHANGED <<told, events, uniPayloads, echoedOn, nextUni>>
      /\ Head(commands) \in Command /\ Head(commands) = commands[1]
      /\ 1 \in 1 .. Len(commands) /\ IInv
  BY RestOfCommands DEF OrderInv
<1>2. PICK c \in Command : c = Head(commands)
  BY <1>1
<1>3. c.bytes \in Seq(Unit) /\ c.stream \in Nat
  BY DEF Command
<1>4. \A u : EchoStream(u)' = EchoStream(u)
  BY <1>1 DEF EchoStream
<1>5. CASE c.stream \in finished /\ wire' = wire
  BY <1>2, <1>4, <1>5 DEF OnWire, Echoed
<1>6. ASSUME NEW fr \in Seq(Unit), FrontOf(fr, c.bytes),
             \A u \in Streams \ Short : EchoStream(u) = c.stream => fr = c.bytes,
             wire' = With(wire, c.stream, OnWire(c.stream) \o fr)
      PROVE  /\ \A n : n # c.stream => OnWire(n)' = OnWire(n)
             /\ \A u \in Streams :
                  \/ Echoed(u)' = Echoed(u) /\ EchoStream(u) # c.stream
                  \/ /\ EchoStream(u) = c.stream
                     /\ \E gr \in Seq(Unit) :
                          /\ FrontOf(gr, Body(c))
                          /\ u \notin Short => gr = Body(c)
                          /\ Echoed(u)' = Echoed(u) \o gr
  <2>1. \A n : n # c.stream => OnWire(n)' = OnWire(n)
    BY <1>6 DEF OnWire, With
  <2>2. OnWire(c.stream)' = OnWire(c.stream) \o fr
    BY <1>6 DEF OnWire, With
  <2> SUFFICES ASSUME NEW u \in Streams, EchoStream(u) = c.stream
               PROVE  \E gr \in Seq(Unit) :
                        /\ FrontOf(gr, Body(c))
                        /\ u \notin Short => gr = Body(c)
                        /\ Echoed(u)' = Echoed(u) \o gr
    <3>1. \A u \in Streams : EchoStream(u) # c.stream => Echoed(u)' = Echoed(u)
      BY <1>4, <2>1 DEF Echoed
    <3> QED
      BY <2>1, <3>1
  <2>3. OnWire(EchoStream(u))' = OnWire(c.stream) \o fr
    BY <1>4, <2>2
  <2>4. CASE c.stream \in BidiStreams
    <3>1. u \in BidiStreams
      BY <1>1, <2>4, EchoStreamOfOne
    <3>2. Echoed(u)' = Echoed(u) \o fr
      BY <2>3, <3>1 DEF Echoed
    <3>3. Body(c) = c.bytes
      BY <2>4 DEF Body
    <3>4. u \notin Short => fr = c.bytes
      BY <1>6
    <3> QED
      BY <1>6, <3>2, <3>3, <3>4
  <2>5. CASE c.stream \notin BidiStreams
    <3>1. u \notin BidiStreams
      BY <2>5 DEF EchoStream
    <3>2. OnWire(c.stream) = <<>> /\ c.bytes # <<>>
      BY <1>1, <1>2, <2>5 DEF OrderInv, OneCommand
    <3>3. OnWire(EchoStream(u))' = fr /\ Echoed(u) = <<>>
      BY <2>3, <3>1, <3>2, ConcatEmptySeq DEF Echoed
    <3>4. Body(c) = Tail(c.bytes)
      BY <2>5 DEF Body
    <3>5. /\ Len(c.bytes) \in Nat /\ Len(c.bytes) >= 1 /\ Tail(c.bytes) \in Seq(Unit)
          /\ Len(Tail(c.bytes)) = Len(c.bytes) - 1
          /\ \A i \in 1 .. Len(Tail(c.bytes)) : Tail(c.bytes)[i] = c.bytes[i + 1]
      BY <1>3, <3>2, TakenOut
    <3>6. CASE fr = <<>>
      <4>1. Echoed(u)' = <<>>
        BY <3>1, <3>3, <3>6 DEF Echoed
      <4>2. fr # c.bytes
        BY <3>2, <3>6
      <4>3. u \in Short
        BY <1>6, <4>2
      <4>4. FrontOf(<<>>, Body(c))
        BY <3>4, <3>5 DEF FrontOf
      <4>5. <<>> \in Seq(Unit) /\ <<>> \o <<>> = <<>>
        BY EmptySeq, ConcatEmptySeq
      <4> QED
        BY <3>3, <4>1, <4>3, <4>4, <4>5
    <3>7. CASE fr # <<>>
      <4>1. Echoed(u)' = Tail(fr)
        BY <3>1, <3>3, <3>7 DEF Echoed
      <4>2. /\ Len(fr) \in Nat /\ Len(fr) >= 1 /\ Tail(fr) \in Seq(Unit)
            /\ Len(Tail(fr)) = Len(fr) - 1
            /\ \A i \in 1 .. Len(Tail(fr)) : Tail(fr)[i] = fr[i + 1]
        BY <3>7, TakenOut
      <4>3. FrontOf(Tail(fr), Tail(c.bytes))
        <5>1. Len(fr) <= Len(c.bytes) /\ \A i \in 1 .. Len(fr) : fr[i] = c.bytes[i]
          BY <1>6 DEF FrontOf
        <5>2. Len(Tail(fr)) <= Len(Tail(c.bytes))
          BY <3>5, <4>2, <5>1
        <5>3. \A i \in 1 .. Len(Tail(fr)) :
                i \in 1 .. Len(Tail(c.bytes)) /\ i + 1 \in 1 .. Len(fr)
          BY <3>5, <4>2, <5>2
        <5> QED
          BY <3>5, <4>2, <5>1, <5>2, <5>3 DEF FrontOf
      <4>4. u \notin Short => Tail(fr) = Tail(c.bytes)
        BY <1>6
      <4>5. <<>> \o Tail(fr) = Tail(fr)
        BY <4>2, ConcatEmptySeq
      <4> QED
        BY <3>3, <3>4, <4>1, <4>2, <4>3, <4>4, <4>5
    <3> QED
      BY <3>6, <3>7
  <2> QED
    BY <2>4, <2>5
<1> QED
  BY <1>1, <1>2, <1>5, <1>6, WorkerSends

LEMMA BodyType ==
  ASSUME NEW c \in Command, c.stream \notin BidiStreams => c.bytes # <<>>
  PROVE  Body(c) \in Seq(Unit)
<1>1. c.bytes \in Seq(Unit)
  BY DEF Command
<1>2. c.bytes # <<>> => Tail(c.bytes) \in Seq(Unit)
  BY <1>1, TakenOut
<1> QED
  BY <1>1, <1>2 DEF Body

LEMMA OrderOfExecute ==
  ASSUME OrderInv, Execute
  PROVE  /\ EventOrder' /\ PayloadOrder' /\ CommandOrder' /\ WireOrder'
         /\ OneCommand' /\ NewStreams'
<1>1. /\ UNCHANGED <<told, events, uniPayloads, echoedOn, nextUni>>
      /\ Head(commands) \in Command /\ Head(commands) = commands[1]
      /\ 1 \in 1 .. Len(commands)
      /\ \A j \in 1 .. Len(commands') :
           j + 1 \in 1 .. Len(commands) /\ 1 < j + 1 /\ commands'[j] = commands[j + 1]
      /\ EventOrder' /\ PayloadOrder' /\ CommandOrder'
  BY RestOfCommands
<1>2. PICK c \in Command : c = Head(commands)
  BY <1>1
<1>3. /\ \A n : n # c.stream => OnWire(n)' = OnWire(n)
      /\ \A u \in Streams :
           \/ Echoed(u)' = Echoed(u)
           \/ /\ EchoStream(u) = c.stream
              /\ \E fr \in Seq(Unit) : FrontOf(fr, Body(c)) /\ Echoed(u)' = Echoed(u) \o fr
  BY <1>2, EchoGrows
<1>4. c.stream \notin BidiStreams =>
        /\ c.stream < nextUni /\ c.bytes # <<>>
        /\ \A j \in 1 .. Len(commands) : commands[j].stream = c.stream => 1 = j
  BY <1>1, <1>2 DEF OrderInv, OneCommand
<1>5. Body(c) \in Seq(Unit)
  BY <1>4, BodyType
<1>6. WireOrder'
  <2> SUFFICES ASSUME NEW u \in Streams
               PROVE  /\ InOrder(u, Echoed(u)', told[u])
                      /\ \A i \in 1 .. Len(commands') :
                           commands'[i].stream = EchoStream(u) =>
                             Before(Echoed(u)', Body(commands'[i]))
                      /\ \A j \in 1 .. Len(events) :
                           DataOf(events[j], u) => Before(Echoed(u)', events[j].bytes)
    BY <1>1 DEF WireOrder, EchoStream
  <2>1. /\ InOrder(u, Echoed(u), told[u])
        /\ \A i \in 1 .. Len(commands) :
             commands[i].stream = EchoStream(u) => Before(Echoed(u), Body(commands[i]))
        /\ \A j \in 1 .. Len(events) :
             DataOf(events[j], u) => Before(Echoed(u), events[j].bytes)
    BY DEF OrderInv, WireOrder
  <2>2. CASE Echoed(u)' = Echoed(u)
    BY <1>1, <2>1, <2>2
  <2>3. ASSUME EchoStream(u) = c.stream,
               NEW fr \in Seq(Unit), FrontOf(fr, Body(c)), Echoed(u)' = Echoed(u) \o fr
        PROVE  /\ InOrder(u, Echoed(u)', told[u])
               /\ \A i \in 1 .. Len(commands') :
                    commands'[i].stream = EchoStream(u) =>
                      Before(Echoed(u)', Body(commands'[i]))
               /\ \A j \in 1 .. Len(events) :
                    DataOf(events[j], u) => Before(Echoed(u)', events[j].bytes)
    <3>1. /\ InOrder(u, Body(c), told[u])
          /\ \A j \in 1 .. Len(commands) :
               commands[j].stream = EchoStream(u) /\ 1 < j => Before(Body(c), Body(commands[j]))
          /\ \A j \in 1 .. Len(events) : DataOf(events[j], u) => Before(Body(c), events[j].bytes)
      BY <1>1, <1>2, <2>3 DEF OrderInv, CommandOrder
    <3>2. /\ InOrder(u, Body(c), told[u]) => InOrder(u, fr, told[u])
          /\ \A b : Before(Body(c), b) => Before(fr, b)
          /\ \A b : Before(b, Body(c)) => Before(b, fr)
      BY <1>5, <2>3, FrontInOrder
    <3>3. Before(Echoed(u), fr)
      BY <1>1, <1>2, <2>1, <2>3, <3>2
    <3>4. Echoed(u) \in Seq(Unit)
      BY EchoedType DEF OrderInv
    <3>5. InOrder(u, Echoed(u)', told[u])
      BY <2>1, <2>3, <3>1, <3>2, <3>3, <3>4, OrderOfConcat
    <3>6. \A b : Before(Echoed(u), b) /\ Before(fr, b) => Before(Echoed(u)', b)
      BY <2>3, <3>4, BeforeConcat
    <3>7. \A i \in 1 .. Len(commands') :
            commands'[i].stream = EchoStream(u) => Before(Echoed(u)', Body(commands'[i]))
      BY <1>1, <2>1, <3>1, <3>2, <3>6
    <3>8. \A j \in 1 .. Len(events) :
            DataOf(events[j], u) => Before(Echoed(u)', events[j].bytes)
      BY <2>1, <3>1, <3>2, <3>6
    <3> QED
      BY <3>5, <3>7, <3>8
  <2> QED
    BY <1>3, <2>2, <2>3
<1>7. OneCommand'
  <2> SUFFICES ASSUME NEW i \in 1 .. Len(commands'), commands'[i].stream \notin BidiStreams
               PROVE  /\ commands'[i].stream < nextUni
                      /\ \A n : n = commands'[i].stream => OnWire(n)' = <<>>
                      /\ commands'[i].bytes # <<>>
                      /\ \A j \in 1 .. Len(commands') :
                           commands'[j].stream = commands'[i].stream => i = j
    BY <1>1 DEF OneCommand, OnWire
  <2>1. i + 1 \in 1 .. Len(commands) /\ 1 < i + 1 /\ commands'[i] = commands[i + 1]
    BY <1>1
  <2>2. /\ commands[i + 1].stream < nextUni
        /\ OnWire(commands[i + 1].stream) = <<>>
        /\ commands[i + 1].bytes # <<>>
        /\ \A j \in 1 .. Len(commands) : commands[j].stream = commands[i + 1].stream => i + 1 = j
    BY <2>1 DEF OrderInv, OneCommand
  <2>3. commands[i + 1].stream # c.stream
    BY <1>1, <1>2, <2>1, <2>2
  <2>4. \A n : n = commands'[i].stream => OnWire(n)' = <<>>
    BY <1>3, <2>1, <2>2, <2>3
  <2>5. \A j \in 1 .. Len(commands') : commands'[j].stream = commands'[i].stream => i + 1 = j + 1
    BY <1>1, <2>1, <2>2
  <2> QED
    BY <2>1, <2>2, <2>4, <2>5
<1>8. NewStreams'
  <2>1. \A n \in DOMAIN wire' : n = c.stream \/ (n \in DOMAIN wire /\ wire'[n] = wire[n])
    BY <1>2, WorkerSends DEF OrderInv, With
  <2> QED
    BY <1>1, <1>4, <2>1 DEF OrderInv, NewStreams
<1> QED
  BY <1>1, <1>6, <1>7, <1>8

-----------------------------------------------------------------------------
OrderParts ==
  EventOrder /\ PayloadOrder /\ CommandOrder /\ WireOrder /\ OneCommand /\ NewStreams

(* The client's own steps touch none of it.                                *)
LEMMA OrderOfNothing ==
  ASSUME OrderInv,
         UNCHANGED <<told, events, commands, wire, echoedOn, nextUni, uniPayloads>>
  PROVE  OrderParts'
<1>1. \A j \in 1 .. Len(events') : \A s \in Streams : DataOf(events'[j], s) =>
         j + 0 \in 1 .. Len(events) /\ events'[j] = events[j + 0]
  OBVIOUS
<1>2. \A j \in 1 .. Len(commands') :
         j + 0 \in 1 .. Len(commands) /\ commands'[j] = commands[j + 0]
  OBVIOUS
<1> QED
  BY <1>1, <1>2, OrderOfFewer DEF FewerPayloads, OrderParts

LEMMA OrderOfLibrary ==
  ASSUME OrderInv, Library
  PROVE  OrderParts'
<1>1. ASSUME NEW q \in Requests, ReportHeaders(q) PROVE OrderParts'
  <2>1. /\ events' = Append(events, EventOf("headers", q))
        /\ UNCHANGED <<told, wire, echoedOn, nextUni, commands, uniPayloads>>
    BY <1>1 DEF ReportHeaders, sendVars, appVars
  <2>2. EventOf("headers", q) \in Event /\ ~IsData(EventOf("headers", q))
    BY EventTypes DEF EventOf, IsData
  <2> QED
    BY <2>1, <2>2, OrderOfPlain DEF OrderParts
<1>2. ASSUME NEW s \in Streams, ReportData(s) PROVE OrderParts'
  BY <1>2, OrderOfReport DEF OrderParts
<1>3. ASSUME NEW n \in Streams \cup Requests, ReportGone(n) PROVE OrderParts'
  <2>1. /\ events' = Append(events, EventOf("gone", n))
        /\ UNCHANGED <<told, wire, echoedOn, nextUni, commands, uniPayloads>>
    BY <1>3 DEF ReportGone, sendVars, appVars
  <2>2. EventOf("gone", n) \in Event /\ ~IsData(EventOf("gone", n))
    BY EventTypes DEF EventOf, IsData
  <2> QED
    BY <2>1, <2>2, OrderOfPlain DEF OrderParts
<1>4. ASSUME Shutdown PROVE OrderParts'
  <2>1. /\ events' = Append(events, EventOf("shutdown", None))
        /\ UNCHANGED <<told, wire, echoedOn, nextUni, commands, uniPayloads>>
    BY <1>4 DEF Shutdown, driverVars, sendVars, appVars
  <2>2. EventOf("shutdown", None) \in Event /\ ~IsData(EventOf("shutdown", None))
    BY EventTypes DEF EventOf, IsData
  <2> QED
    BY <2>1, <2>2, OrderOfPlain DEF OrderParts
<1>5. ASSUME Execute PROVE OrderParts'
  BY <1>5, OrderOfExecute DEF OrderParts
<1> QED
  BY <1>1, <1>2, <1>3, <1>4, <1>5 DEF Library

LEMMA OrderOfApplication ==
  ASSUME OrderInv, Application
  PROVE  OrderParts'
<1>1. ASSUME OnHeaders PROVE OrderParts'
  <2>1. /\ Received("headers") /\ events' = Tail(events)
        /\ UNCHANGED <<told, wire, echoedOn, nextUni, commands>>
    BY <1>1 DEF OnHeaders, driverVars, sendVars
  <2>2. uniPayloads' = uniPayloads \/ uniPayloads' = <<>>
    BY <1>1 DEF OnHeaders, Respond, FailToRespond, Leave
  <2>3. FewerPayloads
    BY <2>2 DEF FewerPayloads
  <2>4. events # <<>>
    BY <2>1 DEF Received
  <2> QED
    BY <2>1, <2>3, <2>4, OrderOfHandled DEF OrderParts
<1>2. ASSUME OnBidiData PROVE OrderParts'
  BY <1>2, OrderOfBidi DEF OrderParts
<1>3. ASSUME OnUniData PROVE OrderParts'
  BY <1>3, OrderOfCollecting, OrderOfUniEnd DEF OrderParts
<1>4. ASSUME OnGone PROVE OrderParts'
  <2>1. /\ Received("gone") /\ events' = Tail(events)
        /\ uniPayloads' = Without(uniPayloads, Head(events).stream)
        /\ UNCHANGED <<told, wire, echoedOn, nextUni, commands>>
    BY <1>4 DEF OnGone, driverVars, sendVars
  <2>2. FewerPayloads
    BY <2>1 DEF FewerPayloads, Without
  <2>3. events # <<>>
    BY <2>1 DEF Received
  <2> QED
    BY <2>1, <2>2, <2>3, OrderOfHandled DEF OrderParts
<1>5. ASSUME OnShutdown PROVE OrderParts'
  <2>1. /\ Received("shutdown") /\ events' = Tail(events) /\ uniPayloads' = <<>>
        /\ UNCHANGED <<told, wire, echoedOn, nextUni, commands>>
    BY <1>5 DEF OnShutdown, Leave, driverVars, sendVars
  <2>2. FewerPayloads
    BY <2>1 DEF FewerPayloads
  <2>3. events # <<>>
    BY <2>1 DEF Received
  <2> QED
    BY <2>1, <2>2, <2>3, OrderOfHandled DEF OrderParts
<1> QED
  BY <1>1, <1>2, <1>3, <1>4, <1>5 DEF Application

LEMMA OrderNextInv == OrderInv /\ [Next]_vars => OrderInv'
<1> SUFFICES ASSUME OrderInv, [Next]_vars PROVE OrderInv'
  OBVIOUS
<1>1. IInv'
  BY NextInv DEF OrderInv
<1>2. ASSUME Client PROVE OrderParts'
  BY <1>2, OrderOfNothing DEF Client, driverVars, sendVars, appVars
<1>3. ASSUME UNCHANGED vars PROVE OrderParts'
  BY <1>3, OrderOfNothing DEF vars, driverVars, sendVars, appVars
<1>4. OrderParts'
  BY <1>2, <1>3, OrderOfLibrary, OrderOfApplication DEF Next
<1> QED
  BY <1>1, <1>4 DEF OrderInv, OrderParts

(* The bytes of every stream are in their order in each place they pass    *)
(* and from place to place (serve_connection, queue_stream_send).          *)
THEOREM OrderInvariant == Spec => []OrderInv
BY OrderInitInv, OrderNextInv, PTL DEF Spec

(* Whatever part of its writes quiche takes, the echo of a stream holds    *)
(* only bytes that arrived on that stream, each at most once and in the    *)
(* order in which they arrived (queue_stream_send, l.433-460).             *)
THEOREM NothingIsInvented == Spec => []NothingInvented
<1>1. OrderInv => NothingInvented
  <2> SUFFICES ASSUME OrderInv, NEW s \in Streams, NEW i \in 1 .. Len(Echoed(s))
               PROVE  /\ Echoed(s)[i][1] = s
                      /\ Echoed(s)[i][2] <= told[s]
                      /\ i > 1 => Echoed(s)[i - 1][2] < Echoed(s)[i][2]
    BY DEF NothingInvented
  <2>1. Echoed(s) \in Seq(Unit) /\ told[s] \in Nat
    BY EchoedType DEF OrderInv, IInv, TypeOK
  <2>2. InOrder(s, Echoed(s), told[s])
    BY DEF OrderInv, WireOrder
  <2>3. Len(Echoed(s)) \in Nat
    BY <2>1, LenProperties
  <2>4. Echoed(s)[i][1] = s /\ Echoed(s)[i][2] \in 1 .. told[s]
    BY <2>2 DEF InOrder, Of
  <2>5. i > 1 => i - 1 \in 1 .. Len(Echoed(s)) /\ i - 1 < i
    BY <2>3
  <2>6. i > 1 => Echoed(s)[i - 1][2] < Echoed(s)[i][2]
    BY <2>2, <2>5 DEF InOrder, Rising
  <2>7. Echoed(s)[i][2] <= told[s]
    BY <2>1, <2>4
  <2> QED
    BY <2>4, <2>6, <2>7
<1> QED
  BY <1>1, OrderInvariant, PTL

-----------------------------------------------------------------------------
(***************************************************************************)
(* Without GREASE, QuicheEcho implements EchoContract on the streams whose *)
(* writes quiche takes: what comes back has no gap, and the FIN comes back *)
(* behind the last byte only.                                              *)
(***************************************************************************)

Long == Streams \ Short

(* A piece is a run of the bytes of s without a gap.                       *)
Piece(s, b) == \E m \in Nat : b = Chunk(s, m, m + Len(b))
Has(b, p) == \E k \in 1 .. Len(b) : b[k][2] = p

EventPieces ==
  \A s \in Streams : \A i \in 1 .. Len(events) :
    DataOf(events[i], s) => Piece(s, events[i].bytes)
PayloadPieces == \A s \in DOMAIN uniPayloads : s \in Long => Piece(s, uniPayloads[s].bytes)
CommandPieces ==
  \A s \in Long : \A i \in 1 .. Len(commands) :
    commands[i].stream = EchoStream(s) => Piece(s, Body(commands[i]))
EchoPieces == \A s \in Long : \E n \in Nat : Echoed(s) = Payload(s, n)
PieceInv == EventPieces /\ PayloadPieces /\ CommandPieces /\ EchoPieces

(* Nothing more of s will be handled, and all of s has been.               *)
NoData(s) == \A i \in 1 .. Len(events) : ~DataOf(events[i], s)
Over(s) == s \in over /\ ended[s] /\ told[s] = sent[s]
Quiet(s) == Over(s) /\ NoData(s)

EventsDone ==
  \A i \in 1 .. Len(events) :
    /\ events[i].kind = "gone" =>
         /\ events[i].stream \in gone
         /\ \A j \in 1 .. Len(events) : i < j => ~DataOf(events[j], events[i].stream)
    /\ \A s \in Streams : DataOf(events[i], s) /\ events[i].fin => Over(s)
CommandsDone ==
  \A s \in Streams : \A i \in 1 .. Len(commands) :
    commands[i].stream = EchoStream(s) /\ commands[i].fin =>
      /\ Quiet(s)
      /\ \A j \in 1 .. Len(commands) : i < j => commands[j].stream # EchoStream(s)
EchoesDone ==
  /\ \A n \in finished : n \in BidiStreams \/ n < nextUni
  /\ \A s \in Streams : Answered(s) =>
       /\ Quiet(s)
       /\ \A i \in 1 .. Len(commands) : commands[i].stream # EchoStream(s)

(* Something of s is echoed or may be; then each byte the driver has       *)
(* reported is in one of the places on the way.                            *)
Live(s) ==
  \/ s \in BidiStreams \/ echoedOn[s] # None
  \/ running /\ (s \notin over \/ ~NoData(s))
InCommands(s, p) ==
  \E i \in 1 .. Len(commands) : commands[i].stream = EchoStream(s) /\ Has(Body(commands[i]), p)
InPayload(s, p) == s \in DOMAIN uniPayloads /\ Has(uniPayloads[s].bytes, p)
InEvents(s, p) == \E i \in 1 .. Len(events) : DataOf(events[i], s) /\ Has(events[i].bytes, p)
Somewhere(s, p) ==
  Has(Echoed(s), p) \/ InCommands(s, p) \/ InPayload(s, p) \/ InEvents(s, p)
Covered == \A s \in Long : Live(s) => \A p \in 1 .. told[s] : Somewhere(s, p)

ContractInv ==
  OrderInv /\ PieceInv /\ EventsDone /\ CommandsDone /\ EchoesDone /\ Covered

-----------------------------------------------------------------------------
(* What a step can do to the way of the bytes.                             *)
Resting ==
  UNCHANGED <<told, over, gone, events, commands, wire, finished, running,
              uniPayloads, nextUni, echoedOn>>
Announcing ==
  /\ \E e \in Event : /\ ~IsData(e) /\ events' = Append(events, e)
                      /\ e.kind = "gone" => e.stream \in gone'
  /\ over \subseteq over' /\ gone \subseteq gone'
  /\ UNCHANGED <<told, commands, wire, finished, running, uniPayloads, nextUni, echoedOn>>
Handling ==
  /\ events # <<>> /\ ~IsData(Head(events)) /\ events' = Tail(events)
  /\ FewerPayloads
  /\ running' => running
  /\ \A s \in DOMAIN uniPayloads \ DOMAIN uniPayloads' :
       running' => Head(events).kind = "gone" /\ Head(events).stream = s
  /\ UNCHANGED <<told, over, gone, commands, wire, finished, nextUni, echoedOn>>

LEMMA ClientEnds ==
  ASSUME IInv, [Next]_vars, NEW s \in Streams, ended[s]
  PROVE  ended'[s] /\ sent'[s] = sent[s]
<1>1. ended \in [Streams -> BOOLEAN] /\ sent \in [Streams -> Nat]
  BY DEF IInv, TypeOK, ClientTypeOK
<1>2. CASE UNCHANGED <<ended, sent>>
  BY <1>2
<1>3. CASE Client
  <2>1. ASSUME NEW u \in Streams, Write(u) PROVE ended'[s] /\ sent'[s] = sent[s]
    BY <1>1, <2>1 DEF Write, Usable
  <2>2. ASSUME NEW u \in Streams, End(u) PROVE ended'[s] /\ sent'[s] = sent[s]
    BY <1>1, <2>2 DEF End
  <2>3. \/ UNCHANGED <<ended, sent>>
        \/ \E u \in Streams : Write(u) \/ End(u)
    BY <1>3 DEF Client, ClientStep, Request, Cancel, Open, Reset
  <2> QED
    BY <1>2, <2>1, <2>2, <2>3
<1>4. CASE Library
  BY <1>2, <1>4 DEF Library, ReportHeaders, ReportData, ReportGone, Shutdown, Execute, clientVars
<1>5. CASE Application
  BY <1>2, <1>5 DEF Application, OnHeaders, OnBidiData, OnUniData, OnGone, OnShutdown, clientVars
<1>6. CASE UNCHANGED vars
  BY <1>2, <1>6 DEF vars, clientVars
<1> QED
  BY <1>3, <1>4, <1>5, <1>6 DEF Next

LEMMA StepKinds ==
  ASSUME IInv, [Next]_vars
  PROVE  \/ Resting \/ Announcing \/ Handling
         \/ \E s \in Streams : ReportData(s)
         \/ OnBidiData \/ OnUniData \/ Execute
<1>1. CASE Client
  BY <1>1 DEF Client, Resting, driverVars, sendVars, appVars
<1>2. CASE UNCHANGED vars
  BY <1>2 DEF vars, Resting, driverVars, sendVars, appVars
<1>3. ASSUME NEW q \in Requests, ReportHeaders(q) PROVE Announcing
  <2>1. /\ EventOf("headers", q) \in Event /\ ~IsData(EventOf("headers", q))
        /\ EventOf("headers", q).kind # "gone"
    BY EventTypes DEF EventOf, IsData
  <2>2. /\ events' = Append(events, EventOf("headers", q))
        /\ UNCHANGED <<over, gone, told, commands, sendVars, appVars>>
    BY <1>3 DEF ReportHeaders
  <2> QED
    BY <2>1, <2>2 DEF Announcing, sendVars, appVars
<1>4. ASSUME NEW n \in Streams \cup Requests, ReportGone(n) PROVE Announcing
  <2>1. /\ EventOf("gone", n) \in Event /\ ~IsData(EventOf("gone", n))
        /\ EventOf("gone", n).stream = n
    BY EventTypes DEF EventOf, IsData
  <2>2. /\ events' = Append(events, EventOf("gone", n))
        /\ gone' = gone \cup {n} /\ over' = over \cup ({n} \cap Streams)
        /\ UNCHANGED <<told, commands, sendVars, appVars>>
    BY <1>4 DEF ReportGone
  <2> QED
    BY <2>1, <2>2 DEF Announcing, sendVars, appVars
<1>5. ASSUME Shutdown PROVE Announcing
  <2>1. /\ EventOf("shutdown", None) \in Event /\ ~IsData(EventOf("shutdown", None))
        /\ EventOf("shutdown", None).kind # "gone"
    BY EventTypes DEF EventOf, IsData
  <2>2. /\ events' = Append(events, EventOf("shutdown", None))
        /\ UNCHANGED <<driverVars, commands, sendVars, appVars>>
    BY <1>5 DEF Shutdown
  <2> QED
    BY <2>1, <2>2 DEF Announcing, driverVars, sendVars, appVars
<1>6. ASSUME OnHeaders PROVE Handling
  <2>1. /\ Received("headers") /\ events' = Tail(events)
        /\ UNCHANGED <<driverVars, commands, sendVars, nextUni, echoedOn>>
    BY <1>6 DEF OnHeaders
  <2>2. \/ UNCHANGED <<uniPayloads, running>>
        \/ uniPayloads' = <<>> /\ running' = FALSE
    BY <1>6 DEF OnHeaders, Respond, FailToRespond, Leave
  <2>3. events # <<>> /\ ~IsData(Head(events)) /\ running
    BY <2>1 DEF Received, IsData
  <2>4. FewerPayloads
    BY <2>2 DEF FewerPayloads
  <2>5. \A s \in DOMAIN uniPayloads \ DOMAIN uniPayloads' : ~running'
    BY <2>2
  <2> QED
    BY <2>1, <2>2, <2>3, <2>4, <2>5 DEF Handling, driverVars, sendVars
<1>7. ASSUME OnGone PROVE Handling
  <2>1. /\ Received("gone") /\ events' = Tail(events)
        /\ uniPayloads' = Without(uniPayloads, Head(events).stream)
        /\ UNCHANGED <<driverVars, commands, sendVars, running, nextUni, echoedOn>>
    BY <1>7 DEF OnGone
  <2>2. events # <<>> /\ ~IsData(Head(events)) /\ Head(events).kind = "gone"
    BY <2>1 DEF Received, IsData
  <2>3. FewerPayloads
    BY <2>1 DEF FewerPayloads, Without
  <2>4. \A s \in DOMAIN uniPayloads \ DOMAIN uniPayloads' : Head(events).stream = s
    BY <2>1 DEF Without
  <2> QED
    BY <2>1, <2>2, <2>3, <2>4 DEF Handling, driverVars, sendVars
<1>8. ASSUME OnShutdown PROVE Handling
  <2>1. /\ Received("shutdown") /\ events' = Tail(events)
        /\ uniPayloads' = <<>> /\ running' = FALSE
        /\ UNCHANGED <<driverVars, commands, sendVars, nextUni, echoedOn>>
    BY <1>8 DEF OnShutdown, Leave
  <2>2. events # <<>> /\ ~IsData(Head(events))
    BY <2>1 DEF Received, IsData
  <2>3. FewerPayloads
    BY <2>1 DEF FewerPayloads
  <2> QED
    BY <2>1, <2>2, <2>3 DEF Handling, driverVars, sendVars
<1> QED
  BY <1>1, <1>2, <1>3, <1>4, <1>5, <1>6, <1>7, <1>8 DEF Next, Library, Application

-----------------------------------------------------------------------------
(* How the channel to the application changes.                             *)
Extended(e) ==
  /\ Len(events) \in Nat /\ Len(events') = Len(events) + 1
  /\ \A i \in 1 .. Len(events) : events'[i] = events[i]
  /\ events'[Len(events) + 1] = e
  /\ \A i \in 1 .. Len(events') : \/ i \in 1 .. Len(events) /\ events'[i] = events[i]
                                  \/ i = Len(events) + 1 /\ events'[i] = e
Shortened ==
  /\ Len(events) \in Nat /\ 1 \in 1 .. Len(events) /\ Head(events) = events[1]
  /\ Head(events) \in Event
  /\ Len(events') = Len(events) - 1
  /\ \A i \in 1 .. Len(events') :
       i + 1 \in 1 .. Len(events) /\ 1 < i + 1 /\ events'[i] = events[i + 1]
  /\ \A i \in 1 .. Len(events) :
       \/ events[i] = Head(events) /\ i = 1
       \/ i - 1 \in 1 .. Len(events') /\ events'[i - 1] = events[i]

LEMMA EventsExtended ==
  ASSUME IInv, NEW e \in Event, events' = Append(events, e)
  PROVE  Extended(e)
<1>1. /\ Len(events) \in Nat /\ Len(events') = Len(events) + 1
      /\ \A i \in 1 .. Len(events) : events'[i] = events[i]
      /\ events'[Len(events) + 1] = e
  BY PutIn DEF IInv, TypeOK
<1> QED
  BY <1>1 DEF Extended

LEMMA EventsShortened ==
  ASSUME IInv, events # <<>>, events' = Tail(events)
  PROVE  Shortened
<1>1. /\ Len(events) \in Nat /\ Len(events) >= 1 /\ Head(events) = events[1]
      /\ Head(events) \in Event
      /\ Len(events') = Len(events) - 1
      /\ \A i \in 1 .. Len(events') : events'[i] = events[i + 1]
  BY TakenOut DEF IInv, TypeOK
<1>2. \A i \in 1 .. Len(events') :
        i + 1 \in 1 .. Len(events) /\ 1 < i + 1 /\ events'[i] = events[i + 1]
  BY <1>1
<1>3. \A i \in 1 .. Len(events) : i = 1 \/ (i - 1 \in 1 .. Len(events') /\ (i - 1) + 1 = i)
  BY <1>1
<1>4. \A i \in 1 .. Len(events) :
       \/ events[i] = Head(events) /\ i = 1
       \/ i - 1 \in 1 .. Len(events') /\ events'[i - 1] = events[i]
  BY <1>1, <1>3
<1> QED
  BY <1>1, <1>2, <1>4 DEF Shortened

(* What is reported of a stream: a piece behind what was reported.         *)
LEMMA Reported ==
  ASSUME IInv, NEW s \in Streams, ReportData(s)
  PROVE  /\ s \notin over /\ over \subseteq over' /\ told[s] \in Nat /\ told'[s] \in Nat
         /\ told[s] <= told'[s]
         /\ \A u \in Streams : u # s => told'[u] = told[u]
         /\ UNCHANGED <<gone, commands, wire, finished, running, uniPayloads, nextUni,
                        echoedOn, sent, ended>>
         /\ \E e \in Event : /\ events' = Append(events, e) /\ IsData(e) /\ e.stream = s
                             /\ e.bytes = Chunk(s, told[s], told'[s])
                             /\ e.fin => Over(s)'
<1>1. PICK n \in told[s] .. sent[s], fin \in {FALSE, ended[s]} :
        /\ fin => n = sent[s]
        /\ told' = [told EXCEPT ![s] = n]
        /\ over' = IF fin THEN over \cup {s} ELSE over
        /\ events' = Append(events, [kind |-> "data", stream |-> s,
                                     bytes |-> Chunk(s, told[s], n), fin |-> fin])
  BY DEF ReportData
<1>2. /\ s \notin over
      /\ UNCHANGED <<gone, commands, wire, finished, running, uniPayloads, nextUni,
                     echoedOn, sent, ended>>
  BY DEF ReportData, clientVars, sendVars, appVars
<1>3. /\ told \in [Streams -> Nat] /\ sent[s] \in Nat /\ sent[s] <= MaxBytes[s]
      /\ ended[s] \in BOOLEAN /\ MaxBytes[s] \in Nat
  BY ClientAssumption DEF IInv, TypeOK, ClientTypeOK, Streams
<1>4. /\ told[s] \in Nat /\ n \in Nat /\ told[s] <= n /\ n <= MaxBytes[s]
      /\ fin \in BOOLEAN
  <2>1. told[s] \in Nat /\ sent[s] \in Nat /\ sent[s] <= MaxBytes[s] /\ MaxBytes[s] \in Nat
    BY <1>3
  <2>2. n \in Nat /\ told[s] <= n /\ n <= MaxBytes[s]
    BY <2>1
  <2>3. fin \in BOOLEAN
    BY <1>3
  <2> QED
    BY <2>1, <2>2, <2>3
<1>5. told'[s] = n /\ \A u \in Streams : u # s => told'[u] = told[u]
  BY <1>1, <1>3
<1> DEFINE c == Chunk(s, told[s], n)
           e == [kind |-> "data", stream |-> s, bytes |-> c, fin |-> fin]
<1>6. c \in Seq(Unit)
  BY <1>4, ChunkType
<1>7. e.fin => Over(s)'
  BY <1>1, <1>2, <1>5 DEF Over
<1>8. events' = Append(events, e) /\ c = Chunk(s, told[s], told'[s])
  BY <1>1, <1>5
<1> HIDE DEF c
<1>9. e \in Event /\ IsData(e) /\ e.stream = s /\ e.bytes = c
  BY <1>4, <1>6 DEF Event, IsData
<1>10. over \subseteq over'
  BY <1>1
<1> HIDE DEF e
<1>11. \E x \in Event : /\ events' = Append(events, x) /\ IsData(x) /\ x.stream = s
                        /\ x.bytes = Chunk(s, told[s], told'[s])
                        /\ x.fin => Over(s)'
  BY <1>7, <1>8, <1>9
<1> QED
  BY <1>2, <1>4, <1>5, <1>10, <1>11

(* Both kinds of data events.                                              *)
LEMMA HandledData ==
  ASSUME IInv, OnBidiData \/ OnUniData
  PROVE  /\ running /\ events # <<>> /\ events' = Tail(events)
         /\ Head(events) \in Event /\ IsData(Head(events)) /\ EventOK(Head(events))
         /\ Head(events).stream \in Streams
         /\ UNCHANGED <<told, over, gone, wire, finished, running, sent, ended>>
<1>1. Received("data") /\ events' = Tail(events)
  BY DEF OnBidiData, OnUniData
<1>2. UNCHANGED <<told, over, gone, wire, finished, running, sent, ended>>
  BY DEF OnBidiData, OnUniData, clientVars, driverVars, sendVars, appVars
<1> QED
  BY <1>1, <1>2, HeadEvent DEF IsData, EventOK

(* A stream that is over stays so, and no data of it come any more.        *)
LEMMA OverStays ==
  ASSUME IInv, [Next]_vars, NEW s \in Streams
  PROVE  /\ Over(s) => Over(s)'
         /\ s \in over /\ NoData(s) => s \in over' /\ NoData(s)'
<1>1. ended[s] => ended'[s] /\ sent'[s] = sent[s]
  BY ClientEnds
<1>2. CASE Resting
  BY <1>1, <1>2 DEF Resting, Over, NoData
<1>3. CASE Announcing
  <2>1. PICK e \in Event : ~IsData(e) /\ events' = Append(events, e)
    BY <1>3 DEF Announcing
  <2>2. Extended(e)
    BY <2>1, EventsExtended
  <2>3. NoData(s) => NoData(s)'
    BY <2>1, <2>2 DEF Extended, NoData, DataOf
  <2> QED
    BY <1>1, <1>3, <2>3 DEF Announcing, Over
<1>4. ASSUME events # <<>>, events' = Tail(events), UNCHANGED <<told, over>>
      PROVE  /\ Over(s) => Over(s)'
             /\ s \in over /\ NoData(s) => s \in over' /\ NoData(s)'
  <2>1. Shortened
    BY <1>4, EventsShortened
  <2>2. NoData(s) => NoData(s)'
    BY <2>1 DEF Shortened, NoData
  <2> QED
    BY <1>1, <1>4, <2>2 DEF Over
<1>5. ASSUME NEW u \in Streams, ReportData(u)
      PROVE  /\ Over(s) => Over(s)'
             /\ s \in over /\ NoData(s) => s \in over' /\ NoData(s)'
  <2>1. /\ u \notin over /\ over \subseteq over'
        /\ s # u => told'[s] = told[s]
    BY <1>5, Reported
  <2>2. PICK e \in Event : events' = Append(events, e) /\ e.stream = u
    BY <1>5, Reported
  <2>3. Extended(e)
    BY <2>2, EventsExtended
  <2>4. s # u /\ NoData(s) => NoData(s)'
    BY <2>2, <2>3 DEF Extended, NoData, DataOf
  <2> QED
    BY <1>1, <2>1, <2>4 DEF Over
<1>6. CASE Execute
  <2>1. UNCHANGED <<told, over, events>>
    BY <1>6 DEF Execute, driverVars
  <2> QED
    BY <1>1, <2>1 DEF Over, NoData
<1>7. CASE Handling
  BY <1>4, <1>7 DEF Handling
<1>8. CASE OnBidiData \/ OnUniData
  BY <1>4, <1>8, HandledData
<1> QED
  BY <1>2, <1>3, <1>5, <1>6, <1>7, <1>8, StepKinds

LEMMA QuietStays ==
  ASSUME IInv, [Next]_vars, NEW s \in Streams, Quiet(s)
  PROVE  Quiet(s)'
BY OverStays DEF Quiet, Over

LEMMA EventsDoneStays ==
  ASSUME IInv, EventsDone, [Next]_vars
  PROVE  EventsDone'
<1>1. \A s \in Streams : Over(s) => Over(s)'
  BY OverStays
<1>2. gone \subseteq gone'
  <2>1. ASSUME NEW s \in Streams, ReportData(s) PROVE gone' = gone
    BY <2>1, Reported
  <2>2. OnBidiData \/ OnUniData => gone' = gone
    BY HandledData
  <2>3. Execute => gone' = gone
    BY DEF Execute, driverVars
  <2> QED
    BY <2>1, <2>2, <2>3, StepKinds DEF Resting, Announcing, Handling
<1>3. \A i \in 1 .. Len(events) :
        /\ events[i].kind = "gone" => events[i].stream \in gone'
        /\ \A s \in Streams : DataOf(events[i], s) /\ events[i].fin => Over(s)'
  BY <1>1, <1>2 DEF EventsDone
<1>4. CASE events' = events
  BY <1>3, <1>4 DEF EventsDone
<1>5. ASSUME events # <<>>, events' = Tail(events) PROVE EventsDone'
  <2>1. Shortened
    BY <1>5, EventsShortened
  <2>2. \A i, j : i \in 1 .. Len(events') /\ j \in 1 .. Len(events') /\ i < j => i + 1 < j + 1
    OBVIOUS
  <2> QED
    BY <1>3, <2>1, <2>2 DEF EventsDone, Shortened
<1>6. ASSUME NEW e \in Event, events' = Append(events, e),
             e.kind = "gone" => e.stream \in gone',
             IsData(e) => e.stream \notin gone,
             \A s \in Streams : DataOf(e, s) /\ e.fin => Over(s)'
      PROVE  EventsDone'
  <2>1. Extended(e)
    BY <1>6, EventsExtended
  <2> DEFINE m == Len(events)
  <2>2. \A i \in 1 .. Len(events') :
          /\ events'[i].kind = "gone" => events'[i].stream \in gone'
          /\ \A s \in Streams : DataOf(events'[i], s) /\ events'[i].fin => Over(s)'
    BY <1>3, <1>6, <2>1 DEF Extended
  <2>3. ASSUME NEW i \in 1 .. Len(events'), NEW j \in 1 .. Len(events'), i < j,
               events'[i].kind = "gone"
        PROVE  ~DataOf(events'[j], events'[i].stream)
    <3>1. i \in 1 .. m /\ events'[i] = events[i]
      BY <2>1, <2>3 DEF Extended
    <3>2. CASE j \in 1 .. m /\ events'[j] = events[j]
      BY <2>3, <3>1, <3>2 DEF EventsDone
    <3>3. CASE j = m + 1 /\ events'[j] = e
      <4>1. events[i].stream \in gone
        BY <2>3, <3>1 DEF EventsDone
      <4> QED
        BY <1>6, <3>1, <3>3, <4>1 DEF DataOf
    <3> QED
      BY <2>1, <3>2, <3>3 DEF Extended
  <2> QED
    BY <2>2, <2>3 DEF EventsDone
<1>7. CASE Resting \/ Execute
  BY <1>4, <1>7 DEF Resting, Execute
<1>8. CASE Announcing
  BY <1>6, <1>8 DEF Announcing, DataOf
<1>9. CASE Handling
  BY <1>5, <1>9 DEF Handling
<1>10. CASE OnBidiData \/ OnUniData
  BY <1>5, <1>10, HandledData
<1>11. ASSUME NEW s \in Streams, ReportData(s) PROVE EventsDone'
  <2>1. PICK e \in Event : /\ events' = Append(events, e) /\ IsData(e) /\ e.stream = s
                           /\ e.fin => Over(s)'
    BY <1>11, Reported
  <2>2. s \notin gone
    BY <1>11, Reported DEF IInv, GoneInv
  <2>3. e.kind # "gone"
    BY <2>1 DEF IsData
  <2>4. \A u \in Streams : DataOf(e, u) /\ e.fin => Over(u)'
    <3>1. \A u \in Streams : DataOf(e, u) => u = s
      BY <2>1 DEF DataOf
    <3> QED
      BY <2>1, <3>1
  <2> QED
    BY <1>6, <2>1, <2>2, <2>3, <2>4
<1> QED
  BY <1>7, <1>8, <1>9, <1>10, <1>11, StepKinds

-----------------------------------------------------------------------------
(* A data event of s adds to what is collected of s, or is answered with a *)
(* command for the stream that echoes s.                                   *)
Whole(s) ==
  IF s \in DOMAIN uniPayloads THEN uniPayloads[s].bytes \o Head(events).bytes
  ELSE Head(events).bytes
DataStep(s) ==
  /\ DataOf(Head(events), s) /\ events' = Tail(events) /\ events # <<>> /\ running
  /\ UNCHANGED <<told, over, gone, wire, finished, running>>
  /\ \A u \in Streams : u # s => EchoStream(u)' = EchoStream(u)
  /\ \A u : u # s => (u \in DOMAIN uniPayloads' <=> u \in DOMAIN uniPayloads)
  /\ \A u \in DOMAIN uniPayloads' : u # s => uniPayloads'[u] = uniPayloads[u]
Collecting(s) ==
  /\ DataStep(s)
  /\ s \in DOMAIN uniPayloads' /\ uniPayloads'[s].bytes = Whole(s)
  /\ UNCHANGED <<commands, nextUni, echoedOn>>
Answering(s, c) ==
  /\ DataStep(s)
  /\ s \notin DOMAIN uniPayloads'
  /\ commands' = Append(commands, c)
  /\ Body(c) = Whole(s) /\ (c.fin => Head(events).fin)
  /\ EchoStream(s)' = c.stream /\ c.stream # None
  /\ EchoStream(s) = c.stream \/ EchoStream(s) = None
  /\ \A u \in Streams : u # s => EchoStream(u) # c.stream
  /\ \A i \in 1 .. Len(commands) : commands[i].stream = c.stream => EchoStream(s) = c.stream
  /\ OnWire(c.stream) # <<>> => EchoStream(s) = c.stream
  /\ c.stream \in finished => EchoStream(s) = c.stream
  /\ nextUni \in Nat /\ nextUni' \in Nat /\ nextUni <= nextUni'

LEMMA DataKinds ==
  ASSUME OrderInv, EchoesDone, OnBidiData \/ OnUniData
  PROVE  \E s \in Streams : Collecting(s) \/ \E c \in Command : Answering(s, c)
<1> DEFINE e == Head(events)
<1>1. /\ IInv /\ running /\ events # <<>> /\ events' = Tail(events)
      /\ e \in Event /\ IsData(e) /\ e.stream \in Streams /\ EventOK(e)
      /\ UNCHANGED <<told, over, gone, wire, finished, running>>
  BY HandledData DEF OrderInv
<1>2. PICK s \in Streams : s = e.stream
  BY <1>1
<1>3. DataOf(e, s) /\ e.bytes \in Seq(Unit) /\ e.fin \in BOOLEAN
  BY <1>1, <1>2 DEF DataOf, Event
<1>4. /\ commands \in Seq(Command) /\ nextUni \in Nat
      /\ echoedOn \in [UniStreams -> Nat \cup {None}]
      /\ DOMAIN uniPayloads \subseteq UniStreams
  BY <1>1 DEF IInv, TypeOK
<1>5. CASE OnBidiData
  <2> DEFINE c == [stream |-> s, bytes |-> e.bytes, fin |-> e.fin]
  <2>1. s \in BidiStreams /\ s \notin UniStreams /\ s # None /\ s \in Nat
    BY <1>2, <1>5, NoneIsNone DEF OnBidiData
  <2>2. /\ commands' = Append(commands, c)
        /\ UNCHANGED <<uniPayloads, nextUni, echoedOn>>
    BY <1>2, <1>5 DEF OnBidiData, QueueStreamSend, appVars
  <2>3. c \in Command
    BY <1>3, <2>1 DEF Command
  <2>4. c.stream = s /\ Body(c) = e.bytes /\ c.fin = e.fin
    BY <2>1 DEF Body
  <2> HIDE DEF c
  <2>5. \A u \in Streams : EchoStream(u)' = EchoStream(u)
    BY <2>2 DEF EchoStream
  <2>6. EchoStream(s) = s /\ \A u \in Streams : u # s => EchoStream(u) # s
    BY <1>1, <2>1, EchoStreamOfOne DEF EchoStream
  <2>7. s \notin DOMAIN uniPayloads
    BY <1>4, <2>1
  <2>8. DataStep(s)
    BY <1>1, <1>3, <2>2, <2>5 DEF DataStep
  <2>9. Body(c) = Whole(s)
    BY <2>4, <2>7 DEF Whole
  <2>10. Answering(s, c)
    BY <1>4, <2>1, <2>2, <2>4, <2>5, <2>6, <2>7, <2>8, <2>9 DEF Answering
  <2> QED
    BY <2>3, <2>10
<1>6. CASE OnUniData
  <2>1. s \in UniStreams /\ s \notin BidiStreams
    BY <1>2, <1>6, NoneIsNone DEF OnUniData
  <2>2. Collected(e).bytes = Whole(s)
    <3>1. CASE s \in DOMAIN uniPayloads
      <4>1. uniPayloads[s] \in [session : Requests, bytes : Seq(Unit)]
        BY <1>1, <3>1 DEF IInv, TypeOK
      <4> QED
        BY <1>2, <3>1, <4>1 DEF Collected, Whole
    <3>2. CASE s \notin DOMAIN uniPayloads
      BY <1>2, <3>2 DEF Collected, Whole
    <3> QED
      BY <3>1, <3>2
  <2>3. CASE ~e.fin
    <3>1. /\ uniPayloads' = With(uniPayloads, s, Collected(e))
          /\ UNCHANGED <<commands, nextUni, echoedOn>>
      BY <1>2, <1>6, <2>3 DEF OnUniData
    <3>2. \A u \in Streams : EchoStream(u)' = EchoStream(u)
      BY <3>1 DEF EchoStream
    <3>3. DataStep(s)
      BY <1>1, <1>3, <3>1, <3>2 DEF DataStep, With
    <3>4. Collecting(s)
      BY <2>2, <3>1, <3>3 DEF Collecting, With
    <3> QED
      BY <3>4
  <2>4. CASE e.fin
    <3> DEFINE p == Preface(Collected(e).session) \o Whole(s)
               c == [stream |-> nextUni, bytes |-> p, fin |-> TRUE]
    <3>1. /\ uniPayloads' = Without(uniPayloads, s)
          /\ commands' = Append(commands, c)
          /\ echoedOn' = [echoedOn EXCEPT ![s] = nextUni]
          /\ nextUni' = nextUni + 4
      BY <1>2, <1>6, <2>2, <2>4 DEF OnUniData, QueueStreamSend
    <3>2. Whole(s) \in Seq(Unit) /\ Collected(e).session \in Requests
      BY <1>1, <1>2, <2>1, <2>2, CollectedType
    <3>3. p \in Seq(Unit) /\ Tail(p) = Whole(s)
      BY <3>2, PrefaceAndPayload, PayloadBehindPreface
    <3> HIDE DEF p
    <3>4. /\ \A u \in Streams : EchoStream(u) # nextUni
          /\ nextUni \notin BidiStreams /\ nextUni # None
      BY <1>1, <1>4, EchoStreamOfOne, NoneIsNone
    <3>5. c \in Command /\ c.stream = nextUni /\ Body(c) = Whole(s)
      BY <1>4, <3>3, <3>4 DEF Command, Body
    <3> HIDE DEF c
    <3>6. /\ EchoStream(s)' = nextUni
          /\ \A u \in Streams : u # s => EchoStream(u)' = EchoStream(u)
      <4>1. \A u \in Streams : u \notin BidiStreams => u \in UniStreams
        BY DEF Streams
      <4> QED
        BY <1>4, <2>1, <3>1, <4>1 DEF EchoStream
    <3>7. EchoStream(s) = None
      BY <1>1, <1>2, <2>1 DEF EchoStream, EventOK
    <3>8. \A i \in 1 .. Len(commands) : commands[i].stream # nextUni
      <4>1. \A i \in 1 .. Len(commands) : commands[i].stream \in Nat
        <5>1. \A i \in 1 .. Len(commands) : commands[i] \in Command
          BY <1>4, ElementOfSeq
        <5> QED
          BY <5>1 DEF Command
      <4>2. \A i \in 1 .. Len(commands) :
              commands[i].stream \in BidiStreams \/ commands[i].stream < nextUni
        BY DEF OrderInv, OneCommand
      <4> QED
        BY <1>4, <3>4, <4>1, <4>2
    <3>9. OnWire(nextUni) = <<>>
      BY <1>4, <3>4 DEF OrderInv, NewStreams, OnWire
    <3>10. nextUni \notin finished
      BY <1>4, <3>4 DEF EchoesDone
    <3>11. DataStep(s)
      BY <1>1, <1>3, <3>1, <3>6 DEF DataStep, Without
    <3>12. s \notin DOMAIN uniPayloads'
      BY <3>1 DEF Without
    <3>13. nextUni' \in Nat /\ nextUni <= nextUni'
      BY <1>4, <3>1
    <3>14. Answering(s, c)
      BY <1>4, <2>4, <3>1, <3>4, <3>5, <3>6, <3>7, <3>8, <3>9, <3>10, <3>11, <3>12, <3>13
         DEF Answering
    <3> QED
      BY <3>5, <3>14
  <2> QED
    BY <2>3, <2>4
<1> QED
  BY <1>5, <1>6

-----------------------------------------------------------------------------
(* The end of a stream.                                                    *)
LEMMA NotQuietYet ==
  ASSUME IInv, NEW s \in Streams, DataStep(s)
  PROVE  ~NoData(s) /\ Live(s)
<1>1. Shortened
  BY EventsShortened DEF DataStep
<1>2. ~NoData(s)
  BY <1>1 DEF Shortened, NoData, DataStep
<1> QED
  BY <1>2 DEF Live, DataStep

LEMMA SoonQuiet ==
  ASSUME IInv, EventsDone, [Next]_vars, NEW s \in Streams, DataStep(s), Head(events).fin
  PROVE  Quiet(s)'
<1>1. Shortened
  BY EventsShortened DEF DataStep
<1>2. DataOf(events[1], s) /\ events[1].fin /\ 1 \in 1 .. Len(events)
  BY <1>1 DEF Shortened, DataStep
<1>3. Over(s)
  BY <1>2 DEF EventsDone
<1>4. \A j \in 1 .. Len(events) : 1 < j => ~DataOf(events[j], s)
  BY <1>2 DEF IInv, FinLast, DataOf
<1>5. NoData(s)'
  BY <1>1, <1>4 DEF Shortened, NoData
<1> QED
  BY <1>3, <1>5, OverStays DEF Quiet

(* The commands after one more was queued.                                 *)
LEMMA CommandAdded ==
  ASSUME IInv, NEW c \in Command, commands' = Append(commands, c)
  PROVE  /\ Len(commands) \in Nat /\ Len(commands') = Len(commands) + 1
         /\ \A i \in 1 .. Len(commands) : i \in 1 .. Len(commands') /\ commands'[i] = commands[i]
         /\ Len(commands) + 1 \in 1 .. Len(commands')
         /\ commands'[Len(commands) + 1] = c
         /\ \A i \in 1 .. Len(commands') :
              \/ i \in 1 .. Len(commands) /\ commands'[i] = commands[i]
              \/ i = Len(commands) + 1 /\ commands'[i] = c
<1>1. /\ Len(commands) \in Nat /\ Len(commands') = Len(commands) + 1
      /\ \A i \in 1 .. Len(commands) : commands'[i] = commands[i]
      /\ commands'[Len(commands) + 1] = c
  BY PutIn DEF IInv, TypeOK
<1> QED
  BY <1>1

LEMMA DoneWhileSame ==
  ASSUME IInv, CommandsDone, EchoesDone, [Next]_vars,
         UNCHANGED <<commands, finished, nextUni>>,
         \A s \in Streams : EchoStream(s)' = EchoStream(s)
  PROVE  CommandsDone' /\ EchoesDone'
<1>1. \A s \in Streams : Quiet(s) => Quiet(s)'
  BY QuietStays
<1>2. CommandsDone'
  <2> SUFFICES ASSUME NEW s \in Streams, NEW i \in 1 .. Len(commands),
                      commands[i].stream = EchoStream(s), commands[i].fin
               PROVE  /\ Quiet(s)'
                      /\ \A j \in 1 .. Len(commands) : i < j => commands[j].stream # EchoStream(s)
    BY DEF CommandsDone
  <2> QED
    BY <1>1 DEF CommandsDone
<1>3. EchoesDone'
  <2>1. \A s \in Streams : Answered(s)' => Answered(s)
    BY DEF Answered
  <2> SUFFICES ASSUME NEW s \in Streams, Answered(s)
               PROVE  /\ Quiet(s)'
                      /\ \A i \in 1 .. Len(commands) : commands[i].stream # EchoStream(s)
    BY <2>1 DEF EchoesDone
  <2> QED
    BY <1>1 DEF EchoesDone
<1> QED
  BY <1>2, <1>3

LEMMA DoneAfterAnswering ==
  ASSUME IInv, EventsDone, CommandsDone, EchoesDone, [Next]_vars,
         NEW s \in Streams, NEW c \in Command, Answering(s, c)
  PROVE  CommandsDone' /\ EchoesDone'
<1> DEFINE m == Len(commands)
<1>1. \A u \in Streams : Quiet(u) => Quiet(u)'
  BY QuietStays
<1>2. ~Quiet(s) /\ (c.fin => Quiet(s)')
  BY NotQuietYet, SoonQuiet DEF Answering, Quiet
<1>3. /\ m \in Nat /\ Len(commands') = m + 1
      /\ \A i \in 1 .. Len(commands') : \/ i \in 1 .. m /\ commands'[i] = commands[i]
                                        \/ i = m + 1 /\ commands'[i] = c
  BY CommandAdded DEF Answering
<1>4. /\ EchoStream(s)' = c.stream
      /\ \A u \in Streams : u # s => EchoStream(u)' = EchoStream(u) /\ EchoStream(u) # c.stream
      /\ \A i \in 1 .. m : commands[i].stream = c.stream => EchoStream(s) = c.stream
      /\ finished' = finished /\ (c.stream \in finished => EchoStream(s) = c.stream)
  BY DEF Answering, DataStep
<1>5. CommandsDone'
  <2> SUFFICES ASSUME NEW u \in Streams, NEW i \in 1 .. Len(commands'),
                      commands'[i].stream = EchoStream(u)', commands'[i].fin
               PROVE  /\ Quiet(u)'
                      /\ \A j \in 1 .. Len(commands') :
                           i < j => commands'[j].stream # EchoStream(u)'
    BY DEF CommandsDone
  <2>1. CASE i = m + 1 /\ commands'[i] = c
    <3>1. u = s
      BY <1>4, <2>1
    <3>2. \A j \in 1 .. Len(commands') : ~(i < j)
      BY <1>3, <2>1
    <3> QED
      BY <1>2, <2>1, <3>1, <3>2
  <2>2. CASE i \in 1 .. m /\ commands'[i] = commands[i]
    <3>1. commands[i].stream = EchoStream(u)
      BY <1>4, <2>2
    <3>2. Quiet(u) /\ \A j \in 1 .. m : i < j => commands[j].stream # EchoStream(u)
      BY <2>2, <3>1 DEF CommandsDone
    <3>3. u # s
      BY <1>2, <3>2
    <3> QED
      BY <1>1, <1>3, <1>4, <3>2, <3>3
  <2> QED
    BY <1>3, <2>1, <2>2
<1>6. EchoesDone'
  <2>1. \A n \in finished : n \in BidiStreams \/ n < nextUni'
    <3>1. \A n \in finished : n \in Nat
      BY DEF IInv, TypeOK
    <3>2. \A n \in Nat : n < nextUni => n < nextUni'
      BY DEF Answering
    <3> QED
      BY <3>1, <3>2 DEF EchoesDone
  <2> SUFFICES ASSUME NEW u \in Streams, Answered(u)'
               PROVE  /\ Quiet(u)'
                      /\ \A i \in 1 .. Len(commands') : commands'[i].stream # EchoStream(u)'
    BY <1>4, <2>1 DEF EchoesDone
  <2>2. Answered(u)
    BY <1>4 DEF Answered
  <2>3. Quiet(u) /\ \A i \in 1 .. m : commands[i].stream # EchoStream(u)
    BY <2>2 DEF EchoesDone
  <2>4. u # s
    BY <1>2, <2>3
  <2> QED
    BY <1>1, <1>3, <1>4, <2>3, <2>4
<1> QED
  BY <1>5, <1>6

LEMMA DoneAfterExecute ==
  ASSUME OrderInv, CommandsDone, EchoesDone, [Next]_vars, Execute
  PROVE  CommandsDone' /\ EchoesDone'
<1>1. \A u \in Streams : Quiet(u) => Quiet(u)'
  BY QuietStays DEF OrderInv
<1>2. PICK c \in Command : c = Head(commands)
  BY RestOfCommands
<1>3. /\ c = commands[1] /\ 1 \in 1 .. Len(commands) /\ UNCHANGED <<echoedOn, nextUni>>
      /\ \A j \in 1 .. Len(commands') :
           j + 1 \in 1 .. Len(commands) /\ 1 < j + 1 /\ commands'[j] = commands[j + 1]
  BY <1>2, RestOfCommands
<1>4. finished' = finished \/ (c.fin /\ finished' = finished \cup {c.stream})
  BY <1>2, WorkerSends DEF OrderInv
<1>5. \A u : EchoStream(u)' = EchoStream(u)
  BY <1>3 DEF EchoStream
<1>6. CommandsDone'
  <2> SUFFICES ASSUME NEW u \in Streams, NEW i \in 1 .. Len(commands'),
                      commands'[i].stream = EchoStream(u), commands'[i].fin
               PROVE  /\ Quiet(u)'
                      /\ \A j \in 1 .. Len(commands') :
                           i < j => commands'[j].stream # EchoStream(u)
    BY <1>5 DEF CommandsDone
  <2>1. i + 1 \in 1 .. Len(commands) /\ commands'[i] = commands[i + 1]
    BY <1>3
  <2>2. Quiet(u) /\ \A j \in 1 .. Len(commands) : i + 1 < j => commands[j].stream # EchoStream(u)
    BY <2>1 DEF CommandsDone
  <2>3. \A j \in 1 .. Len(commands') : i < j => i + 1 < j + 1
    OBVIOUS
  <2> QED
    BY <1>1, <1>3, <2>2, <2>3
<1>7. EchoesDone'
  <2>1. \A n \in finished' : n \in BidiStreams \/ n < nextUni
    BY <1>3, <1>4 DEF EchoesDone, OrderInv, OneCommand
  <2> SUFFICES ASSUME NEW u \in Streams, EchoStream(u) \in finished'
               PROVE  /\ Quiet(u)'
                      /\ \A i \in 1 .. Len(commands') : commands'[i].stream # EchoStream(u)
    BY <1>3, <1>5, <2>1 DEF EchoesDone, Answered
  <2>2. CASE EchoStream(u) \in finished
    BY <1>1, <1>3, <2>2 DEF EchoesDone, Answered
  <2>3. CASE EchoStream(u) = c.stream /\ c.fin
    <3>1. Quiet(u) /\ \A j \in 1 .. Len(commands) : 1 < j => commands[j].stream # EchoStream(u)
      BY <1>3, <2>3 DEF CommandsDone
    <3> QED
      BY <1>1, <1>3, <3>1
  <2> QED
    BY <1>4, <2>2, <2>3
<1> QED
  BY <1>6, <1>7

LEMMA DoneStays ==
  ASSUME OrderInv, EventsDone, CommandsDone, EchoesDone, [Next]_vars
  PROVE  CommandsDone' /\ EchoesDone'
<1>1. IInv
  BY DEF OrderInv
<1>2. ASSUME UNCHANGED <<commands, finished, nextUni, echoedOn>>
      PROVE  CommandsDone' /\ EchoesDone'
  <2>1. \A s \in Streams : EchoStream(s)' = EchoStream(s)
    BY <1>2 DEF EchoStream
  <2> QED
    BY <1>1, <1>2, <2>1, DoneWhileSame
<1>3. CASE Resting \/ Announcing \/ Handling
  BY <1>2, <1>3 DEF Resting, Announcing, Handling
<1>4. ASSUME NEW s \in Streams, ReportData(s) PROVE CommandsDone' /\ EchoesDone'
  BY <1>1, <1>2, <1>4, Reported
<1>5. ASSUME NEW s \in Streams, Collecting(s) PROVE CommandsDone' /\ EchoesDone'
  BY <1>2, <1>5 DEF Collecting, DataStep
<1>6. ASSUME NEW s \in Streams, NEW c \in Command, Answering(s, c)
      PROVE  CommandsDone' /\ EchoesDone'
  BY <1>1, <1>6, DoneAfterAnswering
<1>7. CASE OnBidiData \/ OnUniData
  BY <1>5, <1>6, <1>7, DataKinds
<1>8. CASE Execute
  BY <1>8, DoneAfterExecute
<1> QED
  BY <1>1, <1>3, <1>4, <1>7, <1>8, StepKinds

-----------------------------------------------------------------------------
(* No byte gets lost on its way.                                           *)
LEMMA HasConcat ==
  ASSUME NEW a \in Seq(Unit), NEW b \in Seq(Unit), NEW p, Has(a, p) \/ Has(b, p)
  PROVE  Has(a \o b, p)
<1> DEFINE d == a \o b
<1>1. /\ Len(a) \in Nat /\ Len(b) \in Nat
      /\ Len(d) = Len(a) + Len(b)
      /\ \A k \in 1 .. Len(a) + Len(b) : d[k] = IF k <= Len(a) THEN a[k] ELSE b[k - Len(a)]
  BY ConcatProperties, LenProperties
<1> HIDE DEF d
<1>2. \A k \in 1 .. Len(a) : k \in 1 .. Len(d) /\ d[k] = a[k]
  BY <1>1
<1>3. \A k \in 1 .. Len(b) : Len(a) + k \in 1 .. Len(d) /\ d[Len(a) + k] = b[k]
  <2> SUFFICES ASSUME NEW k \in 1 .. Len(b)
               PROVE  Len(a) + k \in 1 .. Len(d) /\ d[Len(a) + k] = b[k]
    OBVIOUS
  <2>1. /\ Len(a) + k \in 1 .. Len(a) + Len(b)
        /\ ~(Len(a) + k <= Len(a)) /\ Len(a) + k - Len(a) = k
    BY <1>1
  <2> QED
    BY <1>1, <2>1
<1>4. Has(d, p)
  BY <1>2, <1>3 DEF Has
<1> QED
  BY <1>4 DEF d

LEMMA LiveBefore ==
  ASSUME OrderInv, EchoesDone, [Next]_vars, NEW u \in Streams, Live(u)'
  PROVE  Live(u)
<1>1. IInv
  BY DEF OrderInv
<1>2. u \in over /\ NoData(u) => u \in over' /\ NoData(u)'
  BY <1>1, OverStays
<1>3. running' => running
  <2>1. ASSUME NEW s \in Streams, ReportData(s) PROVE running' = running
    BY <1>1, <2>1, Reported
  <2>2. OnBidiData \/ OnUniData => running' = running
    BY <1>1, HandledData
  <2>3. Execute => running' = running
    BY DEF Execute, appVars
  <2> QED
    BY <1>1, <2>1, <2>2, <2>3, StepKinds DEF Resting, Announcing, Handling
<1>4. ASSUME UNCHANGED echoedOn PROVE Live(u)
  BY <1>2, <1>3, <1>4 DEF Live
<1>5. ASSUME NEW s \in Streams, Collecting(s) PROVE Live(u)
  BY <1>4, <1>5 DEF Collecting
<1>6. ASSUME NEW s \in Streams, NEW c \in Command, Answering(s, c) PROVE Live(u)
  <2>1. CASE u = s
    BY <1>1, <1>6, <2>1, NotQuietYet DEF Answering
  <2>2. CASE u # s
    <3>1. EchoStream(u)' = EchoStream(u)
      BY <1>6, <2>2 DEF Answering, DataStep
    <3>2. u \notin BidiStreams => echoedOn'[u] = echoedOn[u]
      BY <3>1 DEF EchoStream
    <3> QED
      BY <1>2, <1>3, <3>2 DEF Live
  <2> QED
    BY <2>1, <2>2
<1>7. CASE OnBidiData \/ OnUniData
  BY <1>5, <1>6, <1>7, DataKinds
<1>8. CASE Resting \/ Announcing \/ Handling
  BY <1>4, <1>8 DEF Resting, Announcing, Handling
<1>9. ASSUME NEW s \in Streams, ReportData(s) PROVE Live(u)
  BY <1>1, <1>4, <1>9, Reported
<1>10. CASE Execute
  BY <1>4, <1>10 DEF Execute, appVars
<1> QED
  BY <1>1, <1>7, <1>8, <1>9, <1>10, StepKinds

LEMMA StillInEvents ==
  ASSUME NEW s, NEW p, InEvents(s, p)
  PROVE  /\ events' = events => InEvents(s, p)'
         /\ \A e : Extended(e) => InEvents(s, p)'
         /\ Shortened => \/ InEvents(s, p)'
                         \/ DataOf(Head(events), s) /\ Has(Head(events).bytes, p)
<1>1. PICK i \in 1 .. Len(events) : DataOf(events[i], s) /\ Has(events[i].bytes, p)
  BY DEF InEvents
<1>2. events' = events => InEvents(s, p)'
  BY <1>1 DEF InEvents
<1>3. ASSUME NEW e, Extended(e) PROVE InEvents(s, p)'
  <2>1. i \in 1 .. Len(events') /\ events'[i] = events[i]
    BY <1>3 DEF Extended
  <2> QED
    BY <1>1, <2>1 DEF InEvents
<1>4. ASSUME Shortened PROVE \/ InEvents(s, p)'
                             \/ DataOf(Head(events), s) /\ Has(Head(events).bytes, p)
  <2>1. \/ events[i] = Head(events)
        \/ i - 1 \in 1 .. Len(events') /\ events'[i - 1] = events[i]
    BY <1>4 DEF Shortened
  <2>2. CASE i - 1 \in 1 .. Len(events') /\ events'[i - 1] = events[i]
    <3>1. \E k \in 1 .. Len(events') : DataOf(events'[k], s) /\ Has(events'[k].bytes, p)
      BY <1>1, <2>2
    <3> QED
      BY <3>1 DEF InEvents
  <2> QED
    BY <1>1, <2>1, <2>2
<1> QED
  BY <1>2, <1>3, <1>4

LEMMA CoveredWhen ==
  ASSUME OrderInv, EchoesDone, Covered, [Next]_vars, UNCHANGED told,
         \A u \in Long : \A p : Live(u)' /\ Somewhere(u, p) => Somewhere(u, p)'
  PROVE  Covered'
<1> SUFFICES ASSUME NEW u \in Long, Live(u)', NEW p \in 1 .. told[u]
             PROVE  Somewhere(u, p)'
  BY DEF Covered
<1>1. u \in Streams
  BY DEF Long
<1>2. Live(u)
  BY <1>1, LiveBefore
<1> QED
  BY <1>2 DEF Covered

LEMMA CoveredAnnouncing ==
  ASSUME OrderInv, EchoesDone, Covered, [Next]_vars, Announcing
  PROVE  Covered'
<1>1. PICK e \in Event : events' = Append(events, e)
  BY DEF Announcing
<1>2. Extended(e)
  BY <1>1, EventsExtended DEF OrderInv
<1>3. \A u, p : Has(Echoed(u), p)' = Has(Echoed(u), p)
  BY DEF Announcing, Has, Echoed, OnWire, EchoStream
<1>4. \A u, p : InCommands(u, p)' = InCommands(u, p) /\ InPayload(u, p)' = InPayload(u, p)
  BY DEF Announcing, InCommands, InPayload, EchoStream
<1>5. \A u, p : InEvents(u, p) => InEvents(u, p)'
  BY <1>2, StillInEvents
<1>6. UNCHANGED told
  BY DEF Announcing
<1> QED
  BY <1>3, <1>4, <1>5, <1>6, CoveredWhen DEF Somewhere

LEMMA CoveredHandling ==
  ASSUME OrderInv, EventsDone, EchoesDone, Covered, [Next]_vars, Handling
  PROVE  Covered'
<1>1. Shortened /\ ~IsData(Head(events)) /\ UNCHANGED told
  BY EventsShortened DEF Handling, OrderInv
<1>2. \A u, p : Has(Echoed(u), p)' = Has(Echoed(u), p)
  BY DEF Handling, Has, Echoed, OnWire, EchoStream
<1>3. \A u, p : InCommands(u, p)' = InCommands(u, p)
  BY DEF Handling, InCommands, EchoStream
<1>4. \A u, p : InEvents(u, p) => InEvents(u, p)'
  BY <1>1, StillInEvents DEF DataOf
<1>5. ASSUME NEW u \in Long, NEW p, InPayload(u, p), Live(u)'
      PROVE  InPayload(u, p)'
  <2>1. u \in DOMAIN uniPayloads /\ u \in UniStreams /\ u \notin BidiStreams /\ u \in Streams
    BY <1>5, NoneIsNone DEF InPayload, OrderInv, IInv, TypeOK, Long
  <2>2. CASE u \in DOMAIN uniPayloads'
    BY <1>5, <2>2 DEF InPayload, Handling, FewerPayloads
  <2>3. CASE u \notin DOMAIN uniPayloads'
    <3>1. echoedOn'[u] = None
      BY <2>1 DEF OrderInv, IInv, PayloadInv, Handling
    <3>2. running' => Head(events).kind = "gone" /\ Head(events).stream = u
      BY <2>1, <2>3 DEF Handling
    <3>3. running' => u \in gone' /\ NoData(u)'
      <4> SUFFICES ASSUME running' PROVE u \in gone' /\ NoData(u)'
        OBVIOUS
      <4>1. events[1].kind = "gone" /\ events[1].stream = u /\ 1 \in 1 .. Len(events)
        BY <1>1, <3>2 DEF Shortened
      <4>2. u \in gone /\ \A j \in 1 .. Len(events) : 1 < j => ~DataOf(events[j], u)
        BY <4>1 DEF EventsDone
      <4>3. NoData(u)'
        BY <1>1, <4>2 DEF Shortened, NoData
      <4> QED
        BY <4>2, <4>3 DEF Handling
    <3>4. u \in gone' => u \in over'
      BY <2>1 DEF OrderInv, IInv, GoneInv, Handling
    <3> QED
      BY <1>5, <2>1, <3>1, <3>3, <3>4 DEF Live
  <2> QED
    BY <2>2, <2>3
<1> QED
  BY <1>1, <1>2, <1>3, <1>4, <1>5, CoveredWhen DEF Somewhere

LEMMA CoveredReport ==
  ASSUME OrderInv, EchoesDone, Covered, [Next]_vars, NEW s \in Streams, ReportData(s)
  PROVE  Covered'
<1>1. IInv
  BY DEF OrderInv
<1>2. /\ told[s] \in Nat /\ told'[s] \in Nat /\ told[s] <= told'[s]
      /\ \A u \in Streams : u # s => told'[u] = told[u]
      /\ UNCHANGED <<commands, wire, uniPayloads, echoedOn>>
  BY <1>1, Reported
<1>3. PICK e \in Event : /\ events' = Append(events, e) /\ IsData(e) /\ e.stream = s
                         /\ e.bytes = Chunk(s, told[s], told'[s])
  BY <1>1, Reported
<1>4. Extended(e)
  BY <1>1, <1>3, EventsExtended
<1>5. \A u, p : Has(Echoed(u), p)' = Has(Echoed(u), p)
  BY <1>2 DEF Has, Echoed, OnWire, EchoStream
<1>6. \A u, p : InCommands(u, p)' = InCommands(u, p) /\ InPayload(u, p)' = InPayload(u, p)
  BY <1>2 DEF InCommands, InPayload, EchoStream
<1>7. \A u, p : InEvents(u, p) => InEvents(u, p)'
  BY <1>4, StillInEvents
<1>8. ASSUME NEW p \in 1 .. told'[s], p \notin 1 .. told[s] PROVE InEvents(s, p)'
  <2> DEFINE k == p - told[s]
             n == told'[s] - told[s]
  <2>1. n \in Nat /\ k \in 1 .. n /\ told[s] + k = p
    BY <1>2, <1>8
  <2>2. e.bytes = [i \in 1 .. n |-> <<s, told[s] + i>>]
    BY <1>3 DEF Chunk
  <2> HIDE DEF k, n
  <2>3. Len(e.bytes) = n /\ e.bytes[k] = <<s, told[s] + k>>
    BY <2>1, <2>2
  <2>4. Has(e.bytes, p)
    BY <2>1, <2>3 DEF Has
  <2>5. Len(events) + 1 \in 1 .. Len(events') /\ events'[Len(events) + 1] = e
    BY <1>4 DEF Extended
  <2> QED
    BY <1>3, <2>4, <2>5 DEF InEvents, DataOf
<1> SUFFICES ASSUME NEW u \in Long, Live(u)', NEW p \in 1 .. told'[u]
             PROVE  Somewhere(u, p)'
  BY DEF Covered
<1>9. u \in Streams /\ Live(u)
  BY LiveBefore DEF Long
<1>10. CASE p \in 1 .. told[u]
  BY <1>5, <1>6, <1>7, <1>9, <1>10 DEF Covered, Somewhere
<1>11. CASE p \notin 1 .. told[u]
  BY <1>2, <1>8, <1>9, <1>11 DEF Somewhere
<1> QED
  BY <1>10, <1>11

LEMMA WholeHas ==
  ASSUME IInv, NEW s \in Streams, DataStep(s), NEW p,
         Has(Head(events).bytes, p) \/ InPayload(s, p)
  PROVE  Has(Whole(s), p)
<1>1. Head(events).bytes \in Seq(Unit)
  <2>1. Head(events) \in Event
    BY EventsShortened DEF Shortened, DataStep
  <2> QED
    BY <2>1 DEF Event
<1>2. s \in DOMAIN uniPayloads => uniPayloads[s].bytes \in Seq(Unit)
  BY DEF IInv, TypeOK
<1> QED
  BY <1>1, <1>2, HasConcat DEF Whole, InPayload

(* The event that is handled is in one place; what is behind it stays.     *)
LEMMA CoveredDataStep ==
  ASSUME IInv, NEW s \in Streams, DataStep(s)
  PROVE  /\ \A p : InEvents(s, p) \/ InPayload(s, p) => InEvents(s, p)' \/ Has(Whole(s), p)
         /\ \A u \in Streams : \A p : u # s =>
              /\ InEvents(u, p) => InEvents(u, p)'
              /\ InPayload(u, p) => InPayload(u, p)'
              /\ Has(Echoed(u), p) => Has(Echoed(u), p)'
<1>1. Shortened /\ DataOf(Head(events), s)
  BY EventsShortened DEF DataStep
<1>2. \A p : InEvents(s, p) \/ InPayload(s, p) => InEvents(s, p)' \/ Has(Whole(s), p)
  BY <1>1, StillInEvents, WholeHas
<1>3. ASSUME NEW u \in Streams, NEW p, u # s
      PROVE  /\ InEvents(u, p) => InEvents(u, p)'
             /\ InPayload(u, p) => InPayload(u, p)'
             /\ Has(Echoed(u), p) => Has(Echoed(u), p)'
  <2>1. ~DataOf(Head(events), u)
    BY <1>1, <1>3 DEF DataOf
  <2>2. InEvents(u, p) => InEvents(u, p)'
    BY <1>1, <2>1, StillInEvents
  <2>3. InPayload(u, p) => InPayload(u, p)'
    BY <1>3 DEF DataStep, InPayload
  <2>4. EchoStream(u)' = EchoStream(u) /\ wire' = wire
    BY <1>3 DEF DataStep
  <2>5. Echoed(u)' = Echoed(u)
    BY <2>4 DEF Echoed, OnWire
  <2> QED
    BY <2>2, <2>3, <2>5
<1> QED
  BY <1>2, <1>3

LEMMA CoveredCollecting ==
  ASSUME OrderInv, EchoesDone, Covered, [Next]_vars, NEW s \in Streams, Collecting(s)
  PROVE  Covered'
<1>1. IInv /\ DataStep(s) /\ UNCHANGED <<told, wire, echoedOn, commands>>
  BY DEF OrderInv, Collecting, DataStep
<1>2. \A u, p : /\ Has(Echoed(u), p)' = Has(Echoed(u), p)
                /\ InCommands(u, p)' = InCommands(u, p)
  BY <1>1 DEF Has, Echoed, OnWire, EchoStream, InCommands
<1>3. \A p : Has(Whole(s), p) => InPayload(s, p)'
  BY DEF Collecting, InPayload
<1>4. ASSUME NEW u \in Long, NEW p, Somewhere(u, p) PROVE Somewhere(u, p)'
  <2>1. u \in Streams
    BY DEF Long
  <2>2. CASE u = s
    BY <1>1, <1>2, <1>3, <1>4, <2>2, CoveredDataStep DEF Somewhere
  <2>3. CASE u # s
    BY <1>1, <1>2, <1>4, <2>1, <2>3, CoveredDataStep DEF Somewhere
  <2> QED
    BY <2>2, <2>3
<1> QED
  BY <1>1, <1>4, CoveredWhen

LEMMA CoveredAnswering ==
  ASSUME OrderInv, EchoesDone, Covered, [Next]_vars, NEW s \in Streams,
         NEW c \in Command, Answering(s, c)
  PROVE  Covered'
<1> DEFINE m == Len(commands)
<1>1. IInv /\ DataStep(s) /\ UNCHANGED <<told, wire>>
  BY DEF OrderInv, Answering, DataStep
<1>2. /\ m + 1 \in 1 .. Len(commands') /\ commands'[m + 1] = c
      /\ \A i \in 1 .. m : i \in 1 .. Len(commands') /\ commands'[i] = commands[i]
  BY <1>1, CommandAdded DEF Answering
<1>3. /\ EchoStream(s)' = c.stream /\ Body(c) = Whole(s)
      /\ EchoStream(s) = c.stream \/ EchoStream(s) = None
      /\ \A u \in Streams : u # s => EchoStream(u)' = EchoStream(u)
  BY DEF Answering, DataStep
<1>4. ASSUME NEW u \in Streams, EchoStream(u)' = EchoStream(u)
      PROVE  /\ \A p : InCommands(u, p) => InCommands(u, p)'
             /\ Echoed(u)' = Echoed(u)
  <2>1. \A p : InCommands(u, p) => InCommands(u, p)'
    BY <1>2, <1>4 DEF InCommands
  <2>2. Echoed(u)' = Echoed(u)
    BY <1>1, <1>4 DEF Echoed, OnWire
  <2> QED
    BY <2>1, <2>2
<1>5. \A p : Has(Whole(s), p) => InCommands(s, p)'
  BY <1>2, <1>3 DEF InCommands
<1>6. EchoStream(s) = None => \A p : ~Has(Echoed(s), p) /\ ~InCommands(s, p)
  <2> SUFFICES ASSUME EchoStream(s) = None PROVE \A p : ~Has(Echoed(s), p) /\ ~InCommands(s, p)
    OBVIOUS
  <2>1. None \notin DOMAIN wire
    BY <1>1, NoneIsNone DEF IInv, TypeOK
  <2>2. Echoed(s) = <<>>
    BY <2>1 DEF Echoed, OnWire
  <2>3. \A p : ~Has(Echoed(s), p)
    BY <2>2 DEF Has
  <2>4. \A i \in 1 .. m : commands[i].stream # None
    <3>1. \A i \in 1 .. m : commands[i] \in Command
      BY <1>1, ElementOfSeq DEF IInv, TypeOK
    <3> QED
      BY <3>1, NoneIsNone DEF Command
  <2> QED
    BY <2>3, <2>4 DEF InCommands
<1>7. ASSUME NEW u \in Long, NEW p, Somewhere(u, p) PROVE Somewhere(u, p)'
  <2>1. u \in Streams
    BY DEF Long
  <2>2. CASE u = s
    <3>1. Has(Echoed(s), p) => Has(Echoed(s), p)'
      BY <1>3, <1>4, <1>6
    <3>2. InCommands(s, p) => InCommands(s, p)'
      BY <1>3, <1>4, <1>6
    <3> QED
      BY <1>1, <1>5, <1>7, <2>2, <3>1, <3>2, CoveredDataStep DEF Somewhere
  <2>3. CASE u # s
    <3>1. InCommands(u, p) => InCommands(u, p)'
      BY <1>3, <1>4, <2>1, <2>3
    <3> QED
      BY <1>1, <1>7, <2>1, <2>3, <3>1, CoveredDataStep DEF Somewhere
  <2> QED
    BY <2>2, <2>3
<1> QED
  BY <1>1, <1>7, CoveredWhen

(* What quiche takes of a command for a stream that is not short.          *)
LEMMA EchoGrowsWhole ==
  ASSUME OrderInv, EchoesDone, Execute, NEW u \in Long
  PROVE  /\ Head(commands) \in Command /\ Body(Head(commands)) \in Seq(Unit)
         /\ EchoStream(u) # Head(commands).stream => Echoed(u)' = Echoed(u)
         /\ EchoStream(u) = Head(commands).stream =>
              /\ EchoStream(u) \notin finished
              /\ Echoed(u)' = Echoed(u) \o Body(Head(commands))
<1>1. PICK c \in Command : c = Head(commands)
  BY RestOfCommands
<1>2. c = commands[1] /\ 1 \in 1 .. Len(commands)
  BY <1>1, RestOfCommands
<1>3. u \in Streams /\ u \notin Short
  BY DEF Long
<1>4. c.stream \notin BidiStreams => c.bytes # <<>>
  BY <1>2 DEF OrderInv, OneCommand
<1>5. Body(c) \in Seq(Unit)
  BY <1>4, BodyType
<1>6. EchoStream(u) = c.stream => c.stream \notin finished
  BY <1>2, <1>3 DEF EchoesDone, Answered
<1>7. \/ Echoed(u)' = Echoed(u) /\ (c.stream \in finished \/ EchoStream(u) # c.stream)
      \/ EchoStream(u) = c.stream /\ Echoed(u)' = Echoed(u) \o Body(c)
  BY <1>1, <1>3, EchoGrows
<1> QED
  BY <1>1, <1>5, <1>6, <1>7

LEMMA CoveredExecute ==
  ASSUME OrderInv, EchoesDone, Covered, [Next]_vars, Execute
  PROVE  Covered'
<1>1. PICK c \in Command : c = Head(commands)
  BY RestOfCommands
<1>2. /\ c = commands[1] /\ 1 \in 1 .. Len(commands)
      /\ UNCHANGED <<told, events, uniPayloads, echoedOn>>
      /\ commands' = Tail(commands) /\ commands # <<>> /\ commands \in Seq(Command)
  BY <1>1, RestOfCommands DEF Execute, OrderInv, IInv, TypeOK
<1>3. \A i \in 1 .. Len(commands) :
        i = 1 \/ (i - 1 \in 1 .. Len(commands') /\ commands'[i - 1] = commands[i])
  <2>1. /\ Len(commands) \in Nat /\ Len(commands') = Len(commands) - 1
        /\ \A j \in 1 .. Len(commands') : commands'[j] = commands[j + 1]
    BY <1>2, TakenOut
  <2>2. \A i \in 1 .. Len(commands) : i = 1 \/ (i - 1 \in 1 .. Len(commands') /\ (i - 1) + 1 = i)
    BY <2>1
  <2> QED
    BY <2>1, <2>2
<1>4. \A u, p : InPayload(u, p)' = InPayload(u, p) /\ InEvents(u, p)' = InEvents(u, p)
  BY <1>2 DEF InPayload, InEvents
<1>5. \A u : EchoStream(u)' = EchoStream(u)
  BY <1>2 DEF EchoStream
<1>6. ASSUME NEW u \in Long, NEW p, Somewhere(u, p) PROVE Somewhere(u, p)'
  <2>1. /\ Body(c) \in Seq(Unit)
        /\ EchoStream(u) # c.stream => Echoed(u)' = Echoed(u)
        /\ EchoStream(u) = c.stream => Echoed(u)' = Echoed(u) \o Body(c)
    BY <1>1, EchoGrowsWhole
  <2>2. Echoed(u) \in Seq(Unit)
    BY EchoedType DEF OrderInv, Long
  <2>3. Has(Echoed(u), p) => Has(Echoed(u)', p)
    BY <2>1, <2>2, HasConcat
  <2>4. EchoStream(u) = c.stream /\ Has(Body(c), p) => Has(Echoed(u)', p)
    BY <2>1, <2>2, HasConcat
  <2>5. InCommands(u, p) => Has(Echoed(u)', p) \/ InCommands(u, p)'
    <3> SUFFICES ASSUME NEW i \in 1 .. Len(commands), commands[i].stream = EchoStream(u),
                        Has(Body(commands[i]), p)
                 PROVE  Has(Echoed(u)', p) \/ InCommands(u, p)'
      BY DEF InCommands
    <3>1. CASE i = 1
      BY <1>2, <2>4, <3>1
    <3>2. CASE i - 1 \in 1 .. Len(commands') /\ commands'[i - 1] = commands[i]
      <4>1. \E k \in 1 .. Len(commands') :
              commands'[k].stream = EchoStream(u)' /\ Has(Body(commands'[k]), p)
        BY <1>5, <3>2
      <4> QED
        BY <4>1 DEF InCommands
    <3> QED
      BY <1>3, <3>1, <3>2
  <2>6. Has(Echoed(u), p)' = Has(Echoed(u)', p)
    BY DEF Has
  <2> QED
    BY <1>4, <1>6, <2>3, <2>5, <2>6 DEF Somewhere
<1> QED
  BY <1>2, <1>6, CoveredWhen

LEMMA CoveredStays ==
  ASSUME OrderInv, EventsDone, EchoesDone, Covered, [Next]_vars
  PROVE  Covered'
<1>1. CASE Resting
  <2>1. \A u, p : Somewhere(u, p)' = Somewhere(u, p)
    BY <1>1 DEF Resting, Somewhere, Has, Echoed, OnWire, EchoStream, InCommands, InPayload,
                InEvents
  <2>2. UNCHANGED told
    BY <1>1 DEF Resting
  <2> QED
    BY <2>1, <2>2, CoveredWhen
<1>2. CASE OnBidiData \/ OnUniData
  BY <1>2, DataKinds, CoveredCollecting, CoveredAnswering
<1>3. IInv
  BY DEF OrderInv
<1> QED
  BY <1>1, <1>2, <1>3, CoveredAnnouncing, CoveredHandling, CoveredReport, CoveredExecute, StepKinds

-----------------------------------------------------------------------------
(* Pieces.                                                                 *)
LEMMA ChunkShape ==
  ASSUME NEW s, NEW m \in Nat, NEW n \in Nat, m <= n
  PROVE  /\ Len(Chunk(s, m, n)) = n - m
         /\ \A k \in 1 .. n - m : Chunk(s, m, n)[k] = <<s, m + k>>
         /\ Chunk(s, m, n) \in Seq({s} \X Nat)
<1>1. n - m \in Nat /\ \A k \in 1 .. n - m : m + k \in Nat
  OBVIOUS
<1>2. Chunk(s, m, n) = [k \in 1 .. n - m |-> <<s, m + k>>]
  BY DEF Chunk
<1>3. Chunk(s, m, n) \in Seq({s} \X Nat)
  BY <1>1, <1>2, IsASeq
<1> QED
  BY <1>1, <1>2, <1>3

LEMMA ChunkConcat ==
  ASSUME NEW s, NEW a \in Nat, NEW b \in Nat, NEW c \in Nat, a <= b, b <= c
  PROVE  Chunk(s, a, b) \o Chunk(s, b, c) = Chunk(s, a, c)
<1> DEFINE x == Chunk(s, a, b)
           y == Chunk(s, b, c)
           z == Chunk(s, a, c)
<1>1. /\ Len(x) = b - a /\ \A k \in 1 .. b - a : x[k] = <<s, a + k>>
      /\ x \in Seq({s} \X Nat)
  BY ChunkShape
<1>2. /\ Len(y) = c - b /\ \A k \in 1 .. c - b : y[k] = <<s, b + k>>
      /\ y \in Seq({s} \X Nat)
  BY ChunkShape
<1>3. /\ Len(z) = c - a /\ \A k \in 1 .. c - a : z[k] = <<s, a + k>>
      /\ z \in Seq({s} \X Nat)
  <2>1. a <= c
    OBVIOUS
  <2> QED
    BY <2>1, ChunkShape
<1> HIDE DEF x, y, z
<1>4. /\ x \o y \in Seq({s} \X Nat)
      /\ Len(x \o y) = Len(x) + Len(y)
      /\ \A k \in 1 .. Len(x) + Len(y) :
           (x \o y)[k] = IF k <= Len(x) THEN x[k] ELSE y[k - Len(x)]
  BY <1>1, <1>2, ConcatProperties
<1>5. Len(x) + Len(y) = c - a
  BY <1>1, <1>2
<1>6. \A k \in 1 .. c - a : (x \o y)[k] = z[k]
  <2> SUFFICES ASSUME NEW k \in 1 .. c - a PROVE (x \o y)[k] = z[k]
    OBVIOUS
  <2>1. CASE k <= b - a
    <3>1. (x \o y)[k] = x[k] /\ k \in 1 .. b - a
      BY <1>1, <1>4, <1>5, <2>1
    <3> QED
      BY <1>1, <1>3, <3>1
  <2>2. CASE ~(k <= b - a)
    <3> DEFINE j == k - (b - a)
    <3>1. j \in 1 .. c - b /\ b + j = a + k
      BY <2>2
    <3>2. (x \o y)[k] = y[j]
      BY <1>1, <1>4, <1>5, <2>2
    <3> HIDE DEF j
    <3>3. y[j] = <<s, b + j>>
      BY <1>2, <3>1
    <3> QED
      BY <1>3, <3>1, <3>2, <3>3
  <2> QED
    BY <2>1, <2>2
<1>7. x \o y = z
  BY <1>3, <1>4, <1>5, <1>6, SeqEqual
<1> QED
  BY <1>7 DEF x, y, z

(* None of the first n bytes is lost: each is in x, in y or behind y.      *)
NoGap(x, y, n) ==
  \A p \in 1 .. n : Has(x, p) \/ Has(y, p) \/ \E z : Before(y, z) /\ Has(z, p)

Adjoining(s, a, m, b, e, n) ==
  /\ a \in Nat /\ m \in Nat /\ b \in Nat /\ e \in Nat /\ n \in Nat
  /\ a <= m /\ b < e /\ (a < m \/ m = 0)
  /\ InOrder(s, Chunk(s, b, e), n)
  /\ Before(Chunk(s, a, m), Chunk(s, b, e))
  /\ NoGap(Chunk(s, a, m), Chunk(s, b, e), n)

(* Two pieces in their order are adjacent if the next byte is not lost.    *)
LEMMA Adjacent ==
  ASSUME NEW s, NEW a, NEW m, NEW b, NEW e, NEW n, Adjoining(s, a, m, b, e, n)
  PROVE  b = m /\ Chunk(s, a, m) \o Chunk(s, b, e) = Chunk(s, a, e)
<1> DEFINE x == Chunk(s, a, m)
           y == Chunk(s, b, e)
<1>0. /\ a \in Nat /\ m \in Nat /\ b \in Nat /\ e \in Nat /\ n \in Nat
      /\ a <= m /\ b < e /\ (a < m \/ m = 0)
      /\ InOrder(s, y, n) /\ Before(x, y) /\ NoGap(x, y, n)
  BY DEF Adjoining
<1>1. Len(x) = m - a /\ \A k \in 1 .. m - a : x[k] = <<s, a + k>>
  BY <1>0, ChunkShape
<1>2. Len(y) = e - b /\ \A k \in 1 .. e - b : y[k] = <<s, b + k>>
  <2>1. b <= e
    BY <1>0
  <2> QED
    BY <1>0, <2>1, ChunkShape
<1> HIDE DEF x, y
<1>3. 1 \in 1 .. Len(y) /\ y[1][2] = b + 1
  BY <1>0, <1>2
<1>4. b + 1 <= n
  <2>1. y[1][2] \in 1 .. n
    BY <1>0, <1>3 DEF InOrder, Of
  <2> QED
    BY <1>0, <1>3, <2>1
<1>5. m <= b
  <2>1. CASE m = 0
    BY <1>0, <2>1
  <2>2. CASE a < m
    <3>1. m - a \in 1 .. m - a /\ a + (m - a) = m
      BY <1>0, <2>2
    <3>2. x[m - a][2] = m
      BY <1>1, <3>1
    <3>3. x[m - a][2] < y[1][2]
      BY <1>0, <1>1, <1>3, <3>1 DEF Before
    <3> QED
      BY <1>0, <1>3, <3>2, <3>3
  <2> QED
    BY <1>0, <2>1, <2>2
<1>6. m + 1 \in 1 .. n
  BY <1>0, <1>4, <1>5
<1>7. ~Has(x, m + 1)
  <2>1. \A k \in 1 .. m - a : x[k][2] = a + k /\ a + k # m + 1
    BY <1>0, <1>1
  <2> QED
    BY <1>1, <2>1 DEF Has
<1>8. ASSUME NEW z, Before(y, z), Has(z, m + 1) PROVE FALSE
  <2>1. PICK k \in 1 .. Len(z) : z[k][2] = m + 1
    BY <1>8 DEF Has
  <2>2. y[1][2] < m + 1
    BY <1>3, <1>8, <2>1 DEF Before
  <2> QED
    BY <1>0, <1>3, <1>5, <2>2
<1>9. PICK k \in 1 .. Len(y) : y[k][2] = m + 1
  BY <1>0, <1>6, <1>7, <1>8 DEF NoGap, Has
<1>10. b + k = m + 1
  BY <1>0, <1>2, <1>9
<1>11. b = m
  BY <1>0, <1>5, <1>10
<1>12. Chunk(s, a, m) \o Chunk(s, m, e) = Chunk(s, a, e)
  <2>1. m <= e
    BY <1>0, <1>11
  <2> QED
    BY <1>0, <2>1, ChunkConcat
<1> QED
  BY <1>11, <1>12 DEF x, y

LEMMA EmptyPiece ==
  ASSUME NEW s
  PROVE  Piece(s, <<>>) /\ Payload(s, 0) = <<>>
<1>1. /\ Len(Chunk(s, 0, 0)) = 0 - 0 /\ Chunk(s, 0, 0) \in Seq({s} \X Nat)
  <2>1. 0 \in Nat /\ 0 <= 0
    OBVIOUS
  <2> QED
    BY <2>1, ChunkShape
<1>2. Chunk(s, 0, 0) = <<>>
  BY <1>1, EmptySeq
<1>3. Len(<<>>) = 0 /\ 0 + 0 = 0
  OBVIOUS
<1>4. <<>> = Chunk(s, 0, 0 + Len(<<>>))
  BY <1>2, <1>3
<1> QED
  BY <1>2, <1>4 DEF Piece, Payload

(* What is collected of a stream, with what the event adds, is a piece.    *)
LEMMA WholePiece ==
  ASSUME OrderInv, PieceInv, Covered, NEW s \in Long, DataStep(s)
  PROVE  Piece(s, Whole(s))
<1> DEFINE y == Head(events).bytes
           x == uniPayloads[s].bytes
<1>1. /\ IInv /\ s \in Streams /\ events # <<>> /\ events' = Tail(events)
      /\ DataOf(Head(events), s)
  BY DEF OrderInv, Long, DataStep
<1>2. Shortened
  BY <1>1, EventsShortened
<1>3. y \in Seq(Unit) /\ Piece(s, y)
  <2>1. Head(events) \in Event
    BY <1>2 DEF Shortened
  <2>2. y \in Seq(Unit)
    BY <2>1 DEF Event
  <2> QED
    BY <1>1, <1>2, <2>2 DEF PieceInv, EventPieces, Shortened
<1>4. CASE s \notin DOMAIN uniPayloads
  BY <1>3, <1>4 DEF Whole
<1>5. CASE s \in DOMAIN uniPayloads
  <2>1. x \in Seq(Unit) /\ Piece(s, x)
    BY <1>1, <1>5 DEF IInv, TypeOK, PieceInv, PayloadPieces
  <2>2. Whole(s) = x \o y
    BY <1>5 DEF Whole
  <2>3. /\ InOrder(s, y, told[s]) /\ Before(x, y)
        /\ \A j \in 1 .. Len(events') : DataOf(events'[j], s) => Before(y, events'[j].bytes)
    BY <1>1, <1>5, HeadInOrder
  <2>4. /\ Len(x) \in Nat /\ Len(y) \in Nat /\ told[s] \in Nat
        /\ (x # <<>> => Len(x) > 0) /\ (y # <<>> => Len(y) > 0)
    <3>1. Len(x) \in Nat /\ Len(y) \in Nat
      BY <1>3, <2>1, LenProperties
    <3>2. (x # <<>> => Len(x) # 0) /\ (y # <<>> => Len(y) # 0)
      BY <1>3, <2>1, EmptySeq
    <3>3. told[s] \in Nat
      BY <1>1 DEF IInv, TypeOK
    <3> QED
      BY <3>1, <3>2, <3>3
  <2>5. \A p \in 1 .. told[s] :
          Has(x, p) \/ Has(y, p) \/ \E z : Before(y, z) /\ Has(z, p)
    <3>1. echoedOn[s] = None /\ s \in UniStreams /\ s \notin BidiStreams
      BY <1>1, <1>5, NoneIsNone DEF IInv, PayloadInv, TypeOK
    <3>2. Live(s)
      BY <1>1, NotQuietYet
    <3>3. EchoStream(s) = None
      BY <3>1 DEF EchoStream
    <3>4. \A p : ~Has(Echoed(s), p)
      <4>1. None \notin DOMAIN wire
        BY <1>1, NoneIsNone DEF IInv, TypeOK
      <4>2. Echoed(s) = <<>>
        BY <3>3, <4>1 DEF Echoed, OnWire
      <4> QED
        BY <4>2 DEF Has
    <3>5. \A p : ~InCommands(s, p)
      <4>1. \A i \in 1 .. Len(commands) : commands[i] \in Command
        BY <1>1, ElementOfSeq DEF IInv, TypeOK
      <4>2. \A i \in 1 .. Len(commands) : commands[i].stream # None
        BY <4>1, NoneIsNone DEF Command
      <4> QED
        BY <3>3, <4>2 DEF InCommands
    <3>6. ASSUME NEW p, InEvents(s, p) PROVE Has(y, p) \/ \E z : Before(y, z) /\ Has(z, p)
      <4>1. PICK i \in 1 .. Len(events) : DataOf(events[i], s) /\ Has(events[i].bytes, p)
        BY <3>6 DEF InEvents
      <4>2. CASE events[i] = Head(events)
        BY <4>1, <4>2
      <4>3. CASE i - 1 \in 1 .. Len(events') /\ events'[i - 1] = events[i]
        BY <2>3, <4>1, <4>3
      <4> QED
        BY <1>2, <4>2, <4>3 DEF Shortened
    <3> QED
      BY <3>2, <3>4, <3>5, <3>6 DEF Covered, Somewhere, InPayload
  <2>6. PICK a \in Nat : x = Chunk(s, a, a + Len(x))
    BY <2>1 DEF Piece
  <2>7. PICK b \in Nat : y = Chunk(s, b, b + Len(y))
    BY <1>3 DEF Piece
  <2> HIDE DEF x, y
  <2>8. CASE x = <<>>
    <3>1. x \o y = y
      BY <1>3, <2>8, ConcatEmptySeq
    <3> QED
      BY <1>3, <2>2, <3>1
  <2>9. CASE y = <<>>
    <3>1. x \o y = x
      BY <2>1, <2>9, ConcatEmptySeq
    <3> QED
      BY <2>1, <2>2, <3>1
  <2>10. CASE x # <<>> /\ y # <<>>
    <3>1. PICK m \in Nat : m = a + Len(x)
      BY <2>4
    <3>2. a < m /\ a <= m /\ x = Chunk(s, a, m) /\ Len(y) > 0
      BY <2>4, <2>6, <2>10, <3>1
    <3>3. PICK n \in Nat : n = told[s]
      BY <2>4
    <3>4. PICK e \in Nat : e = b + Len(y)
      BY <2>4
    <3>5. b < e /\ y = Chunk(s, b, e)
      BY <2>4, <2>7, <3>2, <3>4
    <3>6. Before(Chunk(s, a, m), Chunk(s, b, e))
      BY <2>3, <3>2, <3>5
    <3>10. NoGap(Chunk(s, a, m), Chunk(s, b, e), n)
      BY <2>5, <3>2, <3>3, <3>5 DEF NoGap
    <3>11. InOrder(s, Chunk(s, b, e), n)
      BY <2>3, <3>3, <3>5
    <3>12. Adjoining(s, a, m, b, e, n)
      BY <3>2, <3>5, <3>6, <3>10, <3>11 DEF Adjoining
    <3>7. b = m /\ x \o y = Chunk(s, a, e)
      <4>1. b = m /\ Chunk(s, a, m) \o Chunk(s, b, e) = Chunk(s, a, e)
        BY <3>12, Adjacent
      <4> QED
        BY <3>2, <3>5, <4>1
    <3>8. Len(x \o y) = Len(x) + Len(y)
      BY <1>3, <2>1, ConcatProperties
    <3>9. e = a + Len(x \o y)
      BY <2>4, <3>1, <3>4, <3>7, <3>8
    <3> QED
      BY <2>2, <3>7, <3>9 DEF Piece
  <2> QED
    BY <2>8, <2>9, <2>10
<1> QED
  BY <1>4, <1>5

(* What comes back grows without a gap.                                    *)
LEMMA EchoPiece ==
  ASSUME OrderInv, PieceInv, Covered, EchoesDone, Execute, NEW u \in Long
  PROVE  \E n \in Nat : /\ Echoed(u)' = Payload(u, n)
                        /\ \E k \in Nat : k <= n /\ Echoed(u) = Payload(u, k)
<1>1. PICK c \in Command : c = Head(commands)
  BY RestOfCommands
<1>2. c = commands[1] /\ 1 \in 1 .. Len(commands)
  BY <1>1, RestOfCommands
<1>3. PICK m \in Nat : Echoed(u) = Payload(u, m)
  BY DEF PieceInv, EchoPieces
<1>4. CASE EchoStream(u) # c.stream
  <2>1. Echoed(u)' = Echoed(u)
    BY <1>1, <1>4, EchoGrowsWhole
  <2> QED
    BY <1>3, <2>1
<1>5. CASE EchoStream(u) = c.stream
  <2>1. PICK y \in Seq(Unit) : y = Body(c)
    BY <1>1, EchoGrowsWhole
  <2>2. Echoed(u)' = Chunk(u, 0, m) \o y
    BY <1>1, <1>3, <1>5, <2>1, EchoGrowsWhole DEF Payload
  <2>3. PICK b \in Nat : y = Chunk(u, b, b + Len(y))
    BY <1>2, <1>5, <2>1 DEF PieceInv, CommandPieces, Piece
  <2>4. u \in Streams /\ IInv /\ c.stream \in Nat
    BY DEF Long, OrderInv, Command
  <2>5. /\ InOrder(u, y, told[u]) /\ Before(Chunk(u, 0, m), y)
        /\ \A j \in 1 .. Len(commands) :
             commands[j].stream = EchoStream(u) /\ 1 < j => Before(y, Body(commands[j]))
        /\ \A j \in 1 .. Len(events) : DataOf(events[j], u) => Before(y, events[j].bytes)
    BY <1>2, <1>3, <1>5, <2>1, <2>4 DEF OrderInv, CommandOrder, WireOrder, Payload
  <2>6. /\ Len(y) \in Nat /\ told[u] \in Nat /\ (y # <<>> => Len(y) > 0)
    <3>1. Len(y) \in Nat /\ (y # <<>> => Len(y) # 0)
      BY <2>1, LenProperties, EmptySeq
    <3>2. told[u] \in Nat
      BY <2>4 DEF IInv, TypeOK
    <3> QED
      BY <3>1, <3>2
  <2>7. CASE y = <<>>
    <3>1. Chunk(u, 0, m) \in Seq({u} \X Nat)
      <4>1. 0 \in Nat /\ 0 <= m
        OBVIOUS
      <4> QED
        BY <4>1, ChunkShape
    <3>2. Chunk(u, 0, m) \o y = Chunk(u, 0, m)
      BY <2>7, <3>1, ConcatEmptySeq
    <3> QED
      BY <1>3, <2>2, <3>2 DEF Payload
  <2>8. CASE y # <<>>
    <3>1. c.stream # None
      BY <2>4, NoneIsNone
    <3>2. Live(u)
      BY <1>5, <3>1 DEF Live, EchoStream
    <3>3. u \notin DOMAIN uniPayloads
      BY <1>5, <2>4, <3>1, NoneIsNone DEF IInv, TypeOK, PayloadInv, EchoStream
    <3>4. ASSUME NEW p, InCommands(u, p) PROVE Has(y, p) \/ \E z : Before(y, z) /\ Has(z, p)
      <4>1. PICK i \in 1 .. Len(commands) :
              commands[i].stream = EchoStream(u) /\ Has(Body(commands[i]), p)
        BY <3>4 DEF InCommands
      <4>2. i = 1 \/ 1 < i
        OBVIOUS
      <4> QED
        BY <1>2, <2>1, <2>5, <4>1, <4>2
    <3>5. ASSUME NEW p, InEvents(u, p) PROVE \E z : Before(y, z) /\ Has(z, p)
      BY <2>5, <3>5 DEF InEvents
    <3>6. \A p \in 1 .. told[u] : \/ Has(Chunk(u, 0, m), p) \/ Has(y, p)
                                  \/ \E z : Before(y, z) /\ Has(z, p)
      BY <1>3, <3>2, <3>3, <3>4, <3>5 DEF Covered, Somewhere, InPayload, Payload
    <3>7. PICK n \in Nat : n = told[u]
      BY <2>6
    <3>8. 0 \in Nat /\ 0 <= m /\ (0 < m \/ m = 0)
      OBVIOUS
    <3>9. PICK e \in Nat : e = b + Len(y)
      BY <2>6
    <3>10. b < e /\ y = Chunk(u, b, e)
      BY <2>3, <2>6, <2>8, <3>9
    <3>13. InOrder(u, Chunk(u, b, e), n) /\ Before(Chunk(u, 0, m), Chunk(u, b, e))
      BY <2>5, <3>7, <3>10
    <3>14. NoGap(Chunk(u, 0, m), Chunk(u, b, e), n)
      BY <3>6, <3>7, <3>10 DEF NoGap
    <3>16. Adjoining(u, 0, m, b, e, n)
      BY <3>8, <3>10, <3>13, <3>14 DEF Adjoining
    <3>15. b = m /\ Chunk(u, 0, m) \o Chunk(u, b, e) = Chunk(u, 0, e)
      BY <3>16, Adjacent
    <3>12. m <= e
      BY <3>10, <3>15
    <3> QED
      BY <1>3, <2>2, <3>10, <3>12, <3>15 DEF Payload
  <2> QED
    BY <2>7, <2>8
<1> QED
  BY <1>4, <1>5

-----------------------------------------------------------------------------
(* Nothing is cut out of the middle of a stream.                           *)
LEMMA EventPiecesStay ==
  ASSUME EventPieces,
         \/ events' = events \/ Shortened
         \/ \E e : Extended(e) /\ \A s \in Streams : DataOf(e, s) => Piece(s, e.bytes)
  PROVE  EventPieces'
<1> SUFFICES ASSUME NEW s \in Streams, NEW i \in 1 .. Len(events'), DataOf(events'[i], s)
             PROVE  Piece(s, events'[i].bytes)
  BY DEF EventPieces, Piece
<1>1. CASE events' = events
  BY <1>1 DEF EventPieces
<1>2. CASE Shortened
  BY <1>2 DEF EventPieces, Shortened
<1>3. ASSUME NEW e, Extended(e), \A u \in Streams : DataOf(e, u) => Piece(u, e.bytes)
      PROVE  Piece(s, events'[i].bytes)
  BY <1>3 DEF EventPieces, Extended
<1> QED
  BY <1>1, <1>2, <1>3

LEMMA PiecesElsewhere ==
  ASSUME PieceInv, UNCHANGED <<commands, wire, echoedOn>>,
         \A s \in DOMAIN uniPayloads' : s \in Long =>
           \/ s \in DOMAIN uniPayloads /\ uniPayloads'[s] = uniPayloads[s]
           \/ Piece(s, uniPayloads'[s].bytes)
  PROVE  PayloadPieces' /\ CommandPieces' /\ EchoPieces'
<1>1. ASSUME NEW s \in DOMAIN uniPayloads', s \in Long PROVE Piece(s, uniPayloads'[s].bytes)
  BY <1>1 DEF PieceInv, PayloadPieces
<1>2. PayloadPieces'
  BY <1>1 DEF PayloadPieces, Piece
<1>3. \A s : EchoStream(s)' = EchoStream(s)
  BY DEF EchoStream
<1>4. CommandPieces'
  BY <1>3 DEF PieceInv, CommandPieces, Piece, Body
<1>5. \A s : Echoed(s)' = Echoed(s)
  BY <1>3 DEF Echoed, OnWire
<1>6. EchoPieces'
  BY <1>5 DEF PieceInv, EchoPieces
<1> QED
  BY <1>2, <1>4, <1>6

LEMMA PiecesOfReport ==
  ASSUME IInv, PieceInv, NEW s \in Streams, ReportData(s)
  PROVE  PieceInv'
<1>1. PICK n \in Nat, m \in Nat : n = told[s] /\ m = told'[s] /\ n <= m
  BY Reported
<1>2. PICK e \in Event : /\ events' = Append(events, e) /\ e.stream = s
                         /\ e.bytes = Chunk(s, n, m)
  BY <1>1, Reported
<1>3. Piece(s, e.bytes)
  <2>1. Len(e.bytes) = m - n
    <3>1. Len(Chunk(s, n, m)) = m - n
      BY <1>1, ChunkShape
    <3> QED
      BY <1>2, <3>1
  <2>2. n + Len(e.bytes) = m
    BY <1>1, <2>1
  <2> QED
    BY <1>2, <2>2 DEF Piece
<1>4. Extended(e) /\ \A u \in Streams : DataOf(e, u) => Piece(u, e.bytes)
  BY <1>2, <1>3, EventsExtended DEF DataOf
<1>5. EventPieces'
  BY <1>4, EventPiecesStay DEF PieceInv
<1>6. UNCHANGED <<commands, wire, echoedOn, uniPayloads>>
  BY Reported
<1>7. PayloadPieces' /\ CommandPieces' /\ EchoPieces'
  BY <1>6, PiecesElsewhere
<1> QED
  BY <1>5, <1>7 DEF PieceInv

LEMMA PiecesOfAnswering ==
  ASSUME OrderInv, PieceInv, Covered, NEW s \in Streams, NEW c \in Command, Answering(s, c)
  PROVE  PayloadPieces' /\ CommandPieces' /\ EchoPieces'
<1>1. IInv /\ DataStep(s) /\ wire' = wire
  BY DEF OrderInv, Answering, DataStep
<1>2. PayloadPieces'
  <2>1. \A u \in DOMAIN uniPayloads' : u \in DOMAIN uniPayloads /\ uniPayloads'[u] = uniPayloads[u]
    BY DEF Answering, DataStep
  <2>2. ASSUME NEW u \in DOMAIN uniPayloads', u \in Long PROVE Piece(u, uniPayloads'[u].bytes)
    BY <2>1, <2>2 DEF PieceInv, PayloadPieces
  <2> QED
    BY <2>2 DEF PayloadPieces, Piece
<1>3. ASSUME NEW u \in Long, NEW i \in 1 .. Len(commands'), commands'[i].stream = EchoStream(u)'
      PROVE  Piece(u, Body(commands'[i]))
  <2>1. \/ i \in 1 .. Len(commands) /\ commands'[i] = commands[i]
        \/ commands'[i] = c
    BY <1>1, CommandAdded DEF Answering
  <2>2. u \in Streams
    BY DEF Long
  <2>3. CASE u = s
    <3>1. CASE commands'[i] = c
      BY <1>1, <2>3, <3>1, WholePiece DEF Answering
    <3>2. CASE i \in 1 .. Len(commands) /\ commands'[i] = commands[i]
      <4>1. commands[i].stream = EchoStream(u)
        BY <1>3, <2>3, <3>2 DEF Answering
      <4> QED
        BY <3>2, <4>1 DEF PieceInv, CommandPieces
    <3> QED
      BY <2>1, <3>1, <3>2
  <2>4. CASE u # s
    <3>1. EchoStream(u)' = EchoStream(u) /\ EchoStream(u) # c.stream
      BY <1>1, <2>2, <2>4 DEF Answering, DataStep
    <3>2. i \in 1 .. Len(commands) /\ commands[i].stream = EchoStream(u)
          /\ commands'[i] = commands[i]
      BY <1>3, <2>1, <3>1
    <3> QED
      BY <3>2 DEF PieceInv, CommandPieces
  <2> QED
    BY <2>3, <2>4
<1>4. CommandPieces'
  BY <1>3 DEF CommandPieces, Piece, Body
<1>5. ASSUME NEW u \in Long PROVE \E n \in Nat : Echoed(u)' = Payload(u, n)
  <2>1. EchoStream(u)' = EchoStream(u) => Echoed(u)' = Echoed(u)
    BY <1>1 DEF Echoed, OnWire
  <2>2. CASE EchoStream(u)' = EchoStream(u)
    BY <2>1, <2>2 DEF PieceInv, EchoPieces
  <2>3. CASE EchoStream(u)' # EchoStream(u)
    <3>1. u = s /\ EchoStream(u)' = c.stream /\ OnWire(c.stream) = <<>>
      BY <1>1, <2>3 DEF Answering, DataStep, Long
    <3>2. OnWire(c.stream)' = <<>>
      BY <1>1, <3>1 DEF OnWire
    <3>3. Echoed(u)' = <<>>
      BY <3>1, <3>2 DEF Echoed
    <3>4. <<>> = Payload(u, 0) /\ 0 \in Nat
      BY EmptyPiece
    <3> QED
      BY <3>3, <3>4
  <2> QED
    BY <2>2, <2>3
<1>6. EchoPieces'
  BY <1>5 DEF EchoPieces
<1> QED
  BY <1>2, <1>4, <1>6

LEMMA PiecesOfExecute ==
  ASSUME OrderInv, PieceInv, Covered, EchoesDone, Execute
  PROVE  PieceInv'
<1>1. /\ UNCHANGED <<events, uniPayloads, echoedOn>>
      /\ \A j \in 1 .. Len(commands') :
           j + 1 \in 1 .. Len(commands) /\ commands'[j] = commands[j + 1]
  BY RestOfCommands
<1>2. EventPieces'
  BY <1>1, EventPiecesStay DEF PieceInv
<1>3. PayloadPieces'
  BY <1>1 DEF PieceInv, PayloadPieces, Piece
<1>4. ASSUME NEW u \in Long, NEW i \in 1 .. Len(commands'), commands'[i].stream = EchoStream(u)'
      PROVE  Piece(u, Body(commands'[i]))
  BY <1>1, <1>4 DEF PieceInv, CommandPieces, EchoStream
<1>5. CommandPieces'
  BY <1>4 DEF CommandPieces, Piece, Body
<1>6. EchoPieces'
  BY EchoPiece DEF EchoPieces
<1> QED
  BY <1>2, <1>3, <1>5, <1>6 DEF PieceInv

LEMMA PieceStays ==
  ASSUME OrderInv, PieceInv, Covered, EchoesDone, [Next]_vars
  PROVE  PieceInv'
<1>1. IInv
  BY DEF OrderInv
<1>2. CASE Resting
  BY <1>2, EventPiecesStay, PiecesElsewhere DEF Resting, PieceInv
<1>3. CASE Announcing
  <2>1. PICK e \in Event : ~IsData(e) /\ events' = Append(events, e)
    BY <1>3 DEF Announcing
  <2>2. Extended(e) /\ \A s \in Streams : ~DataOf(e, s)
    BY <1>1, <2>1, EventsExtended DEF DataOf
  <2>3. EventPieces'
    BY <2>2, EventPiecesStay DEF PieceInv
  <2>4. PayloadPieces' /\ CommandPieces' /\ EchoPieces'
    BY <1>3, PiecesElsewhere DEF Announcing
  <2> QED
    BY <2>3, <2>4 DEF PieceInv
<1>4. CASE Handling
  <2>1. EventPieces'
    BY <1>1, <1>4, EventsShortened, EventPiecesStay DEF Handling, PieceInv
  <2>2. PayloadPieces' /\ CommandPieces' /\ EchoPieces'
    BY <1>4, PiecesElsewhere DEF Handling, FewerPayloads
  <2> QED
    BY <2>1, <2>2 DEF PieceInv
<1>5. ASSUME NEW s \in Streams, ReportData(s) PROVE PieceInv'
  BY <1>1, <1>5, PiecesOfReport
<1>6. CASE OnBidiData \/ OnUniData
  <2>1. EventPieces'
    BY <1>1, <1>6, HandledData, EventsShortened, EventPiecesStay DEF PieceInv
  <2>2. PICK s \in Streams : Collecting(s) \/ \E c \in Command : Answering(s, c)
    BY <1>6, DataKinds
  <2>3. CASE Collecting(s)
    <3>1. s \in Long => Piece(s, Whole(s))
      BY <2>3, WholePiece DEF Collecting
    <3>2. PICK w : w = Whole(s)
      OBVIOUS
    <3>3. uniPayloads'[s].bytes = w /\ (s \in Long => Piece(s, w))
      BY <2>3, <3>1, <3>2 DEF Collecting
    <3>4. \A u \in DOMAIN uniPayloads' : u # s =>
            u \in DOMAIN uniPayloads /\ uniPayloads'[u] = uniPayloads[u]
      BY <2>3 DEF Collecting, DataStep
    <3>5. \A u \in DOMAIN uniPayloads' : u \in Long =>
            \/ u \in DOMAIN uniPayloads /\ uniPayloads'[u] = uniPayloads[u]
            \/ Piece(u, uniPayloads'[u].bytes)
      BY <3>3, <3>4
    <3>6. UNCHANGED <<commands, wire, echoedOn>>
      BY <2>3 DEF Collecting, DataStep
    <3>7. PayloadPieces' /\ CommandPieces' /\ EchoPieces'
      BY <3>5, <3>6, PiecesElsewhere
    <3> QED
      BY <2>1, <3>7 DEF PieceInv
  <2>4. ASSUME NEW c \in Command, Answering(s, c) PROVE PieceInv'
    BY <2>1, <2>4, PiecesOfAnswering DEF PieceInv
  <2> QED
    BY <2>2, <2>3, <2>4
<1>7. CASE Execute
  BY <1>7, PiecesOfExecute
<1> QED
  BY <1>1, <1>2, <1>3, <1>4, <1>5, <1>6, <1>7, StepKinds

-----------------------------------------------------------------------------
LEMMA ContractInitInv == ~Grease /\ Init => ContractInv
<1> SUFFICES ASSUME ~Grease, Init PROVE ContractInv
  OBVIOUS
<1>1. OrderInv
  BY OrderInitInv
<1>2. /\ events = <<>> /\ commands = <<>> /\ uniPayloads = <<>>
      /\ DOMAIN wire = {} /\ finished = {} /\ told = [s \in Streams |-> 0]
  BY DEF Init, GreaseStreams
<1>3. 1 .. Len(events) = {} /\ 1 .. Len(commands) = {} /\ DOMAIN uniPayloads = {}
  BY <1>2
<1>4. \A s : Echoed(s) = <<>>
  BY <1>2 DEF Echoed, OnWire
<1>5. EchoPieces
  <2>1. \A s : <<>> = Payload(s, 0) /\ 0 \in Nat
    BY EmptyPiece
  <2> QED
    BY <1>4, <2>1 DEF EchoPieces
<1>6. PieceInv
  BY <1>3, <1>5 DEF PieceInv, EventPieces, PayloadPieces, CommandPieces
<1>7. EventsDone /\ CommandsDone
  BY <1>3 DEF EventsDone, CommandsDone
<1>8. EchoesDone
  BY <1>2 DEF EchoesDone, Answered
<1>9. Covered
  <2>1. \A s \in Long : 1 .. told[s] = {}
    BY <1>2 DEF Long
  <2> QED
    BY <2>1 DEF Covered
<1> QED
  BY <1>1, <1>6, <1>7, <1>8, <1>9 DEF ContractInv

LEMMA ContractNextInv == ContractInv /\ [Next]_vars => ContractInv'
<1> SUFFICES ASSUME ContractInv, [Next]_vars PROVE ContractInv'
  OBVIOUS
<1>1. /\ OrderInv /\ PieceInv /\ EventsDone /\ CommandsDone /\ EchoesDone /\ Covered
      /\ IInv
  BY DEF ContractInv, OrderInv
<1>2. OrderInv'
  BY <1>1, OrderNextInv
<1>3. PieceInv'
  BY <1>1, PieceStays
<1>4. EventsDone'
  BY <1>1, EventsDoneStays
<1>5. CommandsDone' /\ EchoesDone'
  BY <1>1, DoneStays
<1>6. Covered'
  BY <1>1, CoveredStays
<1> QED
  BY <1>2, <1>3, <1>4, <1>5, <1>6 DEF ContractInv

-----------------------------------------------------------------------------
(* A step of the connection, as the contract sees it.                      *)
LEMMA PayloadShape ==
  ASSUME NEW s, NEW n \in Nat
  PROVE  /\ Payload(s, n) = Contract!Payload(s, n)
         /\ Len(Payload(s, n)) = n
         /\ \A k \in 1 .. n : Payload(s, n)[k] = <<s, k>>
<1>1. /\ Len(Chunk(s, 0, n)) = n - 0
      /\ \A k \in 1 .. n - 0 : Chunk(s, 0, n)[k] = <<s, 0 + k>>
  <2>1. 0 \in Nat /\ 0 <= n
    OBVIOUS
  <2> QED
    BY <2>1, ChunkShape
<1>2. /\ Len(Payload(s, n)) = n
      /\ \A k \in 1 .. n : Payload(s, n)[k] = <<s, k>>
  BY <1>1 DEF Payload
<1>3. Payload(s, n) = [i \in 1 .. n |-> <<s, i>>]
  <2>1. n - 0 = n /\ \A i \in 1 .. n : 0 + i = i
    OBVIOUS
  <2> QED
    BY <2>1 DEF Payload, Chunk
<1> QED
  BY <1>2, <1>3 DEF Contract!Payload

LEMMA NotAnswering ==
  ASSUME UNCHANGED <<sent, ended>>,
         \A u \in Long : Echoed(u)' = Echoed(u) /\ Answered(u)' = Answered(u)
  PROVE  UNCHANGED Contract!vars
<1>1. [s \in Streams \ Short |-> Echoed(s)]' = [s \in Streams \ Short |-> Echoed(s)]
  BY DEF Long
<1>2. [s \in Streams \ Short |-> Answered(s)]' = [s \in Streams \ Short |-> Answered(s)]
  BY DEF Long
<1> QED
  BY <1>1, <1>2 DEF Contract!vars

LEMMA ClientAsContract ==
  ASSUME IInv, Client
  PROVE  [Contract!Next]_(Contract!vars)
<1>1. /\ ClientStep
      /\ UNCHANGED <<wire, finished, echoedOn>>
  BY DEF Client, sendVars, appVars
<1>2. \A u : Echoed(u)' = Echoed(u) /\ Answered(u)' = Answered(u)
  BY <1>1 DEF Echoed, OnWire, EchoStream, Answered
<1>3. /\ [s \in Streams \ Short |-> Echoed(s)]' = [s \in Streams \ Short |-> Echoed(s)]
      /\ [s \in Streams \ Short |-> Answered(s)]' = [s \in Streams \ Short |-> Answered(s)]
  BY <1>2
<1>4. sent \in [Streams -> Nat] /\ ended \in [Streams -> BOOLEAN]
  BY DEF IInv, TypeOK, ClientTypeOK
<1>5. ASSUME NEW u \in Streams, Write(u) PROVE [Contract!Next]_(Contract!vars)
  <2>1. /\ ~ended[u] /\ sent[u] < MaxBytes[u] /\ ended' = ended
        /\ sent' = [sent EXCEPT ![u] = @ + 1]
    BY <1>5 DEF Write, Usable
  <2>2. CASE u \in Streams \ Short
    <3>1. [s \in Streams \ Short |-> sent'[s]]
            = [[s \in Streams \ Short |-> sent[s]] EXCEPT ![u] = @ + 1]
      BY <1>4, <2>1, <2>2
    <3>2. Contract!Write(u)
      BY <1>3, <2>1, <2>2, <3>1 DEF Contract!Write
    <3> QED
      BY <2>2, <3>2 DEF Contract!Next
  <2>3. CASE u \notin Streams \ Short
    <3>1. [s \in Streams \ Short |-> sent'[s]] = [s \in Streams \ Short |-> sent[s]]
      BY <1>4, <2>1, <2>3
    <3> QED
      BY <1>3, <2>1, <3>1 DEF Contract!vars
  <2> QED
    BY <2>2, <2>3
<1>6. ASSUME NEW u \in Streams, End(u) PROVE [Contract!Next]_(Contract!vars)
  <2>1. /\ ~ended[u] /\ sent' = sent /\ ended' = [ended EXCEPT ![u] = TRUE]
    BY <1>6 DEF End, Usable
  <2>2. CASE u \in Streams \ Short
    <3>1. [s \in Streams \ Short |-> ended'[s]]
            = [[s \in Streams \ Short |-> ended[s]] EXCEPT ![u] = TRUE]
      BY <1>4, <2>1, <2>2
    <3>2. Contract!End(u)
      BY <1>3, <2>1, <2>2, <3>1 DEF Contract!End
    <3> QED
      BY <2>2, <3>2 DEF Contract!Next
  <2>3. CASE u \notin Streams \ Short
    <3>1. [s \in Streams \ Short |-> ended'[s]] = [s \in Streams \ Short |-> ended[s]]
      BY <1>4, <2>1, <2>3
    <3> QED
      BY <1>3, <2>1, <3>1 DEF Contract!vars
  <2> QED
    BY <2>2, <2>3
<1>7. CASE UNCHANGED <<sent, ended>>
  BY <1>2, <1>7, NotAnswering
<1>8. \/ UNCHANGED <<sent, ended>>
      \/ \E u \in Streams : Write(u) \/ End(u)
  BY <1>1 DEF ClientStep, Request, Cancel, Open, Reset
<1> QED
  BY <1>5, <1>6, <1>7, <1>8

(* Where a server stream is assigned, nothing is on it yet.                *)
LEMMA DataAsContract ==
  ASSUME OrderInv, EchoesDone, OnBidiData \/ OnUniData
  PROVE  UNCHANGED Contract!vars
<1>1. PICK s \in Streams : Collecting(s) \/ \E c \in Command : Answering(s, c)
  BY DataKinds
<1>2. IInv /\ UNCHANGED <<wire, finished, sent, ended>>
  BY HandledData DEF OrderInv
<1>3. ASSUME NEW u \in Long, EchoStream(u)' = EchoStream(u)
      PROVE  Echoed(u)' = Echoed(u) /\ Answered(u)' = Answered(u)
  BY <1>2, <1>3 DEF Echoed, OnWire, Answered
<1>4. ASSUME NEW u \in Long, EchoStream(u)' # EchoStream(u)
      PROVE  Echoed(u)' = Echoed(u) /\ Answered(u)' = Answered(u)
  <2>1. u \in Streams
    BY DEF Long
  <2>2. PICK c \in Command : Answering(s, c)
    BY <1>1, <1>4, <2>1 DEF Collecting, EchoStream
  <2>3. u = s /\ EchoStream(u)' = c.stream /\ EchoStream(u) = None
    BY <1>4, <2>1, <2>2 DEF Answering, DataStep
  <2>4. OnWire(c.stream) = <<>> /\ c.stream \notin finished
    BY <1>4, <2>2, <2>3 DEF Answering
  <2>5. None \notin DOMAIN wire /\ None \notin finished
    BY <1>2, NoneIsNone DEF IInv, TypeOK
  <2>6. OnWire(c.stream)' = <<>> /\ OnWire(None) = <<>>
    BY <1>2, <2>4, <2>5 DEF OnWire
  <2>7. Echoed(u) = <<>>
    BY <2>3, <2>6 DEF Echoed
  <2>8. Echoed(u)' = <<>>
    BY <2>3, <2>6 DEF Echoed
  <2>9. ~Answered(u) /\ ~Answered(u)'
    BY <1>2, <2>3, <2>4, <2>5 DEF Answered
  <2>10. Answered(u)' = Answered(u)
    BY <2>9 DEF Answered
  <2> QED
    BY <2>7, <2>8, <2>10
<1> QED
  BY <1>2, <1>3, <1>4, NotAnswering

(* When the FIN of an echo is sent, all of the stream has come back.       *)
LEMMA AnsweredWhole ==
  ASSUME ContractInv', NEW u \in Long, Answered(u)', NEW n \in Nat, Echoed(u)' = Payload(u, n)
  PROVE  ended'[u] /\ n = sent'[u]
<1>1. u \in Streams /\ IInv'
  BY DEF Long, ContractInv, OrderInv
<1>2. /\ Over(u)' /\ NoData(u)'
      /\ \A i \in 1 .. Len(commands') : commands'[i].stream # EchoStream(u)'
  BY <1>1 DEF ContractInv, EchoesDone, Quiet
<1>3. PICK m \in Nat : m = told'[u]
  BY <1>1 DEF IInv, TypeOK
<1>4. ended'[u] /\ m = sent'[u]
  BY <1>2, <1>3 DEF Over
<1>5. EchoStream(u)' # None
  BY <1>1, NoneIsNone DEF IInv, TypeOK, Answered
<1>6. Live(u)' /\ u \notin DOMAIN uniPayloads'
  <2>1. u \in BidiStreams \/ echoedOn'[u] # None
    BY <1>5 DEF EchoStream
  <2>2. u \notin DOMAIN uniPayloads'
    BY <1>1, <2>1, NoneIsNone DEF IInv, TypeOK, PayloadInv
  <2> QED
    BY <2>1, <2>2 DEF Live
<1>7. ~InCommands(u, m)' /\ ~InPayload(u, m)' /\ ~InEvents(u, m)'
  BY <1>2, <1>6 DEF InCommands, InPayload, InEvents, NoData
<1>8. m \in 1 .. told'[u] => Has(Payload(u, n), m)
  BY <1>6, <1>7 DEF ContractInv, Covered, Somewhere
<1>9. m <= n
  <2>1. CASE m = 0
    BY <2>1
  <2>2. CASE m # 0
    <3>1. m \in 1 .. told'[u]
      BY <1>3, <2>2
    <3>2. PICK k \in 1 .. n : Payload(u, n)[k][2] = m
      BY <1>8, <3>1, PayloadShape DEF Has
    <3>3. k = m
      BY <3>2, PayloadShape
    <3> QED
      BY <3>3
  <2> QED
    BY <2>1, <2>2
<1>10. n <= m
  <2>1. CASE n = 0
    BY <2>1
  <2>2. CASE n # 0
    <3>1. n \in 1 .. n /\ Len(Payload(u, n)) = n /\ Payload(u, n)[n][2] = n
      BY <2>2, PayloadShape
    <3>2. InOrder(u, Payload(u, n), told'[u])
      BY <1>1 DEF ContractInv, OrderInv, WireOrder
    <3>3. n \in 1 .. m
      BY <1>3, <3>1, <3>2 DEF InOrder, Of
    <3> QED
      BY <3>3
  <2> QED
    BY <2>1, <2>2
<1> QED
  BY <1>4, <1>9, <1>10

LEMMA EchoInSent ==
  ASSUME OrderInv', NEW u \in Streams, NEW n \in Nat, Echoed(u)' = Payload(u, n)
  PROVE  n <= sent'[u]
<1>1. PICK m \in Nat : m = told'[u]
  BY DEF OrderInv, IInv, TypeOK
<1>2. m <= sent'[u] /\ sent'[u] \in Nat
  BY <1>1 DEF OrderInv, IInv, TypeOK, ClientTypeOK
<1>3. CASE n = 0
  BY <1>2, <1>3
<1>4. CASE n # 0
  <2>1. n \in 1 .. n /\ Len(Payload(u, n)) = n /\ Payload(u, n)[n][2] = n
    BY <1>4, PayloadShape
  <2>2. InOrder(u, Payload(u, n), told'[u])
    BY DEF OrderInv, WireOrder
  <2>3. n \in 1 .. m
    BY <1>1, <2>1, <2>2 DEF InOrder, Of
  <2> QED
    BY <1>2, <2>3
<1> QED
  BY <1>3, <1>4

LEMMA ExecuteAsContract ==
  ASSUME ContractInv, ContractInv', Execute
  PROVE  [Contract!Next]_(Contract!vars)
<1>1. /\ OrderInv /\ IInv /\ PieceInv /\ Covered /\ EchoesDone
      /\ UNCHANGED <<sent, ended, echoedOn>>
  BY DEF ContractInv, OrderInv, Execute, clientVars, appVars
<1>2. PICK c \in Command : c = Head(commands)
  BY <1>1, RestOfCommands
<1>3. \A u : EchoStream(u)' = EchoStream(u)
  BY <1>1 DEF EchoStream
<1>4. \/ UNCHANGED <<wire, finished>>
      \/ finished' \in {finished, finished \cup {c.stream}}
  BY <1>2 DEF Execute, sendVars
<1>5. ASSUME NEW u \in Long, EchoStream(u) # c.stream
      PROVE  Echoed(u)' = Echoed(u) /\ Answered(u)' = Answered(u)
  <2>1. Echoed(u)' = Echoed(u)
    BY <1>1, <1>2, <1>5, EchoGrowsWhole
  <2>2. Answered(u)' = Answered(u)
    BY <1>3, <1>4, <1>5 DEF Answered
  <2> QED
    BY <2>1, <2>2
<1>6. CASE \A u \in Long : EchoStream(u) # c.stream
  BY <1>1, <1>5, <1>6, NotAnswering
<1>7. ASSUME NEW u \in Long, EchoStream(u) = c.stream
      PROVE  [Contract!Next]_(Contract!vars)
  <2>1. u \in Streams /\ c.stream # None
    BY NoneIsNone DEF Long, Command
  <2>2. \A v \in Long : v # u => Echoed(v)' = Echoed(v) /\ Answered(v)' = Answered(v)
    BY <1>1, <1>5, <1>7, <2>1, EchoStreamOfOne DEF Long
  <2>3. PICK n \in Nat : /\ Echoed(u)' = Payload(u, n)
                         /\ \E k \in Nat : k <= n /\ Echoed(u) = Payload(u, k)
    BY <1>1, EchoPiece
  <2>4. PICK k \in Nat : k <= n /\ Echoed(u) = Payload(u, k)
    BY <2>3
  <2>5. ~Answered(u)
    BY <1>1, <1>2, <1>7, EchoGrowsWhole DEF Answered
  <2>6. n <= sent[u] /\ sent[u] \in Nat
    <3>1. n <= sent'[u]
      <4>1. OrderInv'
        BY DEF ContractInv
      <4> QED
        BY <2>1, <2>3, <4>1, EchoInSent
    <3> QED
      BY <1>1, <2>1, <3>1 DEF IInv, TypeOK, ClientTypeOK
  <2>7. Answered(u)' => ended[u] /\ n = sent[u]
    <3>1. Answered(u)' => ended'[u] /\ n = sent'[u]
      BY <2>3, AnsweredWhole
    <3> QED
      BY <1>1, <3>1
  <2>8. [s \in Streams \ Short |-> Echoed(s)]'
          = [[s \in Streams \ Short |-> Echoed(s)] EXCEPT ![u] = Payload(u, n)]
    BY <2>2, <2>3 DEF Long
  <2>9. PICK fin \in {FALSE, ended[u] /\ n = sent[u]} : fin = Answered(u)'
    <3>1. CASE Answered(u)'
      <4>1. (ended[u] /\ n = sent[u]) = Answered(u)'
        BY <2>7, <3>1 DEF Answered
      <4> QED
        BY <4>1
    <3>2. CASE ~Answered(u)'
      <4>1. FALSE = Answered(u)'
        BY <3>2 DEF Answered
      <4> QED
        BY <4>1
    <3> QED
      BY <3>1, <3>2
  <2>10. [s \in Streams \ Short |-> Answered(s)]'
          = [[s \in Streams \ Short |-> Answered(s)] EXCEPT ![u] = fin]
    BY <2>2, <2>9 DEF Long
  <2>11. n \in Len([s \in Streams \ Short |-> Echoed(s)][u])
                 .. [s \in Streams \ Short |-> sent[s]][u]
    <3>1. Len(Echoed(u)) = k
      BY <2>4, PayloadShape
    <3>2. [s \in Streams \ Short |-> Echoed(s)][u] = Echoed(u)
      BY DEF Long
    <3>3. [s \in Streams \ Short |-> sent[s]][u] = sent[u]
      BY DEF Long
    <3> QED
      BY <2>4, <2>6, <3>1, <3>2, <3>3
  <2>12. ~[s \in Streams \ Short |-> Answered(s)][u]
    BY <2>5 DEF Long
  <2>13. /\ [s \in Streams \ Short |-> ended[s]][u] = ended[u]
         /\ [s \in Streams \ Short |-> sent[s]][u] = sent[u]
    BY DEF Long
  <2>14. UNCHANGED <<[s \in Streams \ Short |-> sent[s]], [s \in Streams \ Short |-> ended[s]]>>
    BY <1>1
  <2>15. Payload(u, n) = Contract!Payload(u, n)
    BY PayloadShape
  <2>16. Contract!Answer(u)
    BY <2>8, <2>9, <2>10, <2>11, <2>12, <2>13, <2>14, <2>15 DEF Contract!Answer
  <2> QED
    BY <2>16 DEF Contract!Next, Long
<1> QED
  BY <1>6, <1>7

LEMMA QuietAsContract ==
  ASSUME UNCHANGED <<sent, ended, wire, finished, echoedOn>>
  PROVE  UNCHANGED Contract!vars
<1>1. \A u : Echoed(u)' = Echoed(u) /\ Answered(u)' = Answered(u)
  BY DEF Echoed, OnWire, EchoStream, Answered
<1> QED
  BY <1>1, NotAnswering

LEMMA InitAsContract == ~Grease /\ Init => Contract!Init
<1> SUFFICES ASSUME ~Grease, Init PROVE Contract!Init
  OBVIOUS
<1>1. wire = [n \in {} |-> <<>>] /\ finished = {}
  BY DEF Init, GreaseStreams
<1>2. \A s : Echoed(s) = <<>> /\ Answered(s) = FALSE
  <2>1. DOMAIN wire = {}
    BY <1>1
  <2> QED
    BY <1>1, <2>1 DEF Echoed, OnWire, Answered
<1>3. /\ sent = [s \in Streams |-> 0] /\ ended = [s \in Streams |-> FALSE]
  BY DEF Init, ClientInit
<1>4. /\ [s \in Streams \ Short |-> sent[s]] = [s \in Streams \ Short |-> 0]
      /\ [s \in Streams \ Short |-> ended[s]] = [s \in Streams \ Short |-> FALSE]
  BY <1>3
<1> QED
  BY <1>2, <1>4 DEF Contract!Init

LEMMA NextAsContract ==
  ASSUME ContractInv, ContractInv', [Next]_vars
  PROVE  [Contract!Next]_(Contract!vars)
<1>1. OrderInv /\ IInv /\ EchoesDone
  BY DEF ContractInv, OrderInv
<1>2. CASE UNCHANGED <<sent, ended, wire, finished, echoedOn>>
  BY <1>2, QuietAsContract
<1>3. CASE Client
  BY <1>1, <1>3, ClientAsContract
<1>4. CASE Execute
  BY <1>4, ExecuteAsContract
<1>5. CASE OnBidiData \/ OnUniData
  BY <1>1, <1>5, DataAsContract
<1>6. CASE Library /\ ~Execute
  BY <1>2, <1>6 DEF Library, ReportHeaders, ReportData, ReportGone, Shutdown,
                    clientVars, sendVars, appVars
<1>7. CASE OnHeaders \/ OnGone \/ OnShutdown
  BY <1>2, <1>7 DEF OnHeaders, OnGone, OnShutdown, clientVars, sendVars
<1>8. CASE UNCHANGED vars
  BY <1>2, <1>8 DEF vars, clientVars, sendVars, appVars
<1> QED
  BY <1>3, <1>4, <1>5, <1>6, <1>7, <1>8 DEF Next, Application

(* Without GREASE the server keeps the contract on every stream whose      *)
(* writes quiche takes, for any number of sessions and streams, any length *)
(* of the two channels, and whatever part quiche takes of the writes to    *)
(* the other streams: what comes back has no gap and nothing out of order, *)
(* and the FIN comes back only behind the last byte of an ended stream     *)
(* (README.md:159-164, serve_connection and queue_stream_send).            *)
THEOREM QuicheImplementsEcho == ~Grease => (Spec => ImplementsEcho)
<1> SUFFICES ASSUME ~Grease PROVE Spec => ImplementsEcho
  OBVIOUS
<1>1. Init => ContractInv /\ Contract!Init
  BY ContractInitInv, InitAsContract
<1>2. ContractInv /\ [Next]_vars => ContractInv'
  BY ContractNextInv
<1>3. ContractInv /\ ContractInv' /\ [Next]_vars => [Contract!Next]_(Contract!vars)
  BY NextAsContract
<1> QED
  BY <1>1, <1>2, <1>3, PTL DEF Spec, ImplementsEcho, Contract!Spec
=============================================================================
