---------------------------- MODULE QuinnEchoProofs ----------------------------
(***************************************************************************)
(* Proofs about QuinnEcho, for any number of requests, streams and         *)
(* datagrams, any windows, buffer and stream limit.                        *)
(***************************************************************************)
EXTENDS QuinnEcho, SequenceTheorems, WellFoundedInduction, TLAPS

(* What comes back for s, unit by unit, if all of it does: on a            *)
(* unidirectional stream the preface is the first.                         *)
Reply(s) == [i \in Nat |-> IF s \in BidiStreams THEN <<s, i>>
                           ELSE IF i = 1 THEN <<session[s], 0>>
                           ELSE <<s, i - 1>>]
Part(f, a, b) == [i \in 1 .. b - a |-> f[a + i]]

(* How many units of the reply the task has read or composed, and how many *)
(* of them it has written.                                                 *)
Composed(s) == IF s \in BidiStreams THEN taken[s] ELSE taken[s] + 1
Written(s) == OnWire(EchoStream(s))

(* The client: only an open stream is written, ended or reset, and not     *)
(* both.                                                                   *)
ClientInv ==
  \A s \in Streams : /\ sent[s] > 0 \/ ended[s] \/ reset[s] => session[s] \in Requests
                     /\ ~(ended[s] /\ reset[s])

(* Nothing happens on the streams before the request is accepted.          *)
Untouched ==
  /\ \A s \in Streams : task[s] = "none"
  /\ \A n \in DOMAIN wire : wire[n] = <<>>
  /\ finished = {}
  /\ \A d \in Datagrams : datagram[d] # "down"
PhaseInv == /\ phase # "serving" => Untouched
            /\ phase = "serving" => status[First] = "200"

(* What a task holds goes with what it waits for.                          *)
TaskInv(s) ==
  /\ task[s] \in {"none", "prefix"} => taken[s] = 0 /\ held[s] = <<>>
  /\ task[s] # "none" => session[s] \in Requests
  /\ s \in BidiStreams => /\ task[s] # "opening"
                          /\ task[s] # "writing" => held[s] = <<>>
                          /\ Len(held[s]) <= Buffer

(* A unidirectional echo is opened when all of its stream is there.        *)
OpeningInv(s) ==
  s \in UniStreams =>
    /\ task[s] \in {"none", "prefix", "reading", "opening"} =>
         echoedOn[s] = None /\ held[s] = Payload(s, taken[s])
    /\ task[s] = "opening" \/ echoedOn[s] # None => ended[s] /\ taken[s] = sent[s]
    /\ task[s] = "writing" => echoedOn[s] # None
    /\ echoedOn[s] # None => task[s] \in {"writing", "done"}

(* What was written and what is held are, one behind the other, the reply  *)
(* as far as it goes.                                                      *)
ReplyInv(s) ==
  EchoStream(s) # None =>
    /\ Len(Written(s)) <= Composed(s)
    /\ Written(s) = Part(Reply(s), 0, Len(Written(s)))
    /\ held[s] = Part(Reply(s), Len(Written(s)), Composed(s))

(* A FIN is sent when the task is done, with nothing left to write.        *)
FinInv(s) ==
  EchoStream(s) \in finished =>
    /\ task[s] = "done" /\ held[s] = <<>>
    /\ (s \in BidiStreams /\ reset[s]) \/ (ended[s] /\ taken[s] = sent[s])

StreamInv(s) == TaskInv(s) /\ OpeningInv(s) /\ ReplyInv(s) /\ FinInv(s)
StreamsInv == \A s \in Streams : StreamInv(s)

(* The server's own streams: each answers one stream of the client.        *)
UniInv ==
  /\ nextUni % 4 = 3
  /\ BidiStreams \subseteq DOMAIN wire
  /\ \A s \in UniStreams : echoedOn[s] # None =>
       /\ echoedOn[s] \in DOMAIN wire
       /\ echoedOn[s] % 4 = 3 /\ echoedOn[s] < nextUni
  /\ \A s, u \in UniStreams :
       echoedOn[s] = echoedOn[u] /\ echoedOn[s] # None => s = u
  /\ \A n \in DOMAIN wire \ BidiStreams : \E s \in UniStreams : echoedOn[s] = n
  /\ finished \subseteq Requests \cup DOMAIN wire

WindowInv == \A n \in DOMAIN wire : Len(wire[n]) - seen[n] <= SendWindow

IInv ==
  /\ TypeOK /\ ClientInv /\ PhaseInv /\ StreamsInv /\ UniInv /\ WindowInv

-----------------------------------------------------------------------------
LEMMA FirstIsARequest == First \in Requests
<1>1. Requests \subseteq Nat /\ Requests # {}
  BY ClientAssumption, QuinnAssumption
<1> DEFINE R == {ss \in Nat \X Nat : ss[1] < ss[2]}
<1>2. IsWellFoundedOn(R, Nat)
  BY NatLessThanWellFounded DEF OpToRel
<1>3. \A x, y \in Nat : x < y => <<x, y>> \in R
  OBVIOUS
<1> HIDE DEF R
<1>4. PICK q \in Requests : \A r \in Requests : ~(<<r, q>> \in R)
  BY <1>1, <1>2, WFMin
<1>5. ASSUME NEW r \in Requests PROVE q <= r
  <2>1. q \in Nat /\ r \in Nat
    BY <1>1
  <2>2. ~(r < q)
    BY <1>3, <1>4, <2>1
  <2> QED
    BY <2>1, <2>2
<1> QED
  BY <1>5 DEF First

(* The IDs of requests, of the client's streams and of the server's are    *)
(* different ones.                                                         *)
LEMMA Numbers ==
  /\ None \notin Nat /\ None \notin Requests
  /\ \A s \in Streams : s \in Nat /\ s # None
  /\ \A n \in BidiStreams \cup Requests : n \in Nat /\ n % 4 = 0
  /\ \A n \in UniStreams : n % 4 = 2
  /\ BidiStreams \cap UniStreams = {} /\ BidiStreams \cap Requests = {}
  /\ Streams = BidiStreams \cup UniStreams
BY ClientAssumption DEF None, Streams

(* Parts of a sequence that goes on for ever.                              *)
Shaped(f, a, b) ==
  /\ Part(f, a, b) \in Seq({f[i] : i \in Nat})
  /\ Len(Part(f, a, b)) = b - a
  /\ \A i \in 1 .. b - a : Part(f, a, b)[i] = f[a + i]

LEMMA PartShape ==
  ASSUME NEW f, NEW a \in Nat, NEW b \in Nat, a <= b
  PROVE  Shaped(f, a, b)
<1>1. b - a \in Nat /\ \A i \in 1 .. b - a : a + i \in Nat
  OBVIOUS
<1>2. \A i \in 1 .. b - a : f[a + i] \in {f[j] : j \in Nat}
  BY <1>1
<1>3. [i \in 1 .. b - a |-> f[a + i]] \in Seq({f[j] : j \in Nat})
  BY <1>1, <1>2, IsASeq
<1> QED
  BY <1>1, <1>3 DEF Part, Shaped

LEMMA PartEmpty ==
  ASSUME NEW f, NEW a \in Nat
  PROVE  Part(f, a, a) = <<>>
BY DEF Part

LEMMA PartJoin ==
  ASSUME NEW f, NEW a \in Nat, NEW b \in Nat, NEW c \in Nat, a <= b, b <= c
  PROVE  Part(f, a, b) \o Part(f, b, c) = Part(f, a, c)
<1> DEFINE x == Part(f, a, b)
           y == Part(f, b, c)
           z == Part(f, a, c)
           S == {f[i] : i \in Nat}
<1>0. a <= c
  OBVIOUS
<1>1. /\ x \in Seq(S) /\ Len(x) = b - a /\ \A i \in 1 .. b - a : x[i] = f[a + i]
      /\ y \in Seq(S) /\ Len(y) = c - b /\ \A i \in 1 .. c - b : y[i] = f[b + i]
      /\ z \in Seq(S) /\ Len(z) = c - a /\ \A i \in 1 .. c - a : z[i] = f[a + i]
  <2>1. x \in Seq(S) /\ Len(x) = b - a /\ \A i \in 1 .. b - a : x[i] = f[a + i]
    <3>1. Shaped(f, a, b)
      BY PartShape
    <3> QED
      BY <3>1 DEF Shaped
  <2>2. y \in Seq(S) /\ Len(y) = c - b /\ \A i \in 1 .. c - b : y[i] = f[b + i]
    <3>1. Shaped(f, b, c)
      BY PartShape
    <3> QED
      BY <3>1 DEF Shaped
  <2>3. z \in Seq(S) /\ Len(z) = c - a /\ \A i \in 1 .. c - a : z[i] = f[a + i]
    <3>1. Shaped(f, a, c)
      BY <1>0, PartShape
    <3> QED
      BY <3>1 DEF Shaped
  <2> QED
    BY <2>1, <2>2, <2>3
<1> HIDE DEF x, y, z, S
<1>2. /\ x \o y \in Seq(S) /\ Len(x \o y) = c - a
      /\ \A i \in 1 .. c - a : (x \o y)[i] = IF i <= b - a THEN x[i] ELSE y[i - (b - a)]
  <2>1. /\ x \o y \in Seq(S) /\ Len(x \o y) = Len(x) + Len(y)
        /\ \A i \in 1 .. Len(x) + Len(y) :
             (x \o y)[i] = IF i <= Len(x) THEN x[i] ELSE y[i - Len(x)]
    BY <1>1, ConcatProperties
  <2>2. Len(x) = b - a /\ Len(x) + Len(y) = c - a
    BY <1>1
  <2> QED
    BY <2>1, <2>2
<1>3. ASSUME NEW i \in 1 .. c - a PROVE (x \o y)[i] = z[i]
  <2>1. CASE i <= b - a
    BY <1>1, <1>2, <2>1
  <2>2. CASE ~(i <= b - a)
    <3>1. i - (b - a) \in 1 .. c - b /\ b + (i - (b - a)) = a + i
      BY <2>2
    <3> QED
      BY <1>1, <1>2, <2>2, <3>1
  <2> QED
    BY <2>1, <2>2
<1>4. x \o y = z
  BY <1>1, <1>2, <1>3, SeqEqual
<1> QED
  BY <1>4 DEF x, y, z

Cut(f, a, b, k) ==
  /\ SubSeq(Part(f, a, b), 1, k) = Part(f, a, a + k)
  /\ SubSeq(Part(f, a, b), k + 1, b - a) = Part(f, a + k, b)

LEMMA PartCut ==
  ASSUME NEW f, NEW a \in Nat, NEW b \in Nat, a <= b, NEW k \in 0 .. b - a
  PROVE  Cut(f, a, b, k)
<1> DEFINE x == Part(f, a, b)
           y == Part(f, a, a + k)
           z == Part(f, a + k, b)
           S == {f[i] : i \in Nat}
<1>0. a + k \in Nat /\ a <= a + k /\ a + k <= b
  OBVIOUS
<1>1. /\ x \in Seq(S) /\ Len(x) = b - a /\ \A i \in 1 .. b - a : x[i] = f[a + i]
      /\ y \in Seq(S) /\ Len(y) = a + k - a /\ \A i \in 1 .. a + k - a : y[i] = f[a + i]
      /\ z \in Seq(S) /\ Len(z) = b - (a + k) /\ \A i \in 1 .. b - (a + k) : z[i] = f[a + k + i]
  <2>1. x \in Seq(S) /\ Len(x) = b - a /\ \A i \in 1 .. b - a : x[i] = f[a + i]
    <3>1. Shaped(f, a, b)
      BY PartShape
    <3> QED
      BY <3>1 DEF Shaped
  <2>2. y \in Seq(S) /\ Len(y) = a + k - a /\ \A i \in 1 .. a + k - a : y[i] = f[a + i]
    <3>1. Shaped(f, a, a + k)
      BY <1>0, PartShape
    <3> QED
      BY <3>1 DEF Shaped
  <2>3. /\ z \in Seq(S) /\ Len(z) = b - (a + k)
        /\ \A i \in 1 .. b - (a + k) : z[i] = f[a + k + i]
    <3>1. Shaped(f, a + k, b)
      BY <1>0, PartShape
    <3> QED
      BY <3>1 DEF Shaped
  <2> QED
    BY <2>1, <2>2, <2>3
<1> HIDE DEF x, y, z, S
<1>2. \A i \in 1 .. b - a : x[i] \in S
  BY <1>1, ElementOfSeq
<1>3. SubSeq(x, 1, k) = y
  <2>1. /\ SubSeq(x, 1, k) \in Seq(S) /\ Len(SubSeq(x, 1, k)) = k
        /\ \A i \in 1 .. k : SubSeq(x, 1, k)[i] = x[i]
    <3>1. \A i \in 1 .. k : x[i] \in S
      BY <1>2
    <3>2. /\ SubSeq(x, 1, k) \in Seq(S)
          /\ Len(SubSeq(x, 1, k)) = IF 1 <= k THEN k - 1 + 1 ELSE 0
          /\ \A i \in 1 .. k - 1 + 1 : SubSeq(x, 1, k)[i] = x[1 + i - 1]
      BY <3>1, SubSeqProperties
    <3> QED
      BY <3>2
  <2>3. Len(y) = k /\ a + k - a = k
    BY <1>1
  <2>2. \A i \in 1 .. k : SubSeq(x, 1, k)[i] = y[i]
    <3>1. \A i \in 1 .. k : i \in 1 .. b - a
      OBVIOUS
    <3>2. \A i \in 1 .. k : x[i] = f[a + i]
      BY <1>1, <3>1
    <3>3. \A i \in 1 .. k : y[i] = f[a + i]
      BY <1>1, <2>3
    <3> QED
      BY <2>1, <3>2, <3>3
  <2> QED
    BY <1>1, <2>1, <2>2, <2>3, SeqEqual
<1>4. SubSeq(x, k + 1, b - a) = z
  <2>1. /\ SubSeq(x, k + 1, b - a) \in Seq(S) /\ Len(SubSeq(x, k + 1, b - a)) = b - a - k
        /\ \A i \in 1 .. b - a - k : SubSeq(x, k + 1, b - a)[i] = x[k + i]
    <3>1. \A i \in k + 1 .. b - a : x[i] \in S
      BY <1>2
    <3>2. k + 1 \in Int /\ b - a \in Int
      OBVIOUS
    <3>3. /\ SubSeq(x, k + 1, b - a) \in Seq(S)
          /\ Len(SubSeq(x, k + 1, b - a))
               = IF k + 1 <= b - a THEN (b - a) - (k + 1) + 1 ELSE 0
          /\ \A i \in 1 .. (b - a) - (k + 1) + 1 :
               SubSeq(x, k + 1, b - a)[i] = x[(k + 1) + i - 1]
      BY <3>1, <3>2, SubSeqProperties
    <3> QED
      BY <3>3
  <2>2. \A i \in 1 .. b - a - k : k + i \in 1 .. b - a /\ a + (k + i) = a + k + i
    OBVIOUS
  <2>3. \A i \in 1 .. b - a - k : SubSeq(x, k + 1, b - a)[i] = z[i]
    BY <1>1, <2>1, <2>2
  <2>4. Len(z) = b - a - k
    BY <1>1
  <2> QED
    BY <1>1, <2>1, <2>3, <2>4, SeqEqual
<1> QED
  BY <1>3, <1>4 DEF x, y, z, Cut

-----------------------------------------------------------------------------
(* The reply of a bidirectional stream is its payload, that of a           *)
(* unidirectional one has the preface before it.                           *)
LEMMA ReplyOfBidi ==
  ASSUME NEW s \in BidiStreams, NEW a \in Nat, NEW b \in Nat
  PROVE  Chunk(s, a, b) = Part(Reply(s), a, b)
BY DEF Chunk, Part, Reply

LEMMA ReplyOfUni ==
  ASSUME NEW s \in UniStreams, NEW n \in Nat
  PROVE  Preface(session[s]) \o Payload(s, n) = Part(Reply(s), 0, n + 1)
<1> DEFINE S == {session[s], s} \X Nat
           x == Preface(session[s])
           y == Payload(s, n)
           z == Part(Reply(s), 0, n + 1)
<1>1. x \in Seq(S) /\ Len(x) = 1 /\ x[1] = <<session[s], 0>>
  <2>1. <<session[s], 0>> \in S
    OBVIOUS
  <2> QED
    BY <2>1 DEF Preface
<1>2. y \in Seq(S) /\ Len(y) = n /\ \A i \in 1 .. n : y[i] = <<s, i>>
  <2>1. y = [i \in 1 .. n |-> <<s, i>>]
    BY DEF Payload, Chunk
  <2>2. \A i \in 1 .. n : <<s, i>> \in S
    OBVIOUS
  <2>3. [i \in 1 .. n |-> <<s, i>>] \in Seq(S)
    BY <2>2, IsASeq
  <2> QED
    BY <2>1, <2>3
<1>3. /\ z \in Seq(S) /\ Len(z) = n + 1
      /\ \A i \in 1 .. n + 1 : z[i] = IF i = 1 THEN <<session[s], 0>> ELSE <<s, i - 1>>
  <2> DEFINE e == [i \in 1 .. n + 1 |-> IF i = 1 THEN <<session[s], 0>> ELSE <<s, i - 1>>]
  <2>1. z = e
    BY Numbers DEF Part, Reply
  <2>2. \A i \in 1 .. n + 1 : (IF i = 1 THEN <<session[s], 0>> ELSE <<s, i - 1>>) \in S
    OBVIOUS
  <2>3. e \in Seq(S)
    BY <2>2, IsASeq
  <2>4. Len(e) = n + 1
    OBVIOUS
  <2>5. \A i \in 1 .. n + 1 : e[i] = IF i = 1 THEN <<session[s], 0>> ELSE <<s, i - 1>>
    OBVIOUS
  <2> HIDE DEF e, z, S
  <2> QED
    BY <2>1, <2>3, <2>4, <2>5
<1> HIDE DEF S, x, y, z
<1>4. /\ x \o y \in Seq(S) /\ Len(x \o y) = n + 1
      /\ \A i \in 1 .. n + 1 : (x \o y)[i] = IF i <= 1 THEN x[i] ELSE y[i - 1]
  <2>1. /\ x \o y \in Seq(S) /\ Len(x \o y) = Len(x) + Len(y)
        /\ \A i \in 1 .. Len(x) + Len(y) :
             (x \o y)[i] = IF i <= Len(x) THEN x[i] ELSE y[i - Len(x)]
    BY <1>1, <1>2, ConcatProperties
  <2>2. Len(x) = 1 /\ Len(x) + Len(y) = n + 1
    BY <1>1, <1>2
  <2> QED
    BY <2>1, <2>2
<1>5. ASSUME NEW i \in 1 .. n + 1 PROVE (x \o y)[i] = z[i]
  <2>1. CASE i = 1
    <3>1. (x \o y)[1] = x[1]
      BY <1>4, <2>1
    <3>2. z[1] = <<session[s], 0>>
      BY <1>3, <2>1
    <3> QED
      BY <1>1, <2>1, <3>1, <3>2
  <2>2. CASE i # 1
    <3>1. i - 1 \in 1 .. n /\ ~(i <= 1)
      BY <2>2
    <3>2. (x \o y)[i] = y[i - 1]
      BY <1>4, <3>1
    <3>3. z[i] = <<s, i - 1>>
      BY <1>3, <2>2
    <3> QED
      BY <1>2, <3>1, <3>2, <3>3
  <2> QED
    BY <2>1, <2>2
<1>6. x \o y = z
  BY <1>3, <1>4, <1>5, SeqEqual
<1> QED
  BY <1>6 DEF x, y, z

(* A reply stays what it is once its stream is open.                       *)
LEMMA ReplyKept ==
  ASSUME NEW s \in Streams, s \in BidiStreams \/ session'[s] = session[s]
  PROVE  Reply(s)' = Reply(s)
BY DEF Reply

-----------------------------------------------------------------------------
(* What may change around a stream s: the client goes on, and the server   *)
(* does something on another stream.                                       *)
ClientFixed(s) ==
  /\ session[s] \in Requests => session'[s] = session[s]
  /\ ended[s] => ended'[s] /\ sent'[s] = sent[s]
  /\ reset[s] => reset'[s]
  /\ sent[s] <= sent'[s]

ServerFixed(s) ==
  /\ task'[s] = task[s] /\ taken'[s] = taken[s] /\ held'[s] = held[s]
  /\ EchoStream(s)' = EchoStream(s)
  /\ EchoStream(s) # None => Written(s)' = Written(s)
  /\ EchoStream(s) \in finished' => EchoStream(s) \in finished

LEMMA ClientKeeps ==
  ASSUME ClientTypeOK, ClientInv, ClientStep
  PROVE  /\ ClientTypeOK' /\ ClientInv' /\ UNCHANGED status
         /\ \A s \in Streams : ClientFixed(s)
<1> DEFINE Fixed == \A s \in Streams : ClientFixed(s)
           Same == UNCHANGED status
<1>t. sent \in [Streams -> Nat]
  BY DEF ClientTypeOK
<1>0. ASSUME UNCHANGED <<session, sent>>,
             \A s \in Streams : (ended[s] => ended'[s]) /\ (reset[s] => reset'[s])
      PROVE  Fixed
  BY <1>t, <1>0 DEF ClientFixed
<1>1. ASSUME NEW q \in Requests, NEW kind \in Kinds, Request(q, kind)
      PROVE  ClientTypeOK' /\ ClientInv' /\ Same /\ Fixed
  <2>1. ClientTypeOK' /\ UNCHANGED <<status, session, sent, ended, reset>>
    BY <1>1 DEF Request, ClientTypeOK
  <2> QED
    BY <1>0, <2>1 DEF ClientInv
<1>2. ASSUME NEW q \in Requests, Cancel(q)
      PROVE  ClientTypeOK' /\ ClientInv' /\ Same /\ Fixed
  <2>1. ClientTypeOK' /\ UNCHANGED <<status, session, sent, ended, reset>>
    BY <1>2 DEF Cancel, ClientTypeOK
  <2> QED
    BY <1>0, <2>1 DEF ClientInv
<1>3. ASSUME NEW s \in Streams, NEW q \in Requests, Open(s, q)
      PROVE  ClientTypeOK' /\ ClientInv' /\ Same /\ Fixed
  <2>1. ClientTypeOK' /\ UNCHANGED <<status, sent, ended, reset>>
    BY <1>3 DEF Open, ClientTypeOK
  <2>2. ClientInv'
    BY <1>3, Numbers DEF Open, ClientInv, ClientTypeOK
  <2>3. \A u \in Streams : session[u] \in Requests => session'[u] = session[u]
    BY <1>3, Numbers DEF Open, ClientTypeOK
  <2>4. Fixed
    BY <1>t, <2>1, <2>3 DEF ClientFixed
  <2> QED
    BY <2>1, <2>2, <2>4
<1>4. ASSUME NEW s \in Streams, Write(s)
      PROVE  ClientTypeOK' /\ ClientInv' /\ Same /\ Fixed
  <2>1. MaxBytes[s] \in Nat
    BY ClientAssumption DEF Streams
  <2>2. \A u \in Streams : sent'[u] = IF u = s THEN sent[u] + 1 ELSE sent[u]
    BY <1>4, <1>t DEF Write
  <2>3. session[s] \in Requests /\ ~ended[s]
    BY <1>4, Numbers DEF Write, Usable, ClientTypeOK
  <2>4. Fixed
    <3>1. \A u \in Streams : sent[u] <= sent'[u]
      BY <1>t, <2>2
    <3>2. \A u \in Streams : ended[u] => sent'[u] = sent[u]
      BY <2>2, <2>3
    <3> QED
      BY <1>4, <3>1, <3>2 DEF Write, ClientFixed
  <2>5. ClientTypeOK'
    <3>1. sent' \in [Streams -> Nat]
      BY <1>4, <1>t DEF Write
    <3>2. \A u \in Streams : sent'[u] <= MaxBytes[u]
      <4> SUFFICES ASSUME NEW u \in Streams PROVE sent'[u] <= MaxBytes[u]
        OBVIOUS
      <4>1. MaxBytes[u] \in Nat
        BY ClientAssumption DEF Streams
      <4>2. sent[s] < MaxBytes[s]
        BY <1>4 DEF Write
      <4>3. sent[u] <= MaxBytes[u]
        BY DEF ClientTypeOK
      <4> QED
        BY <1>t, <2>1, <2>2, <4>1, <4>2, <4>3
    <3> QED
      BY <1>4, <3>1, <3>2 DEF Write, ClientTypeOK
  <2>6. ClientInv'
    BY <1>4, <2>2, <2>3 DEF Write, ClientInv
  <2>7. Same
    BY <1>4 DEF Write
  <2> QED
    BY <2>4, <2>5, <2>6, <2>7
<1>5. ASSUME NEW s \in Streams, End(s)
      PROVE  ClientTypeOK' /\ ClientInv' /\ Same /\ Fixed
  <2>1. ClientTypeOK' /\ UNCHANGED <<status, session, sent, reset>>
    BY <1>5 DEF End, ClientTypeOK
  <2>2. ClientInv'
    BY <1>5, Numbers DEF End, Usable, ClientInv, ClientTypeOK
  <2>3. \A u \in Streams : ended[u] => ended'[u]
    BY <1>5 DEF End, ClientTypeOK
  <2> QED
    BY <1>0, <2>1, <2>2, <2>3
<1>6. ASSUME NEW s \in Streams, Reset(s)
      PROVE  ClientTypeOK' /\ ClientInv' /\ Same /\ Fixed
  <2>1. ClientTypeOK' /\ UNCHANGED <<status, session, sent, ended>>
    BY <1>6 DEF Reset, ClientTypeOK
  <2>2. ClientInv'
    BY <1>6, Numbers DEF Reset, Usable, ClientInv, ClientTypeOK
  <2>3. \A u \in Streams : reset[u] => reset'[u]
    BY <1>6 DEF Reset, ClientTypeOK
  <2> QED
    BY <1>0, <2>1, <2>2, <2>3
<1> HIDE DEF Fixed, Same
<1>7. ClientTypeOK' /\ ClientInv' /\ Same /\ Fixed
  BY <1>1, <1>2, <1>3, <1>4, <1>5, <1>6, Zenon DEF ClientStep
<1> QED
  BY <1>7 DEF Fixed, Same

LEMMA Standing ==
  ASSUME ClientTypeOK, UNCHANGED clientVars
  PROVE  \A s \in Streams : ClientFixed(s)
<1>1. \A s \in Streams : sent[s] \in Nat
  BY DEF ClientTypeOK
<1>2. UNCHANGED <<session, sent, ended, reset>>
  BY DEF clientVars
<1> QED
  BY <1>1, <1>2 DEF ClientFixed

(* A stream that nothing is done on keeps its invariant.                   *)
LEMMA StreamKept ==
  ASSUME NEW s \in Streams, StreamInv(s), ClientFixed(s), ServerFixed(s)
  PROVE  StreamInv(s)'
<1>1. TaskInv(s)'
  BY DEF StreamInv, TaskInv, ClientFixed, ServerFixed
<1>2. s \in UniStreams => EchoStream(s) = echoedOn[s] /\ EchoStream(s)' = echoedOn'[s]
  BY Numbers DEF EchoStream
<1>3. OpeningInv(s)'
  <2>1. Payload(s, taken[s])' = Payload(s, taken[s])
    BY DEF ServerFixed
  <2> QED
    BY <1>2, <2>1 DEF StreamInv, OpeningInv, ClientFixed, ServerFixed
<1>4. ReplyInv(s)'
  <2> SUFFICES ASSUME EchoStream(s)' # None
               PROVE  /\ Len(Written(s)') <= Composed(s)'
                      /\ Written(s)' = Part(Reply(s)', 0, Len(Written(s)'))
                      /\ held'[s] = Part(Reply(s)', Len(Written(s)'), Composed(s)')
    BY DEF ReplyInv, Part
  <2>1. /\ EchoStream(s) # None /\ Written(s)' = Written(s)
        /\ held'[s] = held[s] /\ Composed(s)' = Composed(s)
    BY DEF ServerFixed, Composed
  <2>2. s \in BidiStreams \/ session'[s] = session[s]
    BY <1>2, <2>1, Numbers DEF StreamInv, OpeningInv, TaskInv, ClientFixed
  <2>3. Reply(s)' = Reply(s)
    BY <2>2, ReplyKept
  <2> QED
    BY <2>1, <2>3 DEF StreamInv, ReplyInv
<1>5. FinInv(s)'
  BY DEF StreamInv, FinInv, ClientFixed, ServerFixed
<1> QED
  BY <1>1, <1>3, <1>4, <1>5 DEF StreamInv

LEMMA StreamsKept ==
  ASSUME StreamsInv, \A s \in Streams : ClientFixed(s), \A s \in Streams : ServerFixed(s)
  PROVE  StreamsInv'
BY StreamKept DEF StreamsInv

(* Only the stream s is touched.                                           *)
LEMMA OthersKept ==
  ASSUME StreamsInv, \A u \in Streams : ClientFixed(u), NEW s \in Streams,
         \A u \in Streams : u # s => ServerFixed(u), StreamInv(s)'
  PROVE  StreamsInv'
<1> SUFFICES ASSUME NEW u \in Streams PROVE StreamInv(u)'
  BY DEF StreamsInv
<1>1. CASE u = s
  BY <1>1
<1>2. CASE u # s
  BY <1>2, StreamKept DEF StreamsInv
<1> QED
  BY <1>1, <1>2

(* Two streams are never answered on the same one, and none on a request   *)
(* stream.                                                                 *)
LEMMA EchoStreamOfOne ==
  ASSUME UniInv, NEW s \in Streams, EchoStream(s) # None
  PROVE  /\ \A u \in Streams : EchoStream(u) = EchoStream(s) => u = s
         /\ EchoStream(s) \in DOMAIN wire /\ EchoStream(s) \notin Requests
<1>1. \A u \in Streams : u \in BidiStreams \/ (u \in UniStreams /\ u \notin BidiStreams)
  BY Numbers
<1>2. \A u \in UniStreams : u \notin BidiStreams
  BY Numbers
<1>3. CASE s \in BidiStreams
  <2>1. EchoStream(s) = s /\ s % 4 = 0
    BY <1>3, Numbers DEF EchoStream
  <2>2. ASSUME NEW u \in Streams, EchoStream(u) = s PROVE u = s
    <3>1. CASE u \in BidiStreams
      BY <2>2, <3>1 DEF EchoStream
    <3>2. CASE u \in UniStreams
      <4>1. EchoStream(u) = echoedOn[u]
        BY <1>2, <3>2 DEF EchoStream
      <4>2. s % 4 = 3
        BY <1>3, <2>1, <2>2, <3>2, <4>1 DEF UniInv
      <4> QED
        BY <2>1, <4>2
    <3> QED
      BY <1>1, <3>1, <3>2
  <2>3. s \in DOMAIN wire /\ s \notin Requests
    BY <1>3, Numbers DEF UniInv
  <2> QED
    BY <2>1, <2>2, <2>3
<1>4. CASE s \in UniStreams
  <2>1. EchoStream(s) = echoedOn[s]
    BY <1>2, <1>4 DEF EchoStream
  <2>2. echoedOn[s] \in DOMAIN wire /\ echoedOn[s] % 4 = 3
    BY <1>4, <2>1 DEF UniInv
  <2>3. echoedOn[s] \notin BidiStreams \cup Requests
    BY <2>2, Numbers
  <2>4. ASSUME NEW u \in Streams, EchoStream(u) = echoedOn[s] PROVE u = s
    <3>1. u \in UniStreams
      BY <1>1, <2>3, <2>4 DEF EchoStream
    <3>2. EchoStream(u) = echoedOn[u]
      BY <1>2, <3>1 DEF EchoStream
    <3> QED
      BY <1>4, <2>1, <2>4, <3>1, <3>2 DEF UniInv
  <2> QED
    BY <2>1, <2>2, <2>3, <2>4
<1> QED
  BY <1>1, <1>3, <1>4

-----------------------------------------------------------------------------
(* The steps that leave the tasks and what they have written alone.        *)
LEMMA QuietStep ==
  ASSUME IInv, UNCHANGED outlives, UNCHANGED <<taskVars, sendVars>>,
         \A s \in Streams : ClientFixed(s),
         ClientTypeOK', ClientInv', PhaseInv',
         alive' \in BOOLEAN, phase' \in Phases, lost' \subseteq UniStreams,
         datagram' \in [Datagrams -> {"client", "up", "down"}],
         DOMAIN seen' = DOMAIN wire,
         \A n \in DOMAIN wire : seen'[n] \in 0 .. Len(wire[n]) /\ seen[n] <= seen'[n]
  PROVE  IInv'
<1>1. /\ UNCHANGED <<task, taken, held, echoedOn, nextUni, wire, finished>>
      /\ TypeOK /\ StreamsInv /\ UniInv /\ WindowInv
  BY DEF taskVars, sendVars, IInv
<1>2. \A s \in Streams : taken'[s] <= sent'[s]
  <2> SUFFICES ASSUME NEW s \in Streams PROVE taken[s] <= sent'[s]
    BY <1>1
  <2>1. taken[s] \in Nat /\ sent[s] \in Nat /\ sent'[s] \in Nat /\ taken[s] <= sent[s]
    BY <1>1 DEF TypeOK, ClientTypeOK
  <2>2. sent[s] <= sent'[s]
    BY DEF ClientFixed
  <2> QED
    BY <2>1, <2>2
<1>3. TypeOK'
  BY <1>1, <1>2 DEF TypeOK
<1>4. \A s \in Streams : ServerFixed(s)
  BY <1>1 DEF ServerFixed, EchoStream, Written, OnWire
<1>5. StreamsInv'
  BY <1>1, <1>4, StreamsKept
<1>6. UniInv'
  BY <1>1 DEF UniInv
<1>7. WindowInv'
  <2> SUFFICES ASSUME NEW n \in DOMAIN wire PROVE Len(wire[n]) - seen'[n] <= SendWindow
    BY <1>1 DEF WindowInv
  <2>1. Len(wire[n]) \in Nat /\ seen[n] \in 0 .. Len(wire[n])
    BY <1>1 DEF TypeOK
  <2>2. Len(wire[n]) - seen[n] <= SendWindow /\ SendWindow \in Nat
    BY <1>1, QuinnAssumption DEF WindowInv
  <2>3. seen'[n] \in 0 .. Len(wire[n]) /\ seen[n] <= seen'[n]
    OBVIOUS
  <2> QED
    BY <2>1, <2>2, <2>3
<1> QED
  BY <1>3, <1>5, <1>6, <1>7 DEF IInv

LEMMA SeenStays ==
  ASSUME TypeOK, seen' = seen
  PROVE  /\ DOMAIN seen' = DOMAIN wire
         /\ \A n \in DOMAIN wire : seen'[n] \in 0 .. Len(wire[n]) /\ seen[n] <= seen'[n]
<1>1. \A n \in DOMAIN wire : Len(wire[n]) \in Nat /\ seen[n] \in 0 .. Len(wire[n])
  BY DEF TypeOK
<1> QED
  BY <1>1 DEF TypeOK

LEMMA StepClient == ASSUME IInv, UNCHANGED outlives, Client PROVE IInv'
<1>1. /\ ClientTypeOK /\ ClientInv /\ ClientStep /\ TypeOK /\ PhaseInv
      /\ UNCHANGED <<alive, phase, lost, taskVars, sendVars, seen, datagram>>
  BY DEF Client, IInv, TypeOK
<1>2. /\ ClientTypeOK' /\ ClientInv' /\ UNCHANGED status
      /\ \A s \in Streams : ClientFixed(s)
  BY <1>1, ClientKeeps
<1>3. PhaseInv'
  BY <1>1, <1>2 DEF PhaseInv, Untouched, taskVars, sendVars
<1>4. /\ alive' \in BOOLEAN /\ phase' \in Phases /\ lost' \subseteq UniStreams
      /\ datagram' \in [Datagrams -> {"client", "up", "down"}]
  BY <1>1 DEF TypeOK
<1>5. seen' = seen
  BY <1>1
<1> QED
  BY <1>1, <1>2, <1>3, <1>4, <1>5, SeenStays, QuietStep

(* The client's state is part of what the other steps keep.                *)
LEMMA ClientStays ==
  ASSUME IInv, UNCHANGED clientVars
  PROVE  /\ ClientTypeOK' /\ ClientInv'
         /\ \A s \in Streams : ClientFixed(s)
<1>1. ClientTypeOK /\ ClientInv
  BY DEF IInv, TypeOK
<1>2. ClientTypeOK'
  BY <1>1 DEF ClientTypeOK, clientVars
<1>3. ClientInv'
  BY <1>1 DEF ClientInv, clientVars
<1> QED
  BY <1>1, <1>2, <1>3, Standing

LEMMA StepClientReads ==
  ASSUME IInv, UNCHANGED outlives, NEW k \in DOMAIN wire, ClientReads(k)
  PROVE  IInv'
<1>1. /\ TypeOK /\ PhaseInv
      /\ UNCHANGED <<clientVars, alive, phase, lost, taskVars, sendVars, datagram>>
      /\ seen' = [seen EXCEPT ![k] = Len(wire[k])]
  BY DEF ClientReads, IInv
<1>2. PhaseInv'
  BY <1>1 DEF PhaseInv, Untouched, taskVars, sendVars, clientVars
<1>3. /\ alive' \in BOOLEAN /\ phase' \in Phases /\ lost' \subseteq UniStreams
      /\ datagram' \in [Datagrams -> {"client", "up", "down"}]
  BY <1>1 DEF TypeOK
<1>4. \A n \in DOMAIN wire : Len(wire[n]) \in Nat /\ seen[n] \in 0 .. Len(wire[n])
  BY <1>1 DEF TypeOK
<1>5. DOMAIN seen' = DOMAIN wire
  BY <1>1 DEF TypeOK
<1>6. ASSUME NEW n \in DOMAIN wire
      PROVE  seen'[n] \in 0 .. Len(wire[n]) /\ seen[n] <= seen'[n]
  <2>1. seen'[n] = IF n = k THEN Len(wire[n]) ELSE seen[n]
    BY <1>1 DEF TypeOK
  <2> QED
    BY <1>4, <2>1
<1> QED
  BY <1>1, <1>2, <1>3, <1>5, <1>6, ClientStays, QuietStep

LEMMA StepAtRest ==
  ASSUME IInv, UNCHANGED outlives,
         \/ Close \/ TimeOut \/ AcceptRequest \/ ResolveFails
         \/ \E d \in Datagrams : SendDatagram(d) \/ EchoDatagram(d)
         \/ \E s \in UniStreams : H3TakesUni(s)
  PROVE  IInv'
<1>1. /\ TypeOK /\ PhaseInv
      /\ UNCHANGED <<clientVars, taskVars, sendVars, seen>>
  BY DEF Close, TimeOut, AcceptRequest, ResolveFails, SendDatagram, EchoDatagram,
         H3TakesUni, IInv
<1>2. alive' \in BOOLEAN /\ phase' \in Phases
  BY <1>1 DEF TypeOK, Phases, Close, TimeOut, AcceptRequest, ResolveFails, GiveUp,
              SendDatagram, EchoDatagram, H3TakesUni
<1>3. lost' \subseteq UniStreams
  BY <1>1 DEF TypeOK, Close, TimeOut, AcceptRequest, ResolveFails,
              SendDatagram, EchoDatagram, H3TakesUni
<1>4. datagram' \in [Datagrams -> {"client", "up", "down"}]
  BY <1>1 DEF TypeOK, Close, TimeOut, AcceptRequest, ResolveFails,
              SendDatagram, EchoDatagram, H3TakesUni
<1>5. PhaseInv'
  <2>1. UNCHANGED <<task, wire, finished, status>>
    BY <1>1 DEF taskVars, sendVars, clientVars
  <2>2. /\ phase' # "serving" => phase # "serving"
        /\ phase' = "serving" => phase = "serving"
    BY DEF Close, TimeOut, AcceptRequest, ResolveFails, GiveUp, SendDatagram,
           EchoDatagram, H3TakesUni
  <2>3. phase # "serving" => \A d \in Datagrams : datagram'[d] = "down" => datagram[d] = "down"
    BY <1>1 DEF TypeOK, Close, TimeOut, AcceptRequest, ResolveFails,
                SendDatagram, EchoDatagram, H3TakesUni, Serving
  <2> QED
    BY <1>1, <2>1, <2>2, <2>3 DEF PhaseInv, Untouched
<1>6. seen' = seen
  BY <1>1
<1> QED
  BY <1>1, <1>2, <1>3, <1>4, <1>5, <1>6, SeenStays, ClientStays, QuietStep

(* The answer to the request.                                              *)
LEMMA StepAnswer ==
  ASSUME IInv, UNCHANGED outlives, Establish \/ Refuse
  PROVE  IInv'
<1>1. /\ TypeOK /\ ClientTypeOK /\ ClientInv /\ PhaseInv
      /\ UNCHANGED <<asked, session, sent, ended, reset, cancelled, lost, taskVars,
                     sendVars, seen, datagram>>
  BY DEF Establish, Refuse, IInv, TypeOK
<1>2. \/ status' = [status EXCEPT ![First] = "200"] /\ phase' = "serving" /\ alive' = outlives
      \/ /\ status' \in {status, [status EXCEPT ![First] = "404"]}
         /\ phase' = "failed" /\ alive' = FALSE
  BY DEF Establish, Refuse, GiveUp
<1>3. ClientTypeOK'
  BY <1>1, <1>2 DEF ClientTypeOK
<1>4. ClientInv'
  BY <1>1 DEF ClientInv
<1>5. \A s \in Streams : ClientFixed(s)
  <2>1. \A s \in Streams : sent[s] \in Nat
    BY <1>1 DEF ClientTypeOK
  <2> QED
    BY <1>1, <2>1 DEF ClientFixed
<1>6. PhaseInv'
  <2>1. phase # "serving"
    BY DEF Establish, Refuse
  <2>2. Untouched'
    BY <1>1, <2>1 DEF PhaseInv, Untouched, taskVars, sendVars
  <2>3. phase' = "serving" => status'[First] = "200"
    BY <1>1, <1>2, FirstIsARequest DEF ClientTypeOK
  <2> QED
    BY <2>2, <2>3 DEF PhaseInv
<1>7. /\ alive' \in BOOLEAN /\ phase' \in Phases /\ lost' \subseteq UniStreams
      /\ datagram' \in [Datagrams -> {"client", "up", "down"}]
  BY <1>1, <1>2 DEF TypeOK, Phases
<1>8. seen' = seen /\ UNCHANGED <<taskVars, sendVars>>
  BY <1>1
<1> QED
  BY <1>1, <1>3, <1>4, <1>5, <1>6, <1>7, <1>8, SeenStays, QuietStep

-----------------------------------------------------------------------------
(* A FIN on a request stream is none on an echo.                           *)
LEMMA StepFinishRequest ==
  ASSUME IInv, UNCHANGED outlives, ConnectEnds \/ \E q \in Requests : LaterRequest(q)
  PROVE  IInv'
<1>1. /\ TypeOK /\ PhaseInv /\ UniInv /\ StreamsInv /\ WindowInv /\ Serving
      /\ UNCHANGED <<clientVars, alive, phase, lost, taskVars, echoedOn, nextUni,
                     wire, seen, datagram>>
  BY DEF IInv, ConnectEnds, LaterRequest
<1>2. PICK q \in Requests : finished' = finished \cup {q}
  BY FirstIsARequest DEF ConnectEnds, LaterRequest
<1>3. TypeOK'
  <2>1. finished' \subseteq Nat
    BY <1>1, <1>2, Numbers DEF TypeOK
  <2>2. ClientTypeOK'
    BY <1>1, ClientStays
  <2>3. taken' = taken /\ sent' = sent /\ UNCHANGED <<task, held>>
    BY <1>1 DEF taskVars, clientVars
  <2> QED
    BY <1>1, <2>1, <2>2, <2>3 DEF TypeOK
<1>4. PhaseInv'
  BY <1>1 DEF PhaseInv, Serving, clientVars
<1>5. \A s \in Streams : ServerFixed(s)
  <2> SUFFICES ASSUME NEW s \in Streams PROVE ServerFixed(s)
    OBVIOUS
  <2>1. UNCHANGED <<task, taken, held, echoedOn, wire>>
    BY <1>1 DEF taskVars
  <2>2. EchoStream(s) # q
    BY <1>1, EchoStreamOfOne, Numbers
  <2> QED
    BY <1>2, <2>1, <2>2 DEF ServerFixed, EchoStream, Written, OnWire
<1>6. StreamsInv'
  BY <1>1, <1>5, ClientStays, StreamsKept
<1>7. UniInv'
  BY <1>1, <1>2 DEF UniInv
<1>8. WindowInv'
  BY <1>1 DEF WindowInv
<1> QED
  BY <1>1, <1>3, <1>4, <1>6, <1>7, <1>8, ClientStays DEF IInv

-----------------------------------------------------------------------------
(* The steps of a task touch its stream only, and add to what is written   *)
(* there.                                                                  *)
Progress(s) ==
  /\ UNCHANGED clientVars
  /\ \A u \in Streams : u # s => ServerFixed(u)
  /\ Written(s)' = Written(s) \/ Len(Written(s)) < Len(Written(s)')
  /\ finished \subseteq finished'

LEMMA TaskStep ==
  ASSUME IInv, UNCHANGED outlives, Serving, UNCHANGED <<clientVars, phase>>, NEW s \in Streams,
         TypeOK', UniInv', WindowInv', StreamInv(s)',
         \A u \in Streams : u # s => ServerFixed(u),
         Written(s)' = Written(s) \/ Len(Written(s)) < Len(Written(s)'),
         finished \subseteq finished'
  PROVE  IInv' /\ Progress(s)
<1>1. PhaseInv'
  BY DEF IInv, PhaseInv, Serving, clientVars
<1>2. ClientInv' /\ \A u \in Streams : ClientFixed(u)
  BY ClientStays
<1>3. StreamsInv'
  BY <1>2, OthersKept DEF IInv
<1>4. IInv'
  BY <1>1, <1>2, <1>3 DEF IInv
<1> QED
  BY <1>4 DEF Progress

LEMMA StreamTypes ==
  ASSUME IInv, NEW s \in Streams
  PROVE  /\ taken[s] \in Nat /\ sent[s] \in Nat /\ taken[s] <= sent[s]
         /\ MaxBytes[s] \in Nat /\ sent[s] <= MaxBytes[s]
         /\ held[s] \in Seq(Unit) /\ Len(held[s]) \in Nat
         /\ Written(s) \in Seq(Unit) /\ Len(Written(s)) \in Nat
         /\ Composed(s) \in Nat
         /\ TaskInv(s) /\ OpeningInv(s) /\ ReplyInv(s) /\ FinInv(s)
<1>1. taken[s] \in Nat /\ sent[s] \in Nat /\ taken[s] <= sent[s]
  BY DEF IInv, TypeOK, ClientTypeOK
<1>2. MaxBytes[s] \in Nat /\ sent[s] <= MaxBytes[s]
  BY ClientAssumption DEF Streams, IInv, TypeOK, ClientTypeOK
<1>3. held[s] \in Seq(Unit)
  BY DEF IInv, TypeOK
<1>4. Written(s) \in Seq(Unit)
  <2>1. \A n \in DOMAIN wire : wire[n] \in Seq(Unit)
    BY DEF IInv, TypeOK
  <2>2. <<>> \in Seq(Unit)
    BY EmptySeq
  <2> QED
    BY <2>1, <2>2 DEF Written, OnWire
<1>5. Composed(s) \in Nat
  BY <1>1 DEF Composed
<1>6. TaskInv(s) /\ OpeningInv(s) /\ ReplyInv(s) /\ FinInv(s)
  BY DEF IInv, StreamsInv, StreamInv
<1> QED
  BY <1>1, <1>2, <1>3, <1>4, <1>5, <1>6, LenProperties

LEMMA ChunkType ==
  ASSUME NEW s \in Streams, NEW a \in Nat, NEW b \in Nat, a <= b, b <= MaxBytes[s]
  PROVE  Chunk(s, a, b) \in Seq(Unit) /\ Len(Chunk(s, a, b)) = b - a
<1>1. MaxBytes[s] \in Nat
  BY ClientAssumption DEF Streams
<1>2. \A i \in 1 .. b - a : <<s, a + i>> \in Unit
  <2> SUFFICES ASSUME NEW i \in 1 .. b - a PROVE <<s, a + i>> \in Unit
    OBVIOUS
  <2>1. a + i \in 1 .. MaxBytes[s]
    BY <1>1
  <2>2. <<s, a + i>> \in {s} \X (1 .. MaxBytes[s])
    BY <2>1
  <2> QED
    BY <2>2 DEF Unit
<1>3. b - a \in Nat
  OBVIOUS
<1> QED
  BY <1>2, <1>3, IsASeq DEF Chunk

LEMMA ChunkJoin ==
  ASSUME NEW s, NEW b \in Nat, NEW c \in Nat, b <= c
  PROVE  Payload(s, b) \o Chunk(s, b, c) = Payload(s, c)
<1> DEFINE f == [i \in Nat |-> <<s, i>>]
<1>1. \A x, y \in Nat : Chunk(s, x, y) = Part(f, x, y)
  BY DEF Chunk, Part
<1>2. Part(f, 0, b) \o Part(f, b, c) = Part(f, 0, c)
  <2> HIDE DEF f
  <2>1. 0 \in Nat /\ 0 <= b
    OBVIOUS
  <2> QED
    BY <2>1, PartJoin
<1> HIDE DEF f
<1> QED
  BY <1>1, <1>2 DEF Payload

(* Everything that a step of s leaves alone, if it leaves alone what is on *)
(* the wire and where.                                                     *)
LEMMA OthersFixed ==
  ASSUME IInv, NEW s \in Streams, UNCHANGED <<echoedOn, wire>>,
         \A u \in Streams : u # s => /\ task'[u] = task[u] /\ taken'[u] = taken[u]
                                     /\ held'[u] = held[u],
         finished' = finished \/ (s \in BidiStreams /\ finished' = finished \cup {s})
  PROVE  \A u \in Streams : u # s => ServerFixed(u)
<1> SUFFICES ASSUME NEW u \in Streams, u # s PROVE ServerFixed(u)
  OBVIOUS
<1>1. EchoStream(u)' = EchoStream(u) /\ Written(u)' = Written(u)
  BY DEF EchoStream, Written, OnWire
<1>2. s \in BidiStreams => EchoStream(u) # s
  <2> SUFFICES ASSUME s \in BidiStreams PROVE EchoStream(u) # s
    OBVIOUS
  <2>1. EchoStream(s) = s /\ EchoStream(s) # None
    BY Numbers DEF EchoStream
  <2> QED
    BY <2>1, EchoStreamOfOne DEF IInv
<1> QED
  BY <1>1, <1>2 DEF ServerFixed

(* And what it leaves alone of s itself.                                   *)
LEMMA SameReply ==
  ASSUME NEW s \in Streams, UNCHANGED <<session, echoedOn, wire>>
  PROVE  Reply(s)' = Reply(s) /\ EchoStream(s)' = EchoStream(s) /\ Written(s)' = Written(s)
BY DEF Reply, EchoStream, Written, OnWire

LEMMA StepAcceptStream ==
  ASSUME IInv, UNCHANGED outlives, NEW s \in Streams, AcceptStream(s)
  PROVE  IInv' /\ Progress(s)
<1>1. /\ TypeOK /\ UniInv /\ WindowInv /\ Serving /\ task[s] = "none" /\ session[s] # None
      /\ task' = [task EXCEPT ![s] = "prefix"]
      /\ UNCHANGED <<clientVars, alive, phase, lost, taken, held, echoedOn, nextUni,
                     wire, finished, seen, datagram>>
  BY DEF IInv, AcceptStream, sendVars
<1>2. UNCHANGED <<session, sent, ended, reset>> /\ ClientTypeOK'
  BY <1>1, ClientStays DEF clientVars
<1>3. TypeOK'
  BY <1>1, <1>2 DEF TypeOK, Waits
<1>4. UniInv' /\ WindowInv'
  BY <1>1 DEF UniInv, WindowInv
<1>5. \A u \in Streams : u # s => ServerFixed(u)
  BY <1>1, OthersFixed DEF TypeOK
<1>6. task'[s] = "prefix" /\ session[s] \in Requests
  BY <1>1 DEF TypeOK, ClientTypeOK
<1>7. Reply(s)' = Reply(s) /\ EchoStream(s)' = EchoStream(s) /\ Written(s)' = Written(s)
  BY <1>1, <1>2, SameReply
<1>8. TaskInv(s) /\ OpeningInv(s) /\ ReplyInv(s) /\ FinInv(s)
  BY StreamTypes
<1>9. TaskInv(s)'
  BY <1>1, <1>2, <1>6, <1>8 DEF TaskInv
<1>10. OpeningInv(s)'
  BY <1>1, <1>2, <1>6, <1>8 DEF OpeningInv, Payload
<1>11. ReplyInv(s)'
  BY <1>1, <1>7, <1>8 DEF ReplyInv, Composed
<1>12. FinInv(s)'
  BY <1>1, <1>7, <1>8 DEF FinInv
<1> QED
  BY <1>1, <1>3, <1>4, <1>5, <1>9, <1>10, <1>11, <1>12, <1>7, TaskStep DEF StreamInv

LEMMA StepRead ==
  ASSUME IInv, UNCHANGED outlives, NEW s \in Streams, ReadPrefix(s) \/ ReadPayload(s)
  PROVE  IInv' /\ Progress(s)
<1>1. /\ TypeOK /\ UniInv /\ WindowInv /\ Serving /\ task[s] \in {"prefix", "reading"}
      /\ UNCHANGED <<clientVars, alive, phase, lost, echoedOn, nextUni, finished,
                     seen, datagram>>
  BY DEF IInv, ReadPrefix, ReadPayload
<1>2. PICK n \in Available(s) : Read(s, n)
  BY DEF ReadPrefix, ReadPayload
<1>3. /\ taken[s] \in Nat /\ sent[s] \in Nat /\ taken[s] <= sent[s]
      /\ MaxBytes[s] \in Nat /\ sent[s] <= MaxBytes[s] /\ held[s] \in Seq(Unit)
      /\ Len(Written(s)) \in Nat
      /\ TaskInv(s) /\ OpeningInv(s) /\ ReplyInv(s) /\ FinInv(s)
  BY StreamTypes
<1>4. n \in Nat /\ taken[s] <= n /\ n <= sent[s] /\ n <= taken[s] + Buffer
      /\ n <= MaxBytes[s]
  BY <1>3, QuinnAssumption DEF Available
<1> DEFINE c == Chunk(s, taken[s], n)
<1>5. c \in Seq(Unit) /\ Len(c) = n - taken[s]
  BY <1>3, <1>4, ChunkType
<1>6. /\ taken' = [taken EXCEPT ![s] = n]
      /\ held' = [held EXCEPT ![s] = held[s] \o c]
      /\ task' = [task EXCEPT ![s] = IF s \in BidiStreams /\ n > taken[s]
                                     THEN "writing" ELSE "reading"]
      /\ wire' = wire
  BY <1>2 DEF Read
<1> HIDE DEF c
<1>7. UNCHANGED <<session, sent, ended, reset>> /\ ClientTypeOK'
  BY <1>1, ClientStays DEF clientVars
<1>8. TypeOK'
  <2>1. held[s] \o c \in Seq(Unit)
    BY <1>3, <1>5, ConcatProperties
  <2>2. held' \in [Streams -> Seq(Unit)]
    BY <1>1, <1>6, <2>1 DEF TypeOK
  <2>3. taken' \in [Streams -> Nat] /\ \A u \in Streams : taken'[u] <= sent'[u]
    BY <1>1, <1>4, <1>6, <1>7 DEF TypeOK
  <2>4. task' \in [Streams -> Waits]
    BY <1>1, <1>6 DEF TypeOK, Waits
  <2> QED
    BY <1>1, <1>6, <1>7, <2>2, <2>3, <2>4 DEF TypeOK
<1>9. UniInv' /\ WindowInv'
  BY <1>1, <1>6 DEF UniInv, WindowInv
<1>10. \A u \in Streams : u # s => ServerFixed(u)
  BY <1>1, <1>6, OthersFixed DEF TypeOK
<1>11. Reply(s)' = Reply(s) /\ EchoStream(s)' = EchoStream(s) /\ Written(s)' = Written(s)
  BY <1>1, <1>6, <1>7, SameReply
<1>12. /\ taken'[s] = n /\ held'[s] = held[s] \o c
       /\ task'[s] = IF s \in BidiStreams /\ n > taken[s] THEN "writing" ELSE "reading"
  BY <1>1, <1>6 DEF TypeOK
<1>13. s \in BidiStreams => held[s] = <<>> /\ held'[s] = c
  <2> SUFFICES ASSUME s \in BidiStreams PROVE held[s] = <<>> /\ held'[s] = c
    OBVIOUS
  <2>1. held[s] = <<>>
    BY <1>1, <1>3 DEF TaskInv
  <2>2. <<>> \o c = c
    BY <1>5, ConcatEmptySeq
  <2> QED
    BY <1>12, <2>1, <2>2
<1>14. TaskInv(s)'
  <2>1. s \in BidiStreams => /\ Len(held'[s]) <= Buffer
                             /\ task'[s] # "writing" => held'[s] = <<>>
    <3> SUFFICES ASSUME s \in BidiStreams
                 PROVE  /\ Len(held'[s]) <= Buffer
                        /\ task'[s] # "writing" => held'[s] = <<>>
      OBVIOUS
    <3>1. Len(c) <= Buffer
      BY <1>3, <1>4, <1>5, QuinnAssumption
    <3>2. task'[s] # "writing" => Len(c) = 0
      BY <1>3, <1>4, <1>5, <1>12
    <3>3. Len(c) = 0 => c = <<>>
      BY <1>5, EmptySeq
    <3> QED
      BY <1>13, <3>1, <3>2, <3>3
  <2>2. task'[s] \in {"writing", "reading"}
    BY <1>12
  <2>3. session[s] \in Requests
    BY <1>1, <1>3 DEF TaskInv
  <2> QED
    BY <1>7, <2>1, <2>2, <2>3 DEF TaskInv
<1>15. OpeningInv(s)'
  <2> SUFFICES ASSUME s \in UniStreams PROVE OpeningInv(s)'
    BY DEF OpeningInv
  <2>1. task'[s] = "reading"
    BY <1>12, Numbers
  <2>2. echoedOn[s] = None /\ held[s] = Payload(s, taken[s])
    BY <1>1, <1>3 DEF OpeningInv
  <2>3. held'[s] = Payload(s, n)
    <3>1. Payload(s, taken[s]) \o Chunk(s, taken[s], n) = Payload(s, n)
      BY <1>3, <1>4, ChunkJoin
    <3> QED
      BY <1>12, <2>2, <3>1 DEF c
  <2>4. Payload(s, taken[s])' = Payload(s, n)
    BY <1>12
  <2> QED
    BY <1>1, <2>1, <2>2, <2>3, <2>4 DEF OpeningInv
<1>16. ReplyInv(s)'
  <2>1. CASE s \in UniStreams
    <3>1. EchoStream(s) = None
      BY <1>1, <1>3, <2>1, Numbers DEF OpeningInv, EchoStream
    <3> QED
      BY <1>11, <3>1 DEF ReplyInv
  <2>2. CASE s \in BidiStreams
    <3>1. EchoStream(s) # None /\ Composed(s) = taken[s] /\ Composed(s)' = n
      BY <1>12, <2>2, Numbers DEF EchoStream, Composed
    <3>2. PICK l \in Nat : l = Len(Written(s))
      BY <1>3
    <3>3. /\ l <= taken[s] /\ Written(s) = Part(Reply(s), 0, l)
          /\ held[s] = Part(Reply(s), l, taken[s])
      BY <1>3, <3>1, <3>2 DEF ReplyInv
    <3>4. Len(held[s]) = taken[s] - l
      <4>1. Shaped(Reply(s), l, taken[s])
        BY <1>3, <3>3, PartShape
      <4> QED
        BY <3>3, <4>1 DEF Shaped
    <3>5. l = taken[s]
      <4>1. Len(held[s]) = 0
        BY <1>13, <2>2
      <4> QED
        BY <1>3, <3>4, <4>1
    <3>6. held'[s] = Part(Reply(s), l, n)
      BY <1>3, <1>4, <1>13, <2>2, <3>5, ReplyOfBidi DEF c
    <3> QED
      BY <1>3, <1>4, <1>11, <3>1, <3>2, <3>3, <3>5, <3>6 DEF ReplyInv
  <2> QED
    BY <2>1, <2>2, Numbers
<1>17. FinInv(s)'
  BY <1>1, <1>3, <1>11 DEF FinInv
<1> QED
  BY <1>1, <1>8, <1>9, <1>10, <1>14, <1>15, <1>16, <1>17, <1>11, TaskStep DEF StreamInv

LEMMA StepReadEnd ==
  ASSUME IInv, UNCHANGED outlives, NEW s \in Streams, ReadEnd(s)
  PROVE  IInv' /\ Progress(s)
<1>1. /\ TypeOK /\ UniInv /\ WindowInv /\ Serving /\ task[s] = "reading"
      /\ ended[s] /\ taken[s] = sent[s]
      /\ UNCHANGED <<clientVars, alive, phase, lost, taken, held, echoedOn, nextUni,
                     wire, seen, datagram>>
  BY DEF IInv, ReadEnd
<1>2. \/ /\ s \in BidiStreams
         /\ task' = [task EXCEPT ![s] = "done"] /\ finished' = finished \cup {s}
      \/ /\ s \in UniStreams
         /\ task' = [task EXCEPT ![s] = "opening"] /\ finished' = finished
  BY DEF ReadEnd
<1>3. TaskInv(s) /\ OpeningInv(s) /\ ReplyInv(s) /\ FinInv(s)
  BY StreamTypes
<1>4. UNCHANGED <<session, sent, ended, reset>> /\ ClientTypeOK'
  BY <1>1, ClientStays DEF clientVars
<1>5. TypeOK'
  <2>1. task' \in [Streams -> Waits]
    BY <1>1, <1>2 DEF TypeOK, Waits
  <2>2. finished' \subseteq Nat
    <3>1. s \in Nat /\ finished \subseteq Nat
      BY <1>1, Numbers DEF TypeOK
    <3> QED
      BY <1>2, <3>1
  <2> QED
    BY <1>1, <1>4, <2>1, <2>2 DEF TypeOK
<1>6. UniInv' /\ WindowInv'
  BY <1>1, <1>2 DEF UniInv, WindowInv
<1>7. \A u \in Streams : u # s => ServerFixed(u)
  <2>1. \A u \in Streams : u # s => task'[u] = task[u]
    BY <1>1, <1>2 DEF TypeOK
  <2>2. UNCHANGED <<echoedOn, wire, taken, held>>
    BY <1>1
  <2> QED
    BY <1>2, <2>1, <2>2, OthersFixed
<1>8. task'[s] = IF s \in BidiStreams THEN "done" ELSE "opening"
  BY <1>1, <1>2, Numbers DEF TypeOK
<1>9. Reply(s)' = Reply(s) /\ EchoStream(s)' = EchoStream(s) /\ Written(s)' = Written(s)
  BY <1>1, <1>4, SameReply
<1>10. TaskInv(s)'
  BY <1>1, <1>3, <1>4, <1>8 DEF TaskInv
<1>11. OpeningInv(s)'
  BY <1>1, <1>3, <1>4, <1>8, Numbers DEF OpeningInv, Payload
<1>12. ReplyInv(s)'
  BY <1>1, <1>3, <1>9 DEF ReplyInv, Composed
<1>13. FinInv(s)'
  <2>1. CASE s \in BidiStreams
    BY <1>1, <1>3, <1>4, <1>8, <2>1 DEF FinInv, TaskInv
  <2>2. CASE s \in UniStreams
    BY <1>1, <1>2, <1>3, <1>9, <2>2, Numbers DEF FinInv
  <2> QED
    BY <2>1, <2>2, Numbers
<1> QED
  BY <1>1, <1>2, <1>5, <1>6, <1>7, <1>9, <1>10, <1>11, <1>12, <1>13, TaskStep
     DEF StreamInv

LEMMA StepReadFails ==
  ASSUME IInv, UNCHANGED outlives, NEW s \in Streams, ReadFails(s)
  PROVE  IInv' /\ Progress(s)
<1>1. /\ TypeOK /\ UniInv /\ WindowInv /\ Serving /\ task[s] \in {"prefix", "reading"}
      /\ reset[s]
      /\ task' = [task EXCEPT ![s] = "done"] /\ held' = [held EXCEPT ![s] = <<>>]
      /\ finished' = finished \cup ({s} \cap BidiStreams)
      /\ UNCHANGED <<clientVars, alive, phase, lost, taken, echoedOn, nextUni,
                     wire, seen, datagram>>
  BY DEF IInv, ReadFails
<1>3. TaskInv(s) /\ OpeningInv(s) /\ ReplyInv(s) /\ FinInv(s)
  BY StreamTypes
<1>4. UNCHANGED <<session, sent, ended, reset>> /\ ClientTypeOK'
  BY <1>1, ClientStays DEF clientVars
<1>5. TypeOK'
  <2>1. task' \in [Streams -> Waits]
    BY <1>1 DEF TypeOK, Waits
  <2>2. finished' \subseteq Nat
    BY <1>1, Numbers DEF TypeOK
  <2>3. held' \in [Streams -> Seq(Unit)]
    <3>1. <<>> \in Seq(Unit)
      BY EmptySeq
    <3> QED
      BY <1>1, <3>1 DEF TypeOK
  <2> QED
    BY <1>1, <1>4, <2>1, <2>2, <2>3 DEF TypeOK
<1>6. UniInv' /\ WindowInv'
  BY <1>1 DEF UniInv, WindowInv
<1>7. \A u \in Streams : u # s => ServerFixed(u)
  <2>1. \A u \in Streams : u # s => /\ task'[u] = task[u] /\ taken'[u] = taken[u]
                                    /\ held'[u] = held[u]
    BY <1>1 DEF TypeOK
  <2>2. finished' = finished \/ (s \in BidiStreams /\ finished' = finished \cup {s})
    BY <1>1
  <2> QED
    BY <1>1, <2>1, <2>2, OthersFixed
<1>8. task'[s] = "done" /\ held'[s] = <<>>
  BY <1>1 DEF TypeOK
<1>9. Reply(s)' = Reply(s) /\ EchoStream(s)' = EchoStream(s) /\ Written(s)' = Written(s)
  BY <1>1, <1>4, SameReply
<1>10. s \in UniStreams => echoedOn[s] = None /\ EchoStream(s) = None
  BY <1>1, <1>3, Numbers DEF OpeningInv, EchoStream
<1>11. s \in BidiStreams => held[s] = <<>>
  BY <1>1, <1>3 DEF TaskInv
<1>12. TaskInv(s)'
  <2>1. s \in BidiStreams => Len(held'[s]) <= Buffer
    BY <1>8, QuinnAssumption
  <2> QED
    BY <1>1, <1>3, <1>4, <1>8, <2>1 DEF TaskInv
<1>13. OpeningInv(s)'
  BY <1>1, <1>8, <1>10 DEF OpeningInv
<1>14. ReplyInv(s)'
  <2>1. CASE s \in BidiStreams
    <3>1. held'[s] = held[s] /\ Composed(s)' = Composed(s)
      BY <1>1, <1>8, <1>11, <2>1 DEF Composed
    <3> QED
      BY <1>3, <1>9, <3>1 DEF ReplyInv
  <2>2. CASE s \in UniStreams
    BY <1>9, <1>10, <2>2 DEF ReplyInv
  <2> QED
    BY <2>1, <2>2, Numbers
<1>15. FinInv(s)'
  <2>1. CASE s \in BidiStreams
    BY <1>1, <1>4, <1>8, <2>1 DEF FinInv
  <2>2. CASE s \in UniStreams
    <3>1. EchoStream(s)' \notin finished'
      BY <1>1, <1>5, <1>9, <1>10, <2>2, Numbers DEF TypeOK
    <3> QED
      BY <3>1 DEF FinInv
  <2> QED
    BY <2>1, <2>2, Numbers
<1> QED
  BY <1>1, <1>5, <1>6, <1>7, <1>9, <1>12, <1>13, <1>14, <1>15, TaskStep DEF StreamInv

LEMMA NextUniIsFree ==
  ASSUME TypeOK, UniInv
  PROVE  /\ nextUni \in Nat /\ nextUni # None
         /\ nextUni \notin DOMAIN wire /\ nextUni \notin finished
<1>1. nextUni \in Nat /\ nextUni % 4 = 3
  BY DEF TypeOK, UniInv
<1>2. nextUni \notin BidiStreams /\ nextUni \notin Requests
  BY <1>1, Numbers
<1>3. ASSUME nextUni \in DOMAIN wire PROVE FALSE
  <2>1. PICK s \in UniStreams : echoedOn[s] = nextUni
    BY <1>2, <1>3 DEF UniInv
  <2>2. echoedOn[s] # None
    BY <1>1, <2>1, Numbers
  <2>3. echoedOn[s] < nextUni
    BY <2>2 DEF UniInv
  <2> QED
    BY <1>1, <2>1, <2>3
<1> QED
  BY <1>1, <1>2, <1>3, Numbers DEF UniInv

LEMMA StepOpenUni ==
  ASSUME IInv, UNCHANGED outlives, NEW s \in UniStreams, OpenUni(s)
  PROVE  IInv' /\ Progress(s)
<1>0. s \in Streams /\ s \notin BidiStreams
  BY Numbers
<1>1. /\ TypeOK /\ UniInv /\ WindowInv /\ Serving /\ task[s] = "opening"
      /\ echoedOn' = [echoedOn EXCEPT ![s] = nextUni]
      /\ nextUni' = nextUni + 4
      /\ wire' = [n \in DOMAIN wire \cup {nextUni} |-> OnWire(n)]
      /\ seen' = [n \in DOMAIN wire' |-> IF n = nextUni THEN 0 ELSE seen[n]]
      /\ held' = [held EXCEPT ![s] = Preface(session[s]) \o held[s]]
      /\ task' = [task EXCEPT ![s] = "writing"]
      /\ UNCHANGED <<clientVars, alive, phase, lost, taken, finished, datagram>>
  BY DEF IInv, OpenUni, UniPreface
<1>2. /\ nextUni \in Nat /\ nextUni # None
      /\ nextUni \notin DOMAIN wire /\ nextUni \notin finished
  BY <1>1, NextUniIsFree
<1>3. /\ taken[s] \in Nat /\ held[s] \in Seq(Unit)
      /\ TaskInv(s) /\ OpeningInv(s) /\ ReplyInv(s) /\ FinInv(s)
  BY <1>0, StreamTypes
<1>4. UNCHANGED <<session, sent, ended, reset>> /\ ClientTypeOK'
  BY <1>1, ClientStays DEF clientVars
<1>5. /\ task'[s] = "writing" /\ held'[s] = Preface(session[s]) \o held[s]
      /\ echoedOn'[s] = nextUni
  BY <1>0, <1>1 DEF TypeOK
<1>6. session[s] \in Requests
  BY <1>1, <1>3 DEF TaskInv
<1>7. /\ echoedOn[s] = None /\ held[s] = Payload(s, taken[s])
      /\ ended[s] /\ taken[s] = sent[s]
  BY <1>1, <1>3 DEF OpeningInv
<1>8. /\ DOMAIN wire' = DOMAIN wire \cup {nextUni} /\ wire'[nextUni] = <<>>
      /\ \A n \in DOMAIN wire : wire'[n] = wire[n]
  BY <1>1, <1>2 DEF OnWire
<1>9. /\ DOMAIN seen' = DOMAIN wire' /\ seen'[nextUni] = 0
      /\ \A n \in DOMAIN wire : seen'[n] = seen[n]
  BY <1>1, <1>2, <1>8
<1>10. TypeOK'
  <2>1. task' \in [Streams -> Waits]
    BY <1>1 DEF TypeOK, Waits
  <2>2. held' \in [Streams -> Seq(Unit)]
    <3>1. <<session[s], 0>> \in Unit
      BY <1>6 DEF Unit
    <3>2. Preface(session[s]) \in Seq(Unit)
      BY <3>1 DEF Preface
    <3>3. Preface(session[s]) \o held[s] \in Seq(Unit)
      BY <1>3, <3>2, ConcatProperties
    <3> QED
      BY <1>1, <3>3 DEF TypeOK
  <2>3. echoedOn' \in [UniStreams -> Nat \cup {None}] /\ nextUni' \in Nat
    BY <1>1, <1>2 DEF TypeOK
  <2>4. \A n \in DOMAIN wire' : n \in Nat /\ wire'[n] \in Seq(Unit)
    <3>1. <<>> \in Seq(Unit)
      BY EmptySeq
    <3> QED
      BY <1>1, <1>2, <1>8, <3>1 DEF TypeOK
  <2>5. \A n \in DOMAIN seen' : seen'[n] \in 0 .. Len(wire'[n])
    <3>1. 0 \in 0 .. Len(<<>>)
      OBVIOUS
    <3>2. \A n \in DOMAIN wire : seen[n] \in 0 .. Len(wire[n])
      BY <1>1 DEF TypeOK
    <3> QED
      BY <1>8, <1>9, <3>1, <3>2
  <2> QED
    BY <1>1, <1>4, <1>9, <2>1, <2>2, <2>3, <2>4, <2>5 DEF TypeOK
<1>11. UniInv'
  <2>1. nextUni' % 4 = 3 /\ nextUni % 4 = 3
    BY <1>1, <1>2 DEF UniInv
  <2>2. BidiStreams \subseteq DOMAIN wire'
    BY <1>1, <1>8 DEF UniInv
  <2>3. \A u \in UniStreams : echoedOn'[u] = IF u = s THEN nextUni ELSE echoedOn[u]
    BY <1>1 DEF TypeOK
  <2>4. \A u \in UniStreams : echoedOn[u] # None =>
          /\ echoedOn[u] \in DOMAIN wire /\ echoedOn[u] \in Nat
          /\ echoedOn[u] % 4 = 3 /\ echoedOn[u] < nextUni
    BY <1>1 DEF UniInv, TypeOK
  <2>5. \A u \in UniStreams : echoedOn'[u] # None =>
          /\ echoedOn'[u] \in DOMAIN wire'
          /\ echoedOn'[u] % 4 = 3 /\ echoedOn'[u] < nextUni'
    BY <1>1, <1>2, <1>8, <2>1, <2>3, <2>4
  <2>6. \A u, v \in UniStreams :
          echoedOn'[u] = echoedOn'[v] /\ echoedOn'[u] # None => u = v
    <3>1. \A u, v \in UniStreams :
            echoedOn[u] = echoedOn[v] /\ echoedOn[u] # None => u = v
      BY <1>1 DEF UniInv
    <3>2. \A u \in UniStreams : echoedOn[u] # nextUni
      BY <1>2, <2>4
    <3> QED
      BY <2>3, <3>1, <3>2
  <2>7. ASSUME NEW n \in DOMAIN wire' \ BidiStreams
        PROVE  \E u \in UniStreams : echoedOn'[u] = n
    <3>1. CASE n = nextUni
      BY <1>5, <3>1
    <3>2. CASE n # nextUni
      <4>1. PICK u \in UniStreams : echoedOn[u] = n
        BY <1>1, <1>8, <3>2 DEF UniInv
      <4>2. n # None
        BY <1>1, <1>8, <3>2, Numbers DEF TypeOK
      <4>3. u # s
        BY <1>7, <4>1, <4>2
      <4> QED
        BY <2>3, <4>1, <4>3
    <3> QED
      BY <3>1, <3>2
  <2>8. finished' \subseteq Requests \cup DOMAIN wire'
    BY <1>1, <1>8 DEF UniInv
  <2> QED
    BY <2>1, <2>2, <2>5, <2>6, <2>7, <2>8 DEF UniInv
<1>12. WindowInv'
  <2> SUFFICES ASSUME NEW n \in DOMAIN wire'
               PROVE  Len(wire'[n]) - seen'[n] <= SendWindow
    BY DEF WindowInv
  <2>1. CASE n = nextUni
    BY <1>8, <1>9, <2>1, QuinnAssumption
  <2>2. CASE n # nextUni
    BY <1>1, <1>8, <1>9, <2>2 DEF WindowInv
  <2> QED
    BY <2>1, <2>2
<1>13. \A u \in Streams : u # s => ServerFixed(u)
  <2> SUFFICES ASSUME NEW u \in Streams, u # s PROVE ServerFixed(u)
    OBVIOUS
  <2>1. task'[u] = task[u] /\ taken'[u] = taken[u] /\ held'[u] = held[u]
    BY <1>1 DEF TypeOK
  <2>2. EchoStream(u)' = EchoStream(u)
    BY <1>1 DEF TypeOK, EchoStream, Streams
  <2>3. EchoStream(u) # None => EchoStream(u) \in DOMAIN wire
    BY <1>1, EchoStreamOfOne
  <2>4. EchoStream(u) # None => Written(u)' = Written(u)
    BY <1>8, <2>2, <2>3 DEF Written, OnWire
  <2> QED
    BY <1>1, <2>1, <2>2, <2>4 DEF ServerFixed
<1>14. TaskInv(s)'
  BY <1>0, <1>4, <1>5, <1>6 DEF TaskInv
<1>15. OpeningInv(s)'
  BY <1>1, <1>2, <1>4, <1>5, <1>7 DEF OpeningInv
<1>16. EchoStream(s)' = nextUni /\ Written(s)' = <<>> /\ Composed(s)' = taken[s] + 1
  BY <1>0, <1>1, <1>5, <1>8 DEF EchoStream, Written, OnWire, Composed
<1>17. ReplyInv(s)'
  <2>1. Reply(s)' = Reply(s)
    BY <1>0, <1>4, ReplyKept
  <2>2. held'[s] = Part(Reply(s), 0, taken[s] + 1)
    BY <1>3, <1>5, <1>7, ReplyOfUni
  <2>3. Part(Reply(s), 0, 0) = <<>> /\ Len(<<>>) = 0
    BY PartEmpty
  <2> QED
    BY <1>3, <1>16, <2>1, <2>2, <2>3 DEF ReplyInv
<1>18. FinInv(s)'
  BY <1>1, <1>2, <1>16 DEF FinInv
<1>19. Written(s)' = Written(s)
  <2>1. EchoStream(s) = None /\ None \notin DOMAIN wire
    BY <1>0, <1>1, <1>7, Numbers DEF EchoStream, TypeOK
  <2> QED
    BY <1>16, <2>1 DEF Written, OnWire
<1> QED
  BY <1>0, <1>1, <1>10, <1>11, <1>12, <1>13, <1>14, <1>15, <1>17, <1>18, <1>19,
     TaskStep DEF StreamInv

LEMMA StepWriteAll ==
  ASSUME IInv, UNCHANGED outlives, NEW s \in Streams, WriteAll(s)
  PROVE  IInv' /\ Progress(s)
<1> DEFINE n == EchoStream(s)
<1>1. /\ TypeOK /\ UniInv /\ WindowInv /\ Serving /\ task[s] = "writing"
      /\ UNCHANGED <<clientVars, alive, phase, lost, taken, echoedOn, nextUni,
                     seen, datagram>>
  BY DEF IInv, WriteAll
<1>2. PICK k \in 1 .. Len(held[s]) :
        /\ k <= SendWindow - (Len(wire[n]) - seen[n])
        /\ wire' = [wire EXCEPT ![n] = wire[n] \o SubSeq(held[s], 1, k)]
        /\ held' = [held EXCEPT ![s] = SubSeq(held[s], k + 1, Len(held[s]))]
        /\ \/ k < Len(held[s]) /\ UNCHANGED <<task, finished>>
           \/ /\ k = Len(held[s]) /\ s \in BidiStreams
              /\ task' = [task EXCEPT ![s] = "reading"]
              /\ UNCHANGED finished
           \/ /\ k = Len(held[s]) /\ s \in UniStreams
              /\ task' = [task EXCEPT ![s] = "done"]
              /\ finished' = finished \cup {n}
  BY DEF WriteAll
<1>3. /\ taken[s] \in Nat /\ sent[s] \in Nat /\ taken[s] <= sent[s]
      /\ held[s] \in Seq(Unit) /\ Len(held[s]) \in Nat
      /\ Len(Written(s)) \in Nat /\ Composed(s) \in Nat
      /\ TaskInv(s) /\ OpeningInv(s) /\ ReplyInv(s) /\ FinInv(s)
  BY StreamTypes
<1>4. UNCHANGED <<session, sent, ended, reset>> /\ ClientTypeOK'
  BY <1>1, ClientStays DEF clientVars
<1>5. n # None
  BY <1>1, <1>3, Numbers DEF OpeningInv, EchoStream
<1>6. n \in DOMAIN wire /\ \A u \in Streams : EchoStream(u) = n => u = s
  BY <1>1, <1>5, EchoStreamOfOne
<1>7. n \in Nat /\ wire[n] \in Seq(Unit) /\ Written(s) = wire[n]
  BY <1>1, <1>6 DEF TypeOK, Written, OnWire
<1>8. EchoStream(s)' = n
  BY <1>1 DEF EchoStream
<1> HIDE DEF n
<1> DEFINE x == SubSeq(held[s], 1, k)
           y == SubSeq(held[s], k + 1, Len(held[s]))
<1>9. x \in Seq(Unit) /\ Len(x) = k /\ y \in Seq(Unit) /\ Len(y) = Len(held[s]) - k
  <2>1. \A i \in 1 .. Len(held[s]) : held[s][i] \in Unit
    BY <1>3, ElementOfSeq
  <2>2. x \in Seq(Unit) /\ Len(x) = k
    <3>1. \A i \in 1 .. k : held[s][i] \in Unit
      BY <1>3, <2>1
    <3>2. x \in Seq(Unit) /\ Len(x) = IF 1 <= k THEN k - 1 + 1 ELSE 0
      BY <3>1, SubSeqProperties
    <3> QED
      BY <3>2
  <2>3. y \in Seq(Unit) /\ Len(y) = Len(held[s]) - k
    <3>1. \A i \in k + 1 .. Len(held[s]) : held[s][i] \in Unit
      BY <1>3, <2>1
    <3>2. k + 1 \in Int /\ Len(held[s]) \in Int
      BY <1>3
    <3>3. /\ y \in Seq(Unit)
          /\ Len(y) = IF k + 1 <= Len(held[s]) THEN Len(held[s]) - (k + 1) + 1 ELSE 0
      BY <3>1, <3>2, SubSeqProperties
    <3> QED
      BY <1>3, <3>3
  <2> QED
    BY <2>2, <2>3
<1>10. /\ wire' = [wire EXCEPT ![n] = wire[n] \o x] /\ held' = [held EXCEPT ![s] = y]
  BY <1>2
<1> HIDE DEF x, y
<1>11. wire[n] \o x \in Seq(Unit) /\ Len(wire[n] \o x) = Len(wire[n]) + k
       /\ Len(wire[n]) \in Nat
  BY <1>7, <1>9, ConcatProperties, LenProperties
<1>12. /\ DOMAIN wire' = DOMAIN wire /\ wire'[n] = wire[n] \o x
       /\ \A m \in DOMAIN wire : m # n => wire'[m] = wire[m]
  BY <1>6, <1>10
<1>13. \/ k < Len(held[s]) /\ task' = task /\ finished' = finished
       \/ /\ k = Len(held[s]) /\ s \in BidiStreams
          /\ task' = [task EXCEPT ![s] = "reading"] /\ finished' = finished
       \/ /\ k = Len(held[s]) /\ s \in UniStreams
          /\ task' = [task EXCEPT ![s] = "done"] /\ finished' = finished \cup {n}
  BY <1>2
<1>14. /\ held'[s] = y
       /\ \/ k < Len(held[s]) /\ task'[s] = "writing" /\ finished' = finished
          \/ /\ k = Len(held[s]) /\ s \in BidiStreams
             /\ task'[s] = "reading" /\ finished' = finished
          \/ /\ k = Len(held[s]) /\ s \in UniStreams
             /\ task'[s] = "done" /\ finished' = finished \cup {n}
  BY <1>1, <1>10, <1>13 DEF TypeOK
<1>15. k = Len(held[s]) => y = <<>>
  BY <1>3, <1>9, EmptySeq
<1>16. TypeOK'
  <2>1. task' \in [Streams -> Waits]
    BY <1>1, <1>13 DEF TypeOK, Waits
  <2>2. finished' \subseteq Nat
    BY <1>1, <1>7, <1>13 DEF TypeOK
  <2>3. held' \in [Streams -> Seq(Unit)]
    BY <1>1, <1>9, <1>10 DEF TypeOK
  <2>4. \A m \in DOMAIN wire' : m \in Nat /\ wire'[m] \in Seq(Unit)
    BY <1>1, <1>11, <1>12 DEF TypeOK
  <2>5. DOMAIN seen' = DOMAIN wire'
    BY <1>1, <1>12 DEF TypeOK
  <2>6. ASSUME NEW m \in DOMAIN wire PROVE seen'[m] \in 0 .. Len(wire'[m])
    <3>1. seen'[m] \in 0 .. Len(wire[m]) /\ Len(wire[m]) \in Nat
      BY <1>1 DEF TypeOK
    <3>2. CASE m = n
      BY <1>11, <1>12, <3>1, <3>2
    <3>3. CASE m # n
      BY <1>12, <3>1, <3>3
    <3> QED
      BY <3>2, <3>3
  <2> QED
    BY <1>1, <1>4, <1>12, <2>1, <2>2, <2>3, <2>4, <2>5, <2>6 DEF TypeOK
<1>17. UniInv'
  BY <1>1, <1>6, <1>12, <1>13 DEF UniInv
<1>18. WindowInv'
  <2> SUFFICES ASSUME NEW m \in DOMAIN wire
               PROVE  Len(wire'[m]) - seen[m] <= SendWindow
    BY <1>1, <1>12 DEF WindowInv
  <2>1. CASE m = n
    <3>1. seen[n] \in Nat /\ SendWindow \in Nat
      BY <1>1, <1>6, QuinnAssumption DEF TypeOK
    <3>2. k <= SendWindow - (Len(wire[n]) - seen[n])
      BY <1>2
    <3> QED
      BY <1>11, <1>12, <2>1, <3>1, <3>2
  <2>2. CASE m # n
    BY <1>1, <1>12, <2>2 DEF WindowInv
  <2> QED
    BY <2>1, <2>2
<1>19. \A u \in Streams : u # s => ServerFixed(u)
  <2> SUFFICES ASSUME NEW u \in Streams, u # s PROVE ServerFixed(u)
    OBVIOUS
  <2>1. task'[u] = task[u] /\ taken'[u] = taken[u] /\ held'[u] = held[u]
    BY <1>1, <1>10, <1>13 DEF TypeOK
  <2>2. EchoStream(u)' = EchoStream(u) /\ EchoStream(u) # n
    BY <1>1, <1>6 DEF EchoStream
  <2>3. Written(u)' = Written(u)
    BY <1>12, <2>2 DEF Written, OnWire
  <2> QED
    BY <1>13, <2>1, <2>2, <2>3 DEF ServerFixed
<1>20. TaskInv(s)'
  <2>1. s \in BidiStreams => Len(y) <= Buffer
    BY <1>3, <1>9, QuinnAssumption DEF TaskInv
  <2>2. task'[s] # "none" /\ task'[s] # "prefix" /\ task'[s] # "opening"
    BY <1>14
  <2>3. s \in BidiStreams /\ task'[s] # "writing" => held'[s] = <<>>
    BY <1>14, <1>15
  <2>4. session[s] \in Requests
    BY <1>1, <1>3 DEF TaskInv
  <2> QED
    BY <1>4, <1>14, <2>1, <2>2, <2>3, <2>4 DEF TaskInv
<1>21. OpeningInv(s)'
  <2> SUFFICES ASSUME s \in UniStreams PROVE OpeningInv(s)'
    BY DEF OpeningInv
  <2>1. task'[s] \in {"writing", "done"}
    BY <1>14, Numbers
  <2>2. echoedOn[s] # None /\ ended[s] /\ taken[s] = sent[s]
    BY <1>1, <1>3 DEF OpeningInv
  <2> QED
    BY <1>1, <1>4, <2>1, <2>2 DEF OpeningInv
<1>22. ReplyInv(s)'
  <2>1. Reply(s)' = Reply(s) /\ Composed(s)' = Composed(s)
    BY <1>1, <1>4, ReplyKept DEF Composed
  <2>2. PICK l \in Nat : l = Len(Written(s))
    BY <1>3
  <2>3. PICK c \in Nat : c = Composed(s)
    BY <1>3
  <2>4. l <= c /\ wire[n] = Part(Reply(s), 0, l) /\ held[s] = Part(Reply(s), l, c)
    BY <1>3, <1>5, <1>7, <2>2, <2>3 DEF ReplyInv, n
  <2>5. Len(held[s]) = c - l
    <3>1. Shaped(Reply(s), l, c)
      BY <2>4, PartShape
    <3> QED
      BY <2>4, <3>1 DEF Shaped
  <2>6. k \in 0 .. c - l /\ l + k \in Nat /\ l + k <= c
    BY <2>4, <2>5
  <2>7. x = Part(Reply(s), l, l + k) /\ y = Part(Reply(s), l + k, c)
    <3>1. Cut(Reply(s), l, c, k)
      BY <2>4, <2>6, PartCut
    <3> QED
      BY <2>4, <2>5, <3>1 DEF Cut, x, y
  <2>8. wire'[n] = Part(Reply(s), 0, l + k)
    <3>1. 0 \in Nat /\ 0 <= l /\ l <= l + k
      OBVIOUS
    <3>2. Part(Reply(s), 0, l) \o Part(Reply(s), l, l + k) = Part(Reply(s), 0, l + k)
      BY <2>6, <3>1, PartJoin
    <3> QED
      BY <1>12, <2>4, <2>7, <3>2
  <2>9. Written(s)' = wire'[n]
    BY <1>6, <1>8, <1>12 DEF Written, OnWire
  <2>10. Len(Written(s)') = l + k
    BY <1>7, <1>11, <1>12, <2>2, <2>9
  <2>11. Written(s)' = Part(Reply(s)', 0, Len(Written(s)'))
    BY <2>1, <2>8, <2>9, <2>10
  <2>12. held'[s] = Part(Reply(s)', Len(Written(s)'), Composed(s)')
    BY <1>14, <2>1, <2>3, <2>7, <2>10
  <2> QED
    BY <2>1, <2>3, <2>6, <2>10, <2>11, <2>12 DEF ReplyInv
<1>23. FinInv(s)'
  <2>1. n \notin finished
    BY <1>1, <1>3 DEF FinInv, n
  <2>2. CASE finished' = finished
    BY <1>8, <2>1, <2>2 DEF FinInv
  <2>3. CASE k = Len(held[s]) /\ s \in UniStreams /\ task'[s] = "done"
    <3>1. held'[s] = <<>>
      BY <1>14, <1>15, <2>3
    <3>2. ended[s] /\ taken[s] = sent[s]
      BY <1>1, <1>3, <2>3 DEF OpeningInv
    <3> QED
      BY <1>1, <1>4, <2>3, <3>1, <3>2 DEF FinInv
  <2> QED
    BY <1>14, <2>2, <2>3
<1>24. Len(Written(s)) < Len(Written(s)')
  <2>1. Written(s)' = wire'[n]
    BY <1>6, <1>8, <1>12 DEF Written, OnWire
  <2> QED
    BY <1>7, <1>11, <1>12, <2>1
<1>25. finished \subseteq finished'
  BY <1>13
<1> QED
  BY <1>1, <1>16, <1>17, <1>18, <1>19, <1>20, <1>21, <1>22, <1>23, <1>24, <1>25, TaskStep
     DEF StreamInv

LEMMA StepTask ==
  ASSUME IInv, UNCHANGED outlives, NEW s \in Streams, Task(s)
  PROVE  IInv' /\ Progress(s)
<1>1. OpenUni(s) => s \in UniStreams
  <2> SUFFICES ASSUME OpenUni(s), s \in BidiStreams PROVE FALSE
    BY Numbers
  <2>1. TaskInv(s) /\ task[s] = "opening"
    BY StreamTypes DEF OpenUni
  <2> QED
    BY <2>1 DEF TaskInv
<1> QED
  BY <1>1, StepAcceptStream, StepRead, StepReadEnd, StepReadFails, StepOpenUni,
     StepWriteAll DEF Task

-----------------------------------------------------------------------------
LEMMA InitInv == Init => IInv
<1> SUFFICES ASSUME Init PROVE IInv
  OBVIOUS
<1>1. /\ asked = [q \in Requests |-> ""] /\ status = [q \in Requests |-> ""]
      /\ session = [s \in Streams |-> None] /\ sent = [s \in Streams |-> 0]
      /\ ended = [s \in Streams |-> FALSE] /\ reset = [s \in Streams |-> FALSE]
      /\ cancelled = {}
  BY DEF Init, ClientInit
<1>2. /\ outlives \in BOOLEAN /\ alive = TRUE /\ phase = "accepting" /\ lost = {}
      /\ task = [s \in Streams |-> "none"] /\ taken = [s \in Streams |-> 0]
      /\ held = [s \in Streams |-> <<>>] /\ echoedOn = [s \in UniStreams |-> None]
      /\ nextUni = 15 /\ wire = [s \in BidiStreams |-> <<>>] /\ finished = {}
      /\ seen = [s \in BidiStreams |-> 0] /\ datagram = [d \in Datagrams |-> "client"]
  BY DEF Init, FirstServerUniStream
<1>3. <<>> \in Seq(Unit) /\ Len(<<>>) = 0
  BY EmptySeq
<1>4. ClientTypeOK
  <2>1. ASSUME NEW s \in Streams PROVE sent[s] <= MaxBytes[s]
    <3>1. MaxBytes[s] \in Nat
      BY ClientAssumption DEF Streams
    <3>2. sent[s] = 0
      BY <1>1
    <3> QED
      BY <3>1, <3>2
  <2> QED
    BY <1>1, <2>1 DEF ClientTypeOK
<1>5. TypeOK
  <2>1. /\ task \in [Streams -> Waits] /\ taken \in [Streams -> Nat]
        /\ held \in [Streams -> Seq(Unit)]
        /\ echoedOn \in [UniStreams -> Nat \cup {None}]
    BY <1>2, <1>3 DEF Waits
  <2>2. ASSUME NEW s \in Streams PROVE taken[s] <= sent[s]
    <3>1. taken[s] = 0 /\ sent[s] = 0
      BY <1>1, <1>2
    <3> QED
      BY <3>1
  <2>3. \A n \in DOMAIN wire : n \in Nat /\ wire[n] \in Seq(Unit)
    BY <1>2, <1>3, Numbers
  <2>4. DOMAIN seen = DOMAIN wire /\ \A n \in DOMAIN seen : seen[n] \in 0 .. Len(wire[n])
    BY <1>2, <1>3
  <2> QED
    BY <1>2, <1>4, <2>1, <2>2, <2>3, <2>4 DEF TypeOK, Phases
<1>6. ClientInv
  <2> SUFFICES ASSUME NEW s \in Streams
               PROVE  ~(sent[s] > 0) /\ ~ended[s] /\ ~reset[s]
    BY DEF ClientInv
  <2>1. sent[s] = 0 /\ ended[s] = FALSE /\ reset[s] = FALSE
    BY <1>1
  <2> QED
    BY <2>1
<1>7. PhaseInv
  BY <1>2 DEF PhaseInv, Untouched
<1>8. StreamsInv
  <2> SUFFICES ASSUME NEW s \in Streams PROVE StreamInv(s)
    BY DEF StreamsInv
  <2>1. task[s] = "none" /\ taken[s] = 0 /\ held[s] = <<>>
    BY <1>2
  <2>2. TaskInv(s)
    BY <1>3, <2>1, QuinnAssumption DEF TaskInv
  <2>3. OpeningInv(s)
    BY <1>2, <2>1 DEF OpeningInv, Payload, Chunk
  <2>4. ReplyInv(s)
    <3>1. CASE s \in BidiStreams
      <4>1. Written(s) = <<>> /\ Composed(s) = 0
        BY <1>2, <2>1, <3>1 DEF Written, OnWire, EchoStream, Composed
      <4>2. Part(Reply(s), 0, 0) = <<>>
        BY PartEmpty
      <4> QED
        BY <1>3, <2>1, <4>1, <4>2 DEF ReplyInv
    <3>2. CASE s \in UniStreams
      BY <1>2, <3>2, Numbers DEF ReplyInv, EchoStream
    <3> QED
      BY <3>1, <3>2, Numbers
  <2>5. FinInv(s)
    BY <1>2 DEF FinInv
  <2> QED
    BY <2>2, <2>3, <2>4, <2>5 DEF StreamInv
<1>9. UniInv
  BY <1>2 DEF UniInv
<1>10. WindowInv
  BY <1>2, <1>3, QuinnAssumption DEF WindowInv
<1> QED
  BY <1>5, <1>6, <1>7, <1>8, <1>9, <1>10 DEF IInv

LEMMA NextInv == IInv /\ [Next]_vars => IInv'
<1> SUFFICES ASSUME IInv, [Next]_vars PROVE IInv'
  OBVIOUS
<1>0. UNCHANGED outlives
  BY DEF Next, vars
<1>1. CASE Client
  BY <1>0, <1>1, StepClient
<1>2. CASE \E n \in DOMAIN wire : ClientReads(n)
  BY <1>0, <1>2, StepClientReads
<1>3. CASE \/ Close \/ TimeOut \/ AcceptRequest \/ ResolveFails
           \/ \E d \in Datagrams : SendDatagram(d) \/ EchoDatagram(d)
           \/ \E s \in UniStreams : H3TakesUni(s)
  BY <1>0, <1>3, StepAtRest
<1>4. CASE Establish \/ Refuse
  BY <1>0, <1>4, StepAnswer
<1>5. CASE ConnectEnds \/ \E q \in Requests : LaterRequest(q)
  BY <1>0, <1>5, StepFinishRequest
<1>6. CASE \E s \in Streams : Task(s)
  BY <1>0, <1>6, StepTask
<1>7. CASE UNCHANGED vars
  <2>1. UNCHANGED <<clientVars, alive, phase, lost, taskVars, sendVars, seen, datagram>>
    BY <1>7 DEF vars
  <2>2. TypeOK /\ PhaseInv
    BY DEF IInv
  <2>3. PhaseInv'
    BY <2>1, <2>2 DEF PhaseInv, Untouched, taskVars, sendVars, clientVars
  <2>4. /\ alive' \in BOOLEAN /\ phase' \in Phases /\ lost' \subseteq UniStreams
        /\ datagram' \in [Datagrams -> {"client", "up", "down"}]
    BY <2>1, <2>2 DEF TypeOK
  <2>5. seen' = seen
    BY <2>1
  <2> QED
    BY <1>0, <2>1, <2>2, <2>3, <2>4, <2>5, SeenStays, ClientStays, QuietStep
<1> QED
  BY <1>1, <1>2, <1>3, <1>4, <1>5, <1>6, <1>7 DEF Next, Handshake

(* The invariant of a connection, type correctness included: what a task   *)
(* holds goes with what it waits for, and what it has written and holds    *)
(* are, one behind the other, the reply as far as it goes (src/main.rs).   *)
THEOREM QuinnInvariant == Spec => []IInv
BY InitInv, NextInv, PTL DEF Spec

-----------------------------------------------------------------------------
(* Every server uni stream answers one client uni stream, and names the    *)
(* session which that stream had named (src/main.rs:394-397).              *)
THEOREM EchoesInTheirSessions == Spec => []UniEchoInItsSession
<1>1. ASSUME IInv PROVE UniEchoInItsSession
  <2>0. UniInv /\ TypeOK
    BY <1>1 DEF IInv
  <2> SUFFICES ASSUME NEW n \in DOMAIN wire \ BidiStreams
               PROVE  \E s \in UniStreams :
                        /\ \A u \in UniStreams : echoedOn[u] = n <=> u = s
                        /\ wire[n] # <<>> => wire[n][1] = <<session[s], 0>>
    BY DEF UniEchoInItsSession
  <2>1. PICK s \in UniStreams : echoedOn[s] = n
    BY <2>0 DEF UniInv
  <2>2. n # None /\ s \in Streams /\ s \notin BidiStreams
    BY <2>0, Numbers DEF TypeOK
  <2>3. \A u \in UniStreams : echoedOn[u] = n <=> u = s
    BY <2>0, <2>1, <2>2 DEF UniInv
  <2>4. wire[n] # <<>> => wire[n][1] = <<session[s], 0>>
    <3>1. EchoStream(s) = n /\ Written(s) = wire[n]
      BY <2>1, <2>2 DEF EchoStream, Written, OnWire
    <3>2. PICK l \in Nat : l = Len(wire[n])
      BY <1>1, <2>2, <3>1, StreamTypes
    <3>3. wire[n] = Part(Reply(s), 0, l)
      BY <1>1, <2>2, <3>1, <3>2, StreamTypes DEF ReplyInv
    <3>4. Part(Reply(s), 0, l) # <<>> => 1 \in 1 .. l
      <4>1. l = 0 => Part(Reply(s), 0, l) = <<>>
        BY PartEmpty
      <4> QED
        BY <4>1
    <3>5. \A i \in 1 .. l : Part(Reply(s), 0, l)[i] = Reply(s)[0 + i]
      BY DEF Part
    <3>6. Reply(s)[1] = <<session[s], 0>>
      BY <2>2 DEF Reply
    <3> QED
      BY <3>3, <3>4, <3>5, <3>6
  <2> QED
    BY <2>3, <2>4
<1> QED
  BY <1>1, QuinnInvariant, PTL

(* Nothing is echoed on a connection whose CONNECT was not accepted,       *)
(* whatever the client sent ahead of the answer (handle_incoming).         *)
THEOREM NothingAheadOfTheAnswer == Spec => []NothingBeforeAccept
<1>1. IInv => NothingBeforeAccept
  BY DEF IInv, PhaseInv, Untouched, NothingBeforeAccept
<1> QED
  BY <1>1, QuinnInvariant, PTL

(* A client that does not read is held back, for any windows and buffer:   *)
(* of a bidirectional stream one read at most is held, on any stream one   *)
(* window at most is unread (src/main.rs:323-336).                         *)
THEOREM HeldBack == Spec => []BackPressure
<1>1. IInv => BackPressure
  <2> SUFFICES ASSUME IInv PROVE BackPressure
    OBVIOUS
  <2>1. \A s \in BidiStreams : Len(held[s]) <= Buffer
    BY Numbers DEF IInv, StreamsInv, StreamInv, TaskInv
  <2> QED
    BY <2>1 DEF IInv, WindowInv, BackPressure
<1> QED
  BY <1>1, QuinnInvariant, PTL

-----------------------------------------------------------------------------
(* The refinement.  What has come back for s is a front of its payload.    *)
Answered(s) == EchoStream(s) \in finished /\ ~(s \in BidiStreams /\ reset[s])

EchoLen(s) == IF s \in BidiStreams \/ Len(Written(s)) = 0 THEN Len(Written(s))
              ELSE Len(Written(s)) - 1

LEMMA EchoedIsPayload ==
  ASSUME IInv, NEW s \in Streams
  PROVE  \E n \in Nat : Echoed(s) = Payload(s, n) /\ n <= taken[s] /\ n = EchoLen(s)
<1>1. /\ ReplyInv(s) /\ taken[s] \in Nat /\ Len(Written(s)) \in Nat
      /\ Written(s) \in Seq(Unit)
  BY StreamTypes
<1>2. PICK l \in Nat : l = Len(Written(s))
  BY <1>1
<1>3. CASE l = 0
  <2>1. Written(s) = <<>>
    BY <1>1, <1>2, <1>3, EmptySeq
  <2>2. Echoed(s) = <<>>
    BY <2>1 DEF Echoed, Written
  <2>3. Payload(s, 0) = <<>>
    BY DEF Payload, Chunk
  <2> QED
    BY <1>1, <1>2, <1>3, <2>2, <2>3 DEF EchoLen
<1>4. CASE l # 0 /\ s \in BidiStreams
  <2>1. EchoStream(s) # None /\ Composed(s) = taken[s]
    BY <1>4, Numbers DEF EchoStream, Composed
  <2>2. Written(s) = Part(Reply(s), 0, l) /\ l <= taken[s]
    BY <1>1, <1>2, <2>1 DEF ReplyInv
  <2>3. Payload(s, l) = Part(Reply(s), 0, l)
    BY <1>4, ReplyOfBidi DEF Payload
  <2>4. Echoed(s) = Written(s)
    BY <1>4 DEF Echoed, Written
  <2> QED
    BY <1>2, <1>4, <2>2, <2>3, <2>4 DEF EchoLen
<1>5. CASE l # 0 /\ s \notin BidiStreams
  <2>1. s \in UniStreams
    BY <1>5, Numbers
  <2>2. EchoStream(s) # None
    <3>1. EchoStream(s) = None => Written(s) = <<>>
      BY Numbers DEF Written, OnWire, IInv, TypeOK
    <3> QED
      BY <1>2, <1>5, <3>1
  <2>3. Written(s) = Part(Reply(s), 0, l) /\ l <= taken[s] + 1
    BY <1>1, <1>2, <1>5, <2>2 DEF ReplyInv, Composed
  <2>4. PICK n \in Nat : n = l - 1
    BY <1>5
  <2>5. Written(s) = Preface(session[s]) \o Payload(s, n)
    <3>1. l = n + 1
      BY <2>4
    <3> QED
      BY <2>1, <2>3, <3>1, ReplyOfUni
  <2>6. Tail(Preface(session[s]) \o Payload(s, n)) = Payload(s, n)
    <3> DEFINE S == {session[s], s} \X Nat
               y == Payload(s, n)
               w == Preface(session[s]) \o y
    <3>1. Preface(session[s]) \in Seq(S) /\ Len(Preface(session[s])) = 1
      <4>1. <<session[s], 0>> \in S
        OBVIOUS
      <4> QED
        BY <4>1 DEF Preface
    <3>2. y \in Seq(S)
      <4>1. y = [i \in 1 .. n |-> <<s, i>>]
        BY DEF Payload, Chunk
      <4>2. \A i \in 1 .. n : <<s, i>> \in S
        OBVIOUS
      <4>3. [i \in 1 .. n |-> <<s, i>>] \in Seq(S)
        BY <4>2, IsASeq
      <4> QED
        BY <4>1, <4>3
    <3> HIDE DEF S, y
    <3>3. /\ w \in Seq(S) /\ Len(w) = Len(Preface(session[s])) + Len(y)
          /\ \A i \in 1 .. Len(Preface(session[s])) + Len(y) :
               w[i] = IF i <= Len(Preface(session[s])) THEN Preface(session[s])[i]
                      ELSE y[i - Len(Preface(session[s]))]
      BY <3>1, <3>2, ConcatProperties
    <3> HIDE DEF w
    <3>4. Len(y) \in Nat
      BY <3>2, LenProperties
    <3>5. Len(w) = 1 + Len(y) /\ \A i \in 1 .. 1 + Len(y) : i > 1 => w[i] = y[i - 1]
      BY <3>1, <3>3, <3>4
    <3>6. w # <<>>
      BY <3>4, <3>5
    <3>7. /\ Tail(w) \in Seq(S) /\ Len(Tail(w)) = Len(w) - 1
          /\ \A i \in 1 .. Len(Tail(w)) : Tail(w)[i] = w[i + 1]
      BY <3>3, <3>6, HeadTailProperties
    <3>8. Len(Tail(w)) = Len(y)
      BY <3>4, <3>5, <3>7
    <3>9. ASSUME NEW i \in 1 .. Len(y) PROVE Tail(w)[i] = y[i]
      <4>1. i + 1 \in 1 .. 1 + Len(y) /\ i + 1 > 1 /\ (i + 1) - 1 = i
        BY <3>4
      <4>2. w[i + 1] = y[(i + 1) - 1]
        BY <3>5, <4>1
      <4>3. Tail(w)[i] = w[i + 1]
        BY <3>7, <3>8
      <4> QED
        BY <4>1, <4>2, <4>3
    <3>10. Tail(w) = y
      BY <3>2, <3>7, <3>8, <3>9, SeqEqual
    <3> QED
      BY <3>10 DEF w, y
  <2>7. Echoed(s) = Tail(Written(s))
    <3>1. Written(s) # <<>>
      BY <1>2, <1>5
    <3> QED
      BY <1>5, <3>1 DEF Echoed, Written
  <2>8. n <= taken[s]
    BY <1>1, <2>3, <2>4
  <2> QED
    BY <1>2, <1>5, <2>4, <2>5, <2>6, <2>7, <2>8 DEF EchoLen
<1> QED
  BY <1>3, <1>4, <1>5

(* When the FIN of an echo is sent, all of the stream has come back.       *)
LEMMA AnsweredWhole ==
  ASSUME IInv, NEW s \in Streams, Answered(s)
  PROVE  ended[s] /\ EchoLen(s) = sent[s]
<1>1. /\ ReplyInv(s) /\ FinInv(s) /\ taken[s] \in Nat /\ Len(Written(s)) \in Nat
      /\ Composed(s) \in Nat
  BY StreamTypes
<1>2. held[s] = <<>> /\ ended[s] /\ taken[s] = sent[s]
  BY <1>1 DEF FinInv, Answered
<1>3. EchoStream(s) # None
  BY Numbers DEF Answered, IInv, TypeOK
<1>4. PICK l \in Nat : l = Len(Written(s))
  BY <1>1
<1>5. PICK c \in Nat : c = Composed(s)
  BY <1>1
<1>6. l <= c /\ held[s] = Part(Reply(s), l, c)
  BY <1>1, <1>3, <1>4, <1>5 DEF ReplyInv
<1>7. c - l = 0
  <2>1. Shaped(Reply(s), l, c)
    BY <1>6, PartShape
  <2>2. Len(<<>>) = c - l
    BY <1>2, <1>6, <2>1 DEF Shaped
  <2> QED
    BY <2>2
<1>8. EchoLen(s) = taken[s]
  <2>1. CASE s \in BidiStreams
    BY <1>4, <1>5, <1>7, <2>1 DEF EchoLen, Composed
  <2>2. CASE s \notin BidiStreams
    BY <1>1, <1>4, <1>5, <1>7, <2>2 DEF EchoLen, Composed
  <2> QED
    BY <2>1, <2>2
<1> QED
  BY <1>2, <1>8

(* The facts above in one, for the state behind a step.                    *)
EchoesInv ==
  \A s \in Streams :
    /\ \E n \in Nat : Echoed(s) = Payload(s, n) /\ n <= taken[s] /\ n = EchoLen(s)
    /\ Answered(s) => ended[s] /\ EchoLen(s) = sent[s]
    /\ taken[s] <= sent[s] /\ taken[s] \in Nat /\ sent[s] \in Nat
    /\ Len(Written(s)) \in Nat

LEMMA EchoesHold == IInv => EchoesInv
<1> SUFFICES ASSUME IInv, NEW s \in Streams
             PROVE  /\ \E n \in Nat : /\ Echoed(s) = Payload(s, n)
                                      /\ n <= taken[s] /\ n = EchoLen(s)
                    /\ Answered(s) => ended[s] /\ EchoLen(s) = sent[s]
                    /\ taken[s] <= sent[s] /\ taken[s] \in Nat /\ sent[s] \in Nat
                    /\ Len(Written(s)) \in Nat
  BY DEF EchoesInv
<1>1. \E n \in Nat : Echoed(s) = Payload(s, n) /\ n <= taken[s] /\ n = EchoLen(s)
  BY EchoedIsPayload
<1>2. Answered(s) => ended[s] /\ EchoLen(s) = sent[s]
  BY AnsweredWhole
<1> QED
  BY <1>1, <1>2, StreamTypes

LEMMA EchoesHoldNext == IInv' => EchoesInv'
BY EchoesHold, PTL

LEMMA SamePayload ==
  ASSUME NEW s, NEW n \in Nat
  PROVE  Payload(s, n) = Contract!Payload(s, n) /\ Len(Payload(s, n)) = n
<1>1. Payload(s, n) = [i \in 1 .. n |-> <<s, i>>]
  BY DEF Payload, Chunk
<1> QED
  BY <1>1 DEF Contract!Payload

LEMMA Unanswering ==
  ASSUME UNCHANGED <<sent, ended>>,
         \A u \in Streams : Echoed(u)' = Echoed(u) /\ Answered(u)' = Answered(u)
  PROVE  UNCHANGED Contract!vars
<1>1. [s \in Streams |-> Echoed(s)]' = [s \in Streams |-> Echoed(s)]
  OBVIOUS
<1>2. [s \in Streams |-> Answered(s)]' = [s \in Streams |-> Answered(s)]
  OBVIOUS
<1> QED
  BY <1>1, <1>2 DEF Contract!vars, Answered

(* A step of a task is an answer, of nothing perhaps.                      *)
LEMMA TaskAsContract ==
  ASSUME IInv, UNCHANGED outlives, NEW s \in Streams, Task(s)
  PROVE  Contract!Answer(s)
<1>1. IInv' /\ EchoesInv' /\ Progress(s)
  BY StepTask, EchoesHoldNext
<1>2. UNCHANGED <<sent, ended, reset>>
  BY <1>1 DEF Progress, clientVars
<1>3. ASSUME NEW u \in Streams, u # s
      PROVE  Echoed(u)' = Echoed(u) /\ Answered(u)' = Answered(u)
  <2>1. ServerFixed(u) /\ finished \subseteq finished'
    BY <1>1, <1>3 DEF Progress
  <2>2. EchoStream(u) = None => OnWire(EchoStream(u)) = <<>> /\ OnWire(EchoStream(u))' = <<>>
    BY <1>1, <2>1, Numbers DEF ServerFixed, OnWire, IInv, TypeOK
  <2>3. OnWire(EchoStream(u))' = OnWire(EchoStream(u))
    BY <2>1, <2>2 DEF ServerFixed, Written
  <2>4. Echoed(u)' = Echoed(u)
    BY <2>3 DEF Echoed
  <2>5. (EchoStream(u) \in finished)' = (EchoStream(u) \in finished)
    BY <2>1 DEF ServerFixed
  <2>6. Answered(u)' = Answered(u)
    BY <1>2, <2>5 DEF Answered
  <2> QED
    BY <2>4, <2>6
<1>4. ~Answered(s)
  <2>1. task[s] # "done"
    BY DEF Task, AcceptStream, ReadPrefix, ReadPayload, ReadEnd, ReadFails, OpenUni, WriteAll
  <2> QED
    BY <2>1, StreamTypes DEF FinInv, Answered
<1>5. PICK k \in Nat : Echoed(s) = Payload(s, k) /\ k = EchoLen(s)
  BY EchoedIsPayload
<1>6. PICK n \in Nat : Echoed(s)' = Payload(s, n) /\ n <= taken'[s] /\ n = EchoLen(s)'
  BY <1>1 DEF EchoesInv
<1>7. k <= n
  <2>1. CASE Written(s)' = Written(s)
    BY <1>5, <1>6, <2>1 DEF EchoLen
  <2>2. CASE Len(Written(s)) < Len(Written(s)')
    <3>1. Len(Written(s)) \in Nat
      BY StreamTypes
    <3>2. Len(Written(s)') \in Nat
      BY <1>1 DEF EchoesInv
    <3> QED
      BY <1>5, <1>6, <2>2, <3>1, <3>2 DEF EchoLen
  <2> QED
    BY <1>1, <2>1, <2>2 DEF Progress
<1>8. n <= sent[s] /\ sent[s] \in Nat
  <2>1. taken'[s] <= sent'[s] /\ taken'[s] \in Nat /\ sent'[s] \in Nat
    BY <1>1 DEF EchoesInv
  <2> QED
    BY <1>2, <1>6, <2>1
<1>9. Answered(s)' => ended[s] /\ n = sent[s]
  <2>1. Answered(s)' => ended'[s] /\ EchoLen(s)' = sent'[s]
    BY <1>1 DEF EchoesInv
  <2> QED
    BY <1>2, <1>6, <2>1
<1>10. PICK fin \in {FALSE, ended[s] /\ n = sent[s]} : fin = Answered(s)'
  <2>1. CASE Answered(s)'
    <3>1. (ended[s] /\ n = sent[s]) = Answered(s)'
      BY <1>9, <2>1 DEF Answered
    <3> QED
      BY <3>1
  <2>2. CASE ~Answered(s)'
    <3>1. FALSE = Answered(s)'
      BY <2>2 DEF Answered
    <3> QED
      BY <3>1
  <2> QED
    BY <2>1, <2>2
<1> DEFINE echo == [u \in Streams |-> Echoed(u)]
           answered == [u \in Streams |-> Answered(u)]
<1>11. echo' = [echo EXCEPT ![s] = Contract!Payload(s, n)]
  <2>1. Echoed(s)' = Contract!Payload(s, n)
    BY <1>6, SamePayload
  <2> QED
    BY <1>3, <2>1
<1>12. answered' = [answered EXCEPT ![s] = fin]
  BY <1>3, <1>10
<1>13. n \in Len(echo[s]) .. sent[s]
  <2>1. Len(Echoed(s)) = k
    BY <1>5, SamePayload
  <2>2. echo[s] = Echoed(s)
    OBVIOUS
  <2> QED
    BY <1>7, <1>8, <2>1, <2>2
<1>14. ~answered[s]
  BY <1>4
<1>15. /\ ~answered[s]
       /\ \E m \in Len(echo[s]) .. sent[s] :
            /\ echo' = [echo EXCEPT ![s] = Contract!Payload(s, m)]
            /\ \E f \in {FALSE, ended[s] /\ m = sent[s]} :
                  answered' = [answered EXCEPT ![s] = f]
       /\ UNCHANGED <<sent, ended>>
  <2> HIDE DEF echo, answered
  <2> QED
    BY <1>2, <1>10, <1>11, <1>12, <1>13, <1>14
<1> QED
  BY <1>15 DEF Contract!Answer, Answered

LEMMA ClientAsContract ==
  ASSUME IInv, Client
  PROVE  [Contract!Next]_(Contract!vars)
<1>1. /\ ClientStep /\ TypeOK /\ ClientTypeOK
      /\ UNCHANGED <<echoedOn, wire, finished>>
  BY DEF Client, sendVars, IInv, TypeOK
<1>2. \A u \in Streams : Echoed(u)' = Echoed(u)
  BY <1>1 DEF Echoed, EchoStream, OnWire
<1>3. \A u \in Streams : EchoStream(u)' = EchoStream(u)
  BY <1>1 DEF EchoStream
<1>4. reset' = reset => \A u \in Streams : Answered(u)' = Answered(u)
  BY <1>1, <1>3 DEF Answered
<1> DEFINE echo == [u \in Streams |-> Echoed(u)]
           answered == [u \in Streams |-> Answered(u)]
<1>5. reset' = reset => UNCHANGED <<echo, answered>>
  BY <1>2, <1>4
<1>6. ASSUME UNCHANGED <<sent, ended, reset>> PROVE [Contract!Next]_(Contract!vars)
  BY <1>2, <1>4, <1>6, Unanswering
<1>7. ASSUME NEW s \in Streams, Write(s) PROVE [Contract!Next]_(Contract!vars)
  <2>1. /\ ~ended[s] /\ sent[s] < MaxBytes[s] /\ sent' = [sent EXCEPT ![s] = sent[s] + 1]
        /\ UNCHANGED <<ended, reset>>
    BY <1>7 DEF Write, Usable
  <2>2. Contract!Write(s)
    BY <1>5, <2>1 DEF Contract!Write, Answered
  <2> QED
    BY <2>2 DEF Contract!Next
<1>8. ASSUME NEW s \in Streams, End(s) PROVE [Contract!Next]_(Contract!vars)
  <2>1. /\ ~ended[s] /\ ended' = [ended EXCEPT ![s] = TRUE]
        /\ UNCHANGED <<sent, reset>>
    BY <1>8 DEF End, Usable
  <2>2. Contract!End(s)
    BY <1>5, <2>1 DEF Contract!End, Answered
  <2> QED
    BY <2>2 DEF Contract!Next
<1>9. ASSUME NEW s \in Streams, Reset(s) PROVE [Contract!Next]_(Contract!vars)
  <2>1. /\ ~ended[s] /\ ~reset[s] /\ reset' = [reset EXCEPT ![s] = TRUE]
        /\ UNCHANGED <<sent, ended>>
    BY <1>9 DEF Reset, Usable
  <2>2. EchoStream(s) \notin finished
    BY <2>1, StreamTypes DEF FinInv
  <2>3. ASSUME NEW u \in Streams PROVE Answered(u)' = Answered(u)
    <3>1. CASE u = s
      BY <1>1, <1>3, <2>2, <3>1 DEF Answered
    <3>2. CASE u # s
      <4>1. reset'[u] = reset[u]
        BY <1>1, <2>1, <3>2 DEF ClientTypeOK
      <4> QED
        BY <1>1, <1>3, <4>1 DEF Answered
    <3> QED
      BY <3>1, <3>2
  <2> QED
    BY <1>2, <2>1, <2>3, Unanswering
<1>10. ASSUME NEW q \in Requests, (\E kind \in Kinds : Request(q, kind)) \/ Cancel(q)
       PROVE  UNCHANGED <<sent, ended, reset>>
  BY <1>10 DEF Request, Cancel
<1>11. ASSUME NEW s \in Streams, \E q \in Requests : Open(s, q)
       PROVE  UNCHANGED <<sent, ended, reset>>
  BY <1>11 DEF Open
<1> QED
  BY <1>1, <1>6, <1>7, <1>8, <1>9, <1>10, <1>11 DEF ClientStep

LEMMA RestAsContract ==
  ASSUME IInv, UNCHANGED <<sent, ended, reset, echoedOn, wire>>,
         finished' = finished \/ \E q \in Requests : finished' = finished \cup {q}
  PROVE  UNCHANGED Contract!vars
<1> SUFFICES ASSUME NEW u \in Streams
             PROVE  Echoed(u)' = Echoed(u) /\ Answered(u)' = Answered(u)
  BY Unanswering
<1>1. Echoed(u)' = Echoed(u) /\ EchoStream(u)' = EchoStream(u)
  BY DEF Echoed, EchoStream, OnWire
<1>2. EchoStream(u) \notin Requests
  BY EchoStreamOfOne, Numbers DEF IInv
<1>3. (EchoStream(u) \in finished)' = (EchoStream(u) \in finished)
  BY <1>1, <1>2
<1> QED
  BY <1>1, <1>3 DEF Answered

LEMMA InitAsContract == Init => Contract!Init
<1> SUFFICES ASSUME Init PROVE Contract!Init
  OBVIOUS
<1>1. /\ sent = [s \in Streams |-> 0] /\ ended = [s \in Streams |-> FALSE]
      /\ wire = [s \in BidiStreams |-> <<>>] /\ finished = {}
  BY DEF Init, ClientInit
<1>2. \A s \in Streams : Echoed(s) = <<>> /\ Answered(s) = FALSE
  BY <1>1 DEF Echoed, OnWire, Answered
<1> QED
  BY <1>1, <1>2 DEF Contract!Init, Answered

LEMMA NextAsContract ==
  ASSUME IInv, [Next]_vars
  PROVE  [Contract!Next]_(Contract!vars)
<1>0. UNCHANGED outlives
  BY DEF Next, vars
<1>1. CASE Client
  BY <1>1, ClientAsContract
<1>2. CASE \E s \in Streams : Task(s)
  BY <1>0, <1>2, TaskAsContract DEF Contract!Next
<1>3. CASE \/ Close \/ Handshake
           \/ \E n \in DOMAIN wire : ClientReads(n)
           \/ \E d \in Datagrams : SendDatagram(d) \/ EchoDatagram(d)
           \/ \E s \in UniStreams : H3TakesUni(s)
           \/ UNCHANGED vars
  <2>1. UNCHANGED <<sent, ended, reset, echoedOn, wire, finished>>
    BY <1>3 DEF Close, Handshake, AcceptRequest, TimeOut, Establish, Refuse, ResolveFails,
                ClientReads, SendDatagram, EchoDatagram, H3TakesUni, vars, clientVars,
                sendVars
  <2> QED
    BY <2>1, RestAsContract
<1>4. CASE ConnectEnds \/ \E q \in Requests : LaterRequest(q)
  <2>1. /\ UNCHANGED <<sent, ended, reset, echoedOn, wire>>
        /\ \E q \in Requests : finished' = finished \cup {q}
    BY <1>4, FirstIsARequest DEF ConnectEnds, LaterRequest, clientVars
  <2> QED
    BY <2>1, RestAsContract
<1> QED
  BY <1>1, <1>2, <1>3, <1>4 DEF Next

(* Whatever the client's windows, the buffer, the stream limit and the     *)
(* interleaving of the tasks, what comes back on a stream is what was      *)
(* written on it, without a gap and in order, and a FIN stands behind the  *)
(* last byte of an ended stream only, a reset one apart (write_all and     *)
(* finish of echo_bidi_stream and echo_uni_stream).                        *)
THEOREM QuinnImplementsEcho == Spec => ImplementsEcho
<1>1. IInv /\ [Next]_vars => [Contract!Next]_(Contract!vars)
  BY NextAsContract
<1> QED
  BY InitAsContract, <1>1, QuinnInvariant, PTL DEF Spec, ImplementsEcho, Contract!Spec
===============================================================================
