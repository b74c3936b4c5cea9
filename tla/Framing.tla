------------------------------- MODULE Framing -------------------------------
(***************************************************************************)
(* How the quinn server (src/main.rs) reads the preface of a WebTransport  *)
(* stream and writes that of its echo.  A preface is two varints, the type *)
(* of the stream and its session, and may be cut anywhere by the chunks it *)
(* arrives in, or by the end of the stream.                                *)
(*                                                                         *)
(* A u64 is its eight bytes, the most significant first, so that shifts    *)
(* and the truncating casts of the code are selections of bytes.           *)
(***************************************************************************)
EXTENDS Integers, Sequences

CONSTANTS
  StreamTypes,  \* the types that a client writes in a preface
  SessionIds,   \* the sessions it names there
  Bodies        \* the payloads it sends behind the preface

Byte == 0 .. 255
U64 == [1 .. 8 -> Byte]
Small(k) == [i \in 1 .. 8 |-> IF i = 8 THEN k ELSE 0]

WT_BIDI_STREAM_TYPE == Small(65)
WT_UNI_STREAM_TYPE == Small(84)

(* The values that varints can hold are below 2^62.                        *)
VarintValues == {v \in U64 : v[1] < 64}

ASSUME FramingAssumption ==
  /\ StreamTypes \subseteq VarintValues
  /\ SessionIds \subseteq VarintValues
  /\ Bodies \subseteq Seq(Byte)

-----------------------------------------------------------------------------
(* The first two bits of a varint say which of the four lengths it has.    *)
Class(n) == CASE n = 1 -> 0 [] n = 2 -> 1 [] n = 4 -> 2 [] OTHER -> 3
Length(first) == CASE first \div 64 = 0 -> 1 [] first \div 64 = 1 -> 2
                   [] first \div 64 = 2 -> 4 [] OTHER -> 8

Fits(v, n) == (\A i \in 1 .. 8 - n : v[i] = 0) /\ v[9 - n] < 64

(* Mutated: a boundary is counted to the shorter length. *)
LooseWidth(v) ==
  CASE Fits(v, 1) \/ v = Small(64) -> 1 [] Fits(v, 2) -> 2 [] Fits(v, 4) -> 4 [] OTHER -> 8

Width(v) == CASE Fits(v, 1) -> 1 [] Fits(v, 2) -> 2 [] Fits(v, 4) -> 4 [] OTHER -> 8

Encoded(v, n) ==
  [i \in 1 .. n |-> IF i = 1 THEN 64 * Class(n) + (v[9 - n] % 64) ELSE v[8 - n + i]]

write_varint(v) == Encoded(v, Width(v))

Complete(bytes) == Len(bytes) > 0 /\ Len(bytes) >= Length(bytes[1])

(* The value and the length of the varint that complete bytes begin with.  *)
read_varint(bytes) ==
  LET n == Length(bytes[1])
  IN [len   |-> n,
      value |-> [i \in 1 .. 8 |-> CASE i < 9 - n -> 0
                                    [] i = 9 - n -> bytes[1] % 64
                                    [] OTHER     -> bytes[i - (8 - n)]]]

-----------------------------------------------------------------------------
(* PrefixReader.  A round of its loop takes a varint off the front of what *)
(* is pending or, behind the second one, hands on the rest as payload.     *)
Fresh == [pending |-> <<>>, values |-> <<>>, payload |-> <<>>]

From(bytes, n) == SubSeq(bytes, n, Len(bytes))

(* Mutated: a varint that is not complete yet is thrown away. *)
RoundThatForgets(r) ==
  IF Len(r.values) >= 2
  THEN [r EXCEPT !.payload = @ \o r.pending, !.pending = <<>>]
  ELSE IF Complete(r.pending)
  THEN LET v == read_varint(r.pending)
       IN [r EXCEPT !.values = Append(@, v.value), !.pending = From(@, v.len + 1)]
  ELSE [r EXCEPT !.pending = <<>>]

Round(r) ==
  IF Len(r.values) >= 2
  THEN [r EXCEPT !.payload = @ \o r.pending, !.pending = <<>>]
  ELSE IF Complete(r.pending)
  THEN LET v == read_varint(r.pending)
       IN [r EXCEPT !.values = Append(@, v.value), !.pending = From(@, v.len + 1)]
  ELSE r

(* Two varints and the payload: no chunk takes more than three rounds.     *)
Push(r, chunk) == Round(Round(Round([r EXCEPT !.pending = @ \o chunk])))

-----------------------------------------------------------------------------
VARIABLES
  message,      \* what the client means: type, session and body
  expected,     \* the type that the task expects: that of its direction
  input,        \* the bytes the client sends before it ends the stream
  at,           \* how many of them the task has read
  reader,       \* the PrefixReader, with the payload read so far
  stage,        \* "idle", "preface", "payload", "echoed" or "failed"
  echo          \* the bytes the task has written
framingVars == <<message, expected, input, at, reader, stage, echo>>

NoMessage == [type |-> Small(0), session |-> Small(0), body |-> <<>>]

FramingInit ==
  /\ message = NoMessage
  /\ expected = Small(0)
  /\ input = <<>>
  /\ at = 0
  /\ reader = Fresh
  /\ stage = "idle"
  /\ echo = <<>>

(* The client sends a message, its varints in any length that fits them,   *)
(* and may end its stream at any byte.                                     *)
Send ==
  /\ stage = "idle"
  /\ \E type \in StreamTypes, session \in SessionIds, body \in Bodies :
     \E m \in {1, 2, 4, 8}, n \in {1, 2, 4, 8} :
       /\ Fits(type, m) /\ Fits(session, n)
       /\ message' = [type |-> type, session |-> session, body |-> body]
       /\ LET whole == Encoded(type, m) \o Encoded(session, n) \o body
          IN \E cut \in 0 .. Len(whole) : input' = SubSeq(whole, 1, cut)
  /\ expected' \in {WT_BIDI_STREAM_TYPE, WT_UNI_STREAM_TYPE}
  /\ stage' = "preface"
  /\ UNCHANGED <<at, reader, echo>>

(* The type is judged when both varints are there; a bidirectional task    *)
(* then echoes at once the payload that came with them.                    *)
ReadPreface ==
  /\ stage = "preface" /\ at < Len(input)
  /\ at' \in at + 1 .. Len(input)
  /\ reader' = Push(reader, SubSeq(input, at + 1, at'))
  /\ stage' = CASE Len(reader'.values) < 2 -> "preface"
                [] Len(reader'.values) >= 2 /\ reader'.values[1] = expected -> "payload"
                [] OTHER -> "failed"
  /\ echo' = IF stage' = "payload" /\ expected = WT_BIDI_STREAM_TYPE
             THEN reader'.payload ELSE echo
  /\ UNCHANGED <<message, expected, input>>

(* The stream ends, and the task bails out. *)
EndInPreface ==
  /\ stage = "preface" /\ at = Len(input)
  /\ stage' = "failed"
  /\ UNCHANGED <<message, expected, input, at, reader, echo>>

ReadBody ==
  /\ stage = "payload" /\ at < Len(input)
  /\ at' \in at + 1 .. Len(input)
  /\ LET bytes == SubSeq(input, at + 1, at')
     IN /\ reader' = [reader EXCEPT !.payload = @ \o bytes]
        /\ echo' = IF expected = WT_BIDI_STREAM_TYPE THEN echo \o bytes ELSE echo
  /\ UNCHANGED <<message, expected, input, stage>>

(* A unidirectional echo is written at the end of the client's stream,     *)
(* with a preface of its own.                                              *)
EndOfBody ==
  /\ stage = "payload" /\ at = Len(input)
  /\ stage' = "echoed"
  /\ echo' = IF expected = WT_BIDI_STREAM_TYPE THEN echo
             ELSE write_varint(WT_UNI_STREAM_TYPE) \o write_varint(reader.values[2])
                  \o reader.payload
  /\ UNCHANGED <<message, expected, input, at, reader>>

FramingNext == Send \/ ReadPreface \/ EndInPreface \/ ReadBody \/ EndOfBody

FramingSpec == FramingInit /\ [][FramingNext]_framingVars

-----------------------------------------------------------------------------
FramingTypeOK ==
  /\ message \in [type : VarintValues, session : VarintValues, body : Seq(Byte)]
  /\ expected \in U64
  /\ input \in Seq(Byte)
  /\ at \in 0 .. Len(input)
  /\ reader \in [pending : Seq(Byte), values : Seq(U64), payload : Seq(Byte)]
  /\ stage \in {"idle", "preface", "payload", "echoed", "failed"}
  /\ echo \in Seq(Byte)

(* However a stream is cut into chunks, its reader stands where one that   *)
(* was given all of it at once would stand (PrefixReader::push).           *)
ChunkingIsInvisible == reader = Push(Fresh, SubSeq(input, 1, at))

(* An echo carries what the client sent of its body and nothing else, on a *)
(* bidirectional stream as it is and on a unidirectional one behind a      *)
(* preface that the same reader takes for the client's session, whatever   *)
(* lengths the client gave its varints; and a stream is only given up when *)
(* it ends in its preface or is of another type.                           *)
Sent(r) == /\ r.values = <<message.type, message.session>>
           /\ r.payload = SubSeq(message.body, 1, Len(r.payload))

PrefaceRoundTrip ==
  /\ stage = "echoed" =>
       /\ Sent(reader) /\ message.type = expected
       /\ IF expected = WT_UNI_STREAM_TYPE THEN Push(Fresh, echo) = reader
                                           ELSE echo = reader.payload
  /\ stage = "failed" =>
       \/ Len(reader.values) < 2 /\ at = Len(input)
       \/ message.type # expected
=============================================================================
