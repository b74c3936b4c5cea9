------------------------------ MODULE WireProofs ------------------------------
(***************************************************************************)
(* Proofs about what the servers read and write byte by byte, field by     *)
(* field and line by line: Framing, for every set of types, sessions and   *)
(* payloads, Negotiation, for all values of the fields and any number of   *)
(* them, and Pem, for any labels and any number of lines.                  *)
(***************************************************************************)
EXTENDS Framing, Negotiation, Pem, SequenceTheorems, FiniteSetTheorems, TLAPS

(***************************************************************************)
(* Framing.  The varint functions are inverse to one another whatever      *)
(* follows the varint; a push is a normal form of the rounds of its loop,  *)
(* so pushing two chunks is pushing one.                                   *)
(***************************************************************************)

Readers == [pending : Seq(Byte), values : Seq(U64), payload : Seq(Byte)]
Lengths == {1, 2, 4, 8}

(* What is encoded is a sequence of bytes of the length asked for.         *)
LEMMA EncodedType ==
  ASSUME NEW v \in VarintValues, NEW n \in Lengths
  PROVE  /\ Encoded(v, n) \in Seq(Byte) /\ Len(Encoded(v, n)) = n
         /\ \A i \in 1 .. n : Encoded(v, n)[i] =
              (IF i = 1 THEN 64 * Class(n) + (v[9 - n] % 64) ELSE v[8 - n + i])
<1>1. v \in U64
  BY DEF VarintValues
<1>2. \A i \in 1 .. n : Encoded(v, n)[i] \in Byte
  BY <1>1 DEF Encoded, Class, Lengths, Byte, U64
<1> QED
  BY <1>2 DEF Encoded, Lengths

(* What is behind the front of a sequence of bytes.                        *)
LEMMA FromType ==
  ASSUME NEW s \in Seq(Byte), NEW n \in 1 .. Len(s) + 1
  PROVE  /\ From(s, n) \in Seq(Byte) /\ Len(From(s, n)) = Len(s) - n + 1
         /\ \A i \in 1 .. Len(s) - n + 1 : From(s, n)[i] = s[n + i - 1]
BY DEF From

(* The first byte of a varint gives its length and its highest bits back.  *)
LEMMA LeadByte ==
  ASSUME NEW n \in Lengths, NEW f \in 0 .. 63, NEW k, k = 64 * Class(n) + (f % 64)
  PROVE  Length(k) = n /\ k % 64 = f
<1>1. CASE n = 1
  <2>1. k = f
    BY <1>1 DEF Class
  <2> QED BY <2>1, <1>1 DEF Length
<1>2. CASE n = 2
  <2>1. k = 64 + f
    BY <1>2 DEF Class
  <2> QED BY <2>1, <1>2 DEF Length
<1>3. CASE n = 4
  <2>1. k = 128 + f
    BY <1>3 DEF Class
  <2> QED BY <2>1, <1>3 DEF Length
<1>4. CASE n = 8
  <2>1. k = 192 + f
    BY <1>4 DEF Class
  <2> QED BY <2>1, <1>4 DEF Length
<1> QED
  BY <1>1, <1>2, <1>3, <1>4 DEF Lengths

(* A varint is read back from whatever bytes it is followed by.            *)
LEMMA VarintRoundTrip ==
  ASSUME NEW v \in VarintValues, NEW n \in Lengths, Fits(v, n),
         NEW rest \in Seq(Byte)
  PROVE  /\ Complete(Encoded(v, n) \o rest)
         /\ read_varint(Encoded(v, n) \o rest).value = v
         /\ From(Encoded(v, n) \o rest, read_varint(Encoded(v, n) \o rest).len + 1) = rest
<1> DEFINE e == Encoded(v, n)
           b == Encoded(v, n) \o rest
           first == v[9 - n]
<1>1. v \in U64 /\ \A i \in 1 .. 8 : v[i] \in 0 .. 255
  BY DEF VarintValues, U64, Byte
<1>2. n \in 1 .. 8 /\ 9 - n \in 1 .. 8
  BY DEF Lengths
<1>3. first \in 0 .. 63 /\ \A i \in 1 .. 8 - n : v[i] = 0
  <2>1. first \in 0 .. 255
    BY <1>1, <1>2
  <2>2. first < 64 /\ \A i \in 1 .. 8 - n : v[i] = 0
    BY DEF Fits
  <2> HIDE DEF first
  <2> QED
    BY <2>1, <2>2
<1>4. /\ e \in Seq(Byte) /\ Len(e) = n
      /\ \A i \in 1 .. n : e[i] =
            (IF i = 1 THEN 64 * Class(n) + (first % 64) ELSE v[8 - n + i])
  BY EncodedType
<1> HIDE DEF e, first
<1>5. /\ b \in Seq(Byte) /\ Len(b) = n + Len(rest) /\ Len(rest) \in Nat
      /\ \A i \in 1 .. n : b[i] = e[i]
      /\ \A i \in 1 .. Len(rest) : b[n + i] = rest[i]
  <2>1. b = e \o rest
    BY DEF e
  <2> HIDE DEF b
  <2> QED
    BY <2>1, <1>2, <1>4
<1> HIDE DEF b
<1>6. Length(b[1]) = n /\ b[1] % 64 = first
  <2>1. 1 \in 1 .. n
    BY <1>2
  <2>2. b[1] = 64 * Class(n) + (first % 64)
    BY <2>1, <1>4, <1>5
  <2> QED
    BY <2>2, <1>3, LeadByte
<1>7. Complete(b)
  BY <1>2, <1>5, <1>6 DEF Complete
<1>8. ASSUME NEW i \in 1 .. 8
      PROVE  v[i] = CASE i < 9 - n -> 0
                      [] i = 9 - n -> b[1] % 64
                      [] OTHER     -> b[i - (8 - n)]
  <2>1. CASE i < 9 - n
    BY <2>1, <1>2, <1>3
  <2>2. CASE i = 9 - n
    <3>1. v[i] = first
      BY <2>2 DEF first
    <3>2. ~(i < 9 - n)
      BY <2>2, <1>2
    <3> QED
      BY <3>1, <3>2, <2>2, <1>6
  <2>3. CASE i > 9 - n
    <3> DEFINE j == i - (8 - n)
    <3>1. j \in 2 .. n /\ 8 - n + j = i
      BY <2>3, <1>2
    <3> HIDE DEF j
    <3>2. b[j] = v[i]
      BY <3>1, <1>2, <1>4, <1>5
    <3> QED
      BY <3>2, <2>3, <1>2 DEF j
  <2>4. i < 9 - n \/ i = 9 - n \/ i > 9 - n
    BY <1>2
  <2> QED
    BY <2>1, <2>2, <2>3, <2>4
<1>9. read_varint(b) = [len |-> n, value |-> v]
  <2>1. v = [i \in 1 .. 8 |-> v[i]]
    BY <1>1 DEF U64
  <2>2. [i \in 1 .. 8 |-> v[i]] =
          [i \in 1 .. 8 |-> CASE i < 9 - n -> 0
                              [] i = 9 - n -> b[1] % 64
                              [] OTHER     -> b[i - (8 - n)]]
    BY <1>8
  <2> QED
    BY <2>1, <2>2, <1>6 DEF read_varint
<1>10. From(b, n + 1) = rest
  <2> DEFINE k == n + 1
             r == From(b, k)
  <2>0. k \in 1 .. Len(b) + 1 /\ Len(b) - k + 1 = Len(rest)
    BY <1>2, <1>5
  <2>1. /\ r \in Seq(Byte) /\ Len(r) = Len(rest)
        /\ \A i \in 1 .. Len(rest) : r[i] = b[k + i - 1]
    BY <2>0, <1>5, FromType
  <2>2. ASSUME NEW i \in 1 .. Len(rest)
        PROVE  r[i] = rest[i]
    <3>1. k + i - 1 = n + i
      BY <1>2, <1>5
    <3> HIDE DEF k, r
    <3> QED
      BY <3>1, <2>1, <1>5
  <2> QED
    BY <2>1, <2>2, SeqEqual
<1>11. read_varint(b).len + 1 = n + 1
  BY <1>9
<1> QED
  BY <1>7, <1>9, <1>10, <1>11 DEF b

-----------------------------------------------------------------------------
(* Bytes given to a reader and not looked at yet.                          *)
Give(r, bytes) == [r EXCEPT !.pending = @ \o bytes]

(* A varint that is complete is read in the same way when more follows.    *)
LEMMA PrefixStable ==
  ASSUME NEW s \in Seq(Byte), NEW t \in Seq(Byte), Complete(s)
  PROVE  /\ Complete(s \o t) /\ read_varint(s) = read_varint(s \o t)
         /\ read_varint(s).value \in U64
         /\ read_varint(s).len + 1 \in 1 .. Len(s) + 1
         /\ From(s, read_varint(s).len + 1) \in Seq(Byte)
         /\ From(s \o t, read_varint(s).len + 1) = From(s, read_varint(s).len + 1) \o t
<1> DEFINE n == Length(s[1])
           k == n + 1
           u == s \o t
<1>1. n \in 1 .. Len(s) /\ n \in Lengths /\ Len(s) \in Nat /\ Len(t) \in Nat
  BY DEF Complete, Length, Lengths
<1>2. /\ u \in Seq(Byte) /\ Len(u) = Len(s) + Len(t)
      /\ \A i \in 1 .. Len(s) : u[i] = s[i]
      /\ \A i \in 1 .. Len(t) : u[Len(s) + i] = t[i]
  OBVIOUS
<1>3. u[1] = s[1]
  BY <1>1, <1>2
<1>4. Complete(u)
  BY <1>1, <1>2, <1>3 DEF Complete
<1>5. ASSUME NEW i \in 1 .. 8
      PROVE  /\ (CASE i < 9 - n -> 0 [] i = 9 - n -> s[1] % 64
                   [] OTHER -> s[i - (8 - n)])
               = (CASE i < 9 - n -> 0 [] i = 9 - n -> u[1] % 64
                   [] OTHER -> u[i - (8 - n)])
             /\ (CASE i < 9 - n -> 0 [] i = 9 - n -> s[1] % 64
                   [] OTHER -> s[i - (8 - n)]) \in Byte
  <2>1. CASE i < 9 - n
    BY <2>1, <1>1 DEF Byte
  <2>2. CASE i = 9 - n
    <3>1. ~(i < 9 - n)
      BY <2>2, <1>1
    <3>2. s[1] \in Byte
      BY <1>1
    <3>3. \A x \in Byte : x % 64 \in Byte
      BY DEF Byte
    <3> QED
      BY <3>1, <3>2, <3>3, <2>2, <1>3
  <2>3. CASE i > 9 - n
    <3> DEFINE j == i - (8 - n)
    <3>1. j \in 1 .. Len(s)
      BY <2>3, <1>1 DEF Lengths
    <3>2. ~(i < 9 - n) /\ i # 9 - n
      BY <2>3, <1>1
    <3> HIDE DEF j, u
    <3>3. s[j] = u[j] /\ s[j] \in Byte
      BY <3>1, <1>2
    <3> QED
      BY <3>2, <3>3 DEF j
  <2>4. i < 9 - n \/ i = 9 - n \/ i > 9 - n
    BY <1>1
  <2> QED
    BY <2>1, <2>2, <2>3, <2>4
<1>6. read_varint(s) = read_varint(u) /\ read_varint(s).value \in U64
      /\ read_varint(s).len = n
  BY <1>3, <1>5 DEF read_varint, U64
<1>7. From(u, k) = From(s, k) \o t
  <2> DEFINE r == From(s, k)
             q == From(u, k)
  <2>0. /\ k \in 1 .. Len(s) + 1 /\ k \in 1 .. Len(u) + 1
        /\ Len(u) - k + 1 = Len(s) - k + 1 + Len(t)
    BY <1>1, <1>2
  <2> HIDE DEF k, u
  <2>1. /\ r \in Seq(Byte) /\ Len(r) = Len(s) - k + 1
        /\ \A i \in 1 .. Len(s) - k + 1 : r[i] = s[k + i - 1]
    BY <2>0, FromType
  <2>2. /\ q \in Seq(Byte) /\ Len(q) = Len(u) - k + 1
        /\ \A i \in 1 .. Len(u) - k + 1 : q[i] = u[k + i - 1]
    BY <2>0, <1>2, FromType
  <2> HIDE DEF r, q
  <2>3. /\ r \o t \in Seq(Byte) /\ Len(r \o t) = Len(q)
        /\ \A i \in 1 .. Len(q) : (r \o t)[i] =
              IF i <= Len(r) THEN r[i] ELSE t[i - Len(r)]
    <3>1. Len(q) = Len(r) + Len(t)
      BY <2>0, <2>1, <2>2
    <3> QED
      BY <3>1, <2>1, ConcatProperties
  <2>4. ASSUME NEW i \in 1 .. Len(q)
        PROVE  q[i] = (r \o t)[i]
    <3> DEFINE j == k + i - 1
               m == i - Len(r)
    <3>1. q[i] = u[j] /\ i \in Int /\ k \in Int
      BY <2>0, <2>2
    <3>4. i <= Len(r) \/ i > Len(r)
      BY <3>1, <2>1
    <3>2. CASE i <= Len(r)
      <4>1. j \in 1 .. Len(s)
        BY <3>2, <2>0, <2>1, <1>1
      <4>2. r[i] = s[j]
        BY <3>2, <2>0, <2>1, <1>1
      <4> HIDE DEF j
      <4>3. u[j] = s[j]
        BY <4>1, <1>2
      <4> QED
        BY <4>2, <4>3, <3>1, <3>2, <2>3
    <3>3. CASE i > Len(r)
      <4>1. m \in 1 .. Len(t) /\ j = Len(s) + m
        BY <3>3, <2>0, <2>1, <2>2, <1>1
      <4> HIDE DEF j, m
      <4>2. u[j] = t[m]
        BY <4>1, <1>2
      <4>3. (r \o t)[i] = t[m]
        BY <3>3, <2>1, <2>3, <1>1 DEF m
      <4> QED
        BY <4>2, <4>3, <3>1
    <3> QED
      BY <3>2, <3>3, <3>4
  <2>5. q = r \o t
    BY <2>2, <2>3, <2>4, SeqEqual
  <2> QED
    BY <2>5 DEF q, r
<1>8. From(s, k) \in Seq(Byte)
  BY <1>1, FromType
<1> QED
  BY <1>1, <1>4, <1>6, <1>7, <1>8

-----------------------------------------------------------------------------
LEMMA GiveIs ==
  ASSUME NEW r \in Readers, NEW c \in Seq(Byte)
  PROVE  /\ Give(r, c) = [pending |-> r.pending \o c, values |-> r.values,
                          payload |-> r.payload]
         /\ Give(r, c) \in Readers
<1> DEFINE s == r.pending \o c
<1>1. s \in Seq(Byte)
  BY DEF Readers
<1> HIDE DEF s
<1>2. [r EXCEPT !.pending = s] = [pending |-> s, values |-> r.values,
                                  payload |-> r.payload]
  <2>1. r = [pending |-> r.pending, values |-> r.values, payload |-> r.payload]
    BY DEF Readers
  <2> QED
    BY <2>1
<1>3. [r EXCEPT !.pending = s] \in Readers
  BY <1>1, <1>2 DEF Readers
<1> QED
  BY <1>2, <1>3 DEF Give, s

(* A reader of two varints has handed everything on after a round.         *)
LEMMA RoundOfTwo ==
  ASSUME NEW r \in Readers, Len(r.values) >= 2
  PROVE  /\ Round(r) = [pending |-> <<>>, values |-> r.values,
                        payload |-> r.payload \o r.pending]
         /\ Round(Round(r)) = Round(r)
<1>1. Round(r) = [pending |-> <<>>, values |-> r.values, payload |-> r.payload \o r.pending]
  BY DEF Round, Readers
<1>2. r.payload \o r.pending \in Seq(Byte)
  BY DEF Readers
<1>3. (r.payload \o r.pending) \o <<>> = r.payload \o r.pending
  BY <1>2, ConcatEmptySeq
<1> QED
  BY <1>1, <1>3 DEF Round

(* One that waits for the rest of a varint goes on waiting.                *)
LEMMA RoundOfIncomplete ==
  ASSUME NEW r \in Readers, ~(Len(r.values) >= 2), ~Complete(r.pending)
  PROVE  Round(r) = r
BY DEF Round

(* One that takes a varint has it behind those it had.                     *)
LEMMA RoundOfComplete ==
  ASSUME NEW r \in Readers, ~(Len(r.values) >= 2), Complete(r.pending)
  PROVE  /\ Round(r) = [pending |-> From(r.pending, read_varint(r.pending).len + 1),
                        values |-> Append(r.values, read_varint(r.pending).value),
                        payload |-> r.payload]
         /\ Len(Round(r).values) = Len(r.values) + 1
<1>1. Round(r) = [pending |-> From(r.pending, read_varint(r.pending).len + 1),
                  values |-> Append(r.values, read_varint(r.pending).value),
                  payload |-> r.payload]
  BY DEF Round, Readers
<1>2. r.pending \in Seq(Byte) /\ <<>> \in Seq(Byte)
  BY EmptySeq DEF Readers
<1>3. read_varint(r.pending).value \in U64
  BY <1>2, PrefixStable
<1> QED
  BY <1>1, <1>3 DEF Readers

LEMMA RoundType ==
  ASSUME NEW r \in Readers
  PROVE  Round(r) \in Readers
<1>0. r.pending \in Seq(Byte) /\ r.payload \in Seq(Byte) /\ r.values \in Seq(U64)
  BY DEF Readers
<1>1. CASE Len(r.values) >= 2
  <2> DEFINE s == r.payload \o r.pending
  <2>1. s \in Seq(Byte) /\ <<>> \in Seq(Byte)
    BY <1>0
  <2>2. Round(r) = [pending |-> <<>>, values |-> r.values, payload |-> s]
    BY <1>1, RoundOfTwo
  <2> HIDE DEF s
  <2> QED
    BY <1>0, <2>1, <2>2 DEF Readers
<1>2. CASE ~(Len(r.values) >= 2) /\ Complete(r.pending)
  <2> DEFINE v == read_varint(r.pending)
             q == From(r.pending, v.len + 1)
             w == Append(r.values, v.value)
  <2>1. v.value \in U64 /\ q \in Seq(Byte)
    BY <1>0, <1>2, PrefixStable, EmptySeq
  <2>2. w \in Seq(U64)
    BY <1>0, <2>1
  <2>3. Round(r) = [pending |-> q, values |-> w, payload |-> r.payload]
    BY <1>2, RoundOfComplete
  <2> HIDE DEF q, w
  <2> QED
    BY <1>0, <2>1, <2>2, <2>3 DEF Readers
<1>3. CASE ~(Len(r.values) >= 2) /\ ~Complete(r.pending)
  BY <1>3, RoundOfIncomplete
<1> QED
  BY <1>1, <1>2, <1>3

(* Two rounds settle a reader of one varint, three any reader.             *)
LEMMA TwoRounds ==
  ASSUME NEW r \in Readers, Len(r.values) >= 1
  PROVE  Round(Round(Round(r))) = Round(Round(r))
<1>1. CASE Len(r.values) >= 2
  BY <1>1, RoundOfTwo
<1>2. CASE ~(Len(r.values) >= 2) /\ ~Complete(r.pending)
  BY <1>2, RoundOfIncomplete
<1>3. CASE ~(Len(r.values) >= 2) /\ Complete(r.pending)
  <2>1. Round(r) \in Readers
    BY RoundType
  <2>2. Len(Round(r).values) >= 2
    BY <1>3, RoundOfComplete DEF Readers
  <2> QED
    BY <2>1, <2>2, RoundOfTwo
<1> QED
  BY <1>1, <1>2, <1>3

LEMMA ThreeRounds ==
  ASSUME NEW r \in Readers
  PROVE  Round(Round(Round(Round(r)))) = Round(Round(Round(r)))
<1>0. Round(r) \in Readers
  BY RoundType
<1>1. CASE Len(r.values) >= 2
  BY <1>1, RoundOfTwo
<1>2. CASE ~(Len(r.values) >= 2) /\ ~Complete(r.pending)
  BY <1>2, RoundOfIncomplete
<1>3. CASE ~(Len(r.values) >= 2) /\ Complete(r.pending)
  <2>1. Len(Round(r).values) >= 1
    BY <1>3, RoundOfComplete DEF Readers
  <2> QED
    BY <2>1, <1>0, TwoRounds
<1> QED
  BY <1>1, <1>2, <1>3

(* A round taken before more bytes arrive makes no difference behind the   *)
(* rounds that are taken then.                                             *)
LEMMA RoundBefore ==
  ASSUME NEW r \in Readers, NEW c \in Seq(Byte)
  PROVE  Push(Round(r), c) = Push(r, c)
<1> DEFINE x == Give(r, c)
           y == Give(Round(r), c)
<1>0. /\ Push(r, c) = Round(Round(Round(x))) /\ Push(Round(r), c) = Round(Round(Round(y)))
      /\ x \in Readers /\ y \in Readers
  BY RoundType, GiveIs DEF Push, Give
<1>1. CASE Len(r.values) >= 2
  <2>1. Round(r) = [pending |-> <<>>, values |-> r.values, payload |-> r.payload \o r.pending]
    BY <1>1, RoundOfTwo
  <2>2. <<>> \o c = c
    BY ConcatEmptySeq
  <2>3. y = [pending |-> c, values |-> r.values, payload |-> r.payload \o r.pending]
    <3>1. Round(r) \in Readers
      BY RoundType
    <3> QED
      BY <3>1, <2>1, <2>2, GiveIs
  <2>4. x = [pending |-> r.pending \o c, values |-> r.values, payload |-> r.payload]
    BY GiveIs
  <2>5. (r.payload \o r.pending) \o c = r.payload \o (r.pending \o c)
    BY ConcatAssociative DEF Readers
  <2> HIDE DEF x, y
  <2>6. Round(y) = Round(x) /\ Round(Round(x)) = Round(x) /\ Round(Round(y)) = Round(y)
    BY <1>0, <1>1, <2>3, <2>4, <2>5, RoundOfTwo
  <2> QED
    BY <1>0, <2>6
<1>2. CASE ~(Len(r.values) >= 2) /\ ~Complete(r.pending)
  BY <1>2, RoundOfIncomplete
<1>3. CASE ~(Len(r.values) >= 2) /\ Complete(r.pending)
  <2> DEFINE v == read_varint(r.pending)
  <2>1. r.pending \in Seq(Byte)
    BY DEF Readers
  <2>2. /\ Complete(r.pending \o c) /\ read_varint(r.pending \o c) = v
        /\ From(r.pending \o c, v.len + 1) = From(r.pending, v.len + 1) \o c
    BY <1>3, <2>1, PrefixStable
  <2> HIDE DEF v
  <2>3. x = [pending |-> r.pending \o c, values |-> r.values, payload |-> r.payload]
    BY GiveIs
  <2>4. y = [pending |-> From(r.pending, v.len + 1) \o c,
             values |-> Append(r.values, v.value), payload |-> r.payload]
    <3> DEFINE q == Round(r)
    <3>1. q \in Readers
      BY RoundType
    <3>2. q = [pending |-> From(r.pending, v.len + 1),
               values |-> Append(r.values, v.value), payload |-> r.payload]
      BY <1>3, RoundOfComplete DEF v
    <3> HIDE DEF q
    <3>3. Give(q, c) = [pending |-> q.pending \o c, values |-> q.values,
                        payload |-> q.payload]
      BY <3>1, GiveIs
    <3>4. /\ q.pending = From(r.pending, v.len + 1) /\ q.payload = r.payload
          /\ q.values = Append(r.values, v.value)
      BY <3>2
    <3> QED
      BY <3>3, <3>4 DEF q
  <2> HIDE DEF x, y
  <2>5. Round(x) = y
    BY <1>0, <1>3, <2>2, <2>3, <2>4, RoundOfComplete
  <2>6. Len(y.values) >= 1
    <3>1. x.values = r.values /\ Len(r.values) \in Nat /\ ~(Len(x.values) >= 2)
          /\ Complete(x.pending)
      BY <1>3, <2>2, <2>3 DEF Readers
    <3> QED
      BY <3>1, <1>0, <2>5, RoundOfComplete
  <2> QED
    BY <1>0, <2>5, <2>6, TwoRounds
<1> QED
  BY <1>1, <1>2, <1>3

(* Pushing two chunks, one after the other, is pushing both at once.       *)
LEMMA PushTwice ==
  ASSUME NEW r \in Readers, NEW c \in Seq(Byte), NEW d \in Seq(Byte)
  PROVE  Push(Push(r, c), d) = Push(r, c \o d)
<1> DEFINE x == Give(r, c)
<1>1. /\ x \in Readers /\ Round(x) \in Readers /\ Round(Round(x)) \in Readers
      /\ Push(r, c) = Round(Round(Round(x)))
  BY RoundType, GiveIs DEF Push, Give
<1>2. Push(Push(r, c), d) = Push(x, d)
  <2> HIDE DEF x
  <2> QED
    BY <1>1, RoundBefore
<1>3. (r.pending \o c) \o d = r.pending \o (c \o d)
  BY ConcatAssociative DEF Readers
<1>4. Give(x, d) = Give(r, c \o d)
  <2>1. c \o d \in Seq(Byte)
    OBVIOUS
  <2>2. Give(r, c \o d) = [pending |-> r.pending \o (c \o d), values |-> r.values,
                           payload |-> r.payload]
    BY <2>1, GiveIs
  <2>0. x = [pending |-> r.pending \o c, values |-> r.values, payload |-> r.payload]
    BY GiveIs
  <2> HIDE DEF x
  <2>3. /\ x.pending = r.pending \o c /\ x.values = r.values /\ x.payload = r.payload
    BY <2>0
  <2>4. Give(x, d) = [pending |-> x.pending \o d, values |-> x.values,
                      payload |-> x.payload]
    BY <1>1, GiveIs
  <2> QED
    BY <2>2, <2>3, <2>4, <1>3
<1>5. Push(x, d) = Push(r, c \o d)
  BY <1>4 DEF Push, Give
<1> QED
  BY <1>2, <1>5

LEMMA PushType ==
  ASSUME NEW r \in Readers, NEW c \in Seq(Byte)
  PROVE  Push(r, c) \in Readers
BY GiveIs, RoundType DEF Push, Give

LEMMA FreshType == Fresh \in Readers
BY EmptySeq DEF Fresh, Readers

LEMMA PushNothing == Push(Fresh, <<>>) = Fresh
<1>1. Give(Fresh, <<>>) = Fresh
  <2>1. <<>> \in Seq(Byte) /\ <<>> \o <<>> = <<>>
    BY EmptySeq, ConcatEmptySeq
  <2> QED
    BY <2>1, FreshType, GiveIs DEF Fresh
<1>2. Round(Fresh) = Fresh
  BY DEF Round, Fresh, Complete
<1> QED
  BY <1>1, <1>2 DEF Push, Give

(* A reader that has both varints behind a push has nothing pending.       *)
LEMMA PushSettles ==
  ASSUME NEW r \in Readers, NEW c \in Seq(Byte), Len(Push(r, c).values) >= 2
  PROVE  Push(r, c).pending = <<>>
<1> DEFINE x == Push(r, c)
<1>1. x \in Readers
  BY PushType
<1>2. Round(x) = x
  BY GiveIs, ThreeRounds DEF Push, Give
<1> HIDE DEF x
<1>3. Len(x.values) >= 2
  BY DEF x
<1>4. Round(x).pending = <<>>
  <2>1. Round(x) = [pending |-> <<>>, values |-> x.values, payload |-> x.payload \o x.pending]
    BY <1>1, <1>3, RoundOfTwo
  <2> QED
    BY <2>1
<1> QED
  BY <1>2, <1>4 DEF x

(* From then on it takes every byte for payload.                           *)
LEMMA PushOn ==
  ASSUME NEW r \in Readers, Len(r.values) >= 2, r.pending = <<>>, NEW c \in Seq(Byte)
  PROVE  Push(r, c) = [pending |-> <<>>, values |-> r.values, payload |-> r.payload \o c]
<1> DEFINE x == Give(r, c)
<1>1. x \in Readers /\ x = [pending |-> <<>> \o c, values |-> r.values, payload |-> r.payload]
  BY GiveIs
<1>2. <<>> \o c = c
  BY ConcatEmptySeq
<1>3. Push(r, c) = Round(Round(Round(x)))
  BY DEF Push, Give
<1> HIDE DEF x
<1>4. x.values = r.values /\ x.pending = c /\ x.payload = r.payload
  BY <1>1, <1>2
<1> QED
  BY <1>1, <1>3, <1>4, RoundOfTwo

(* The second value behind the first.                                      *)
LEMMA PairByAppend ==
  ASSUME NEW v \in U64, NEW w \in U64, NEW s, s = <<v>>
  PROVE  Append(s, w) = <<v, w>>
<1> DEFINE t == <<v, w>>
           a == Append(s, w)
<1>1. s \in Seq(U64) /\ Len(s) = 1 /\ s[1] = v
  OBVIOUS
<1>2. t \in Seq(U64) /\ Len(t) = 2 /\ t[1] = v /\ t[2] = w
  OBVIOUS
<1> HIDE DEF t
<1>3. a \in Seq(U64) /\ Len(a) = Len(s) + 1
  BY <1>1
<1>4. \A i \in 1 .. Len(s) : a[i] = s[i]
  BY <1>1
<1>5. a[Len(s) + 1] = w
  BY <1>1
<1> HIDE DEF a
<1>6. \A i \in 1 .. 2 : a[i] = t[i]
  BY <1>1, <1>2, <1>4, <1>5
<1>7. a = t
  BY <1>1, <1>2, <1>3, <1>6, SeqEqual
<1> QED
  BY <1>7 DEF a, t

(* A whole stream, varints and body, given at once.                        *)
Stream(v, m, w, n, text) == Encoded(v, m) \o (Encoded(w, n) \o text)

LEMMA PushStream ==
  ASSUME NEW v \in VarintValues, NEW w \in VarintValues, NEW m \in Lengths,
         NEW n \in Lengths, Fits(v, m), Fits(w, n), NEW text \in Seq(Byte)
  PROVE  /\ Stream(v, m, w, n, text) \in Seq(Byte)
         /\ Push(Fresh, Stream(v, m, w, n, text)) =
              [pending |-> <<>>, values |-> <<v, w>>, payload |-> text]
<1> DEFINE p == Encoded(w, n) \o text
           s == Stream(v, m, w, n, text)
           x == [pending |-> s, values |-> <<>>, payload |-> <<>>]
           y == [pending |-> p, values |-> <<v>>, payload |-> <<>>]
           z == [pending |-> text, values |-> <<v, w>>, payload |-> <<>>]
<1>1. /\ p \in Seq(Byte) /\ s \in Seq(Byte) /\ v \in U64 /\ w \in U64
      /\ s = Encoded(v, m) \o p /\ p = Encoded(w, n) \o text
  BY EncodedType DEF Stream, VarintValues
<1> HIDE DEF s, p, x, y, z
<1>2. /\ Complete(s) /\ read_varint(s).value = v
      /\ From(s, read_varint(s).len + 1) = p
  BY <1>1, VarintRoundTrip
<1>3. /\ Complete(p) /\ read_varint(p).value = w
      /\ From(p, read_varint(p).len + 1) = text
  BY <1>1, VarintRoundTrip
<1>4. <<>> \in Seq(Byte) /\ <<>> \in Seq(U64) /\ <<v>> \in Seq(U64) /\ <<v, w>> \in Seq(U64)
  BY <1>1
<1>5. x \in Readers /\ y \in Readers /\ z \in Readers
  BY <1>1, <1>4 DEF Readers, x, y, z
<1>6. Give(Fresh, s) = x
  <2>1. <<>> \o s = s
    BY <1>1, ConcatEmptySeq
  <2> QED
    BY <2>1, <1>1, FreshType, GiveIs DEF Fresh, x
<1>7. Round(x) = y
  <2>1. /\ x.pending = s /\ x.values = <<>> /\ x.payload = <<>>
        /\ Len(x.values) = 0 /\ Append(x.values, v) = <<v>>
    BY DEF x
  <2>2. ~(Len(x.values) >= 2) /\ Complete(x.pending)
    BY <2>1, <1>2
  <2>3. Round(x) = [pending |-> From(x.pending, read_varint(x.pending).len + 1),
                    values |-> Append(x.values, read_varint(x.pending).value),
                    payload |-> x.payload]
    BY <2>2, <1>5, RoundOfComplete
  <2> QED
    BY <2>1, <2>3, <1>2 DEF y
<1>8. Round(y) = z
  <2>1. y.pending = p /\ y.values = <<v>> /\ y.payload = <<>>
    BY DEF y
  <2>2. Len(y.values) = 1 /\ Append(y.values, w) = <<v, w>>
    BY <2>1, <1>1, PairByAppend
  <2>3. ~(Len(y.values) >= 2) /\ Complete(y.pending)
    BY <2>1, <2>2, <1>3
  <2>4. Round(y) = [pending |-> From(y.pending, read_varint(y.pending).len + 1),
                    values |-> Append(y.values, read_varint(y.pending).value),
                    payload |-> y.payload]
    BY <2>3, <1>5, RoundOfComplete
  <2> QED
    BY <2>1, <2>2, <2>4, <1>3 DEF z
<1>9. Round(z) = [pending |-> <<>>, values |-> <<v, w>>, payload |-> text]
  <2>1. <<>> \o text = text
    BY ConcatEmptySeq
  <2>2. z.pending = text /\ z.values = <<v, w>> /\ z.payload = <<>>
    BY DEF z
  <2>3. Len(z.values) >= 2
    BY <2>2
  <2>4. Round(z) = [pending |-> <<>>, values |-> z.values, payload |-> z.payload \o z.pending]
    BY <2>3, <1>5, RoundOfTwo
  <2> QED
    BY <2>1, <2>2, <2>4
<1> QED
  BY <1>1, <1>6, <1>7, <1>8, <1>9 DEF Push, Give, s

(* What a reader with both varints has made of the front of a stream.      *)
HasRead(r, v, w, text) ==
  \E k \in 0 .. Len(text) :
    r = [pending |-> <<>>, values |-> <<v, w>>, payload |-> SubSeq(text, 1, k)]

LEMMA ReadOfFront ==
  ASSUME NEW v \in VarintValues, NEW w \in VarintValues, NEW m \in Lengths,
         NEW n \in Lengths, Fits(v, m), Fits(w, n), NEW text \in Seq(Byte),
         NEW front \in Seq(Byte), NEW rest \in Seq(Byte),
         front \o rest = Stream(v, m, w, n, text),
         Len(Push(Fresh, front).values) >= 2
  PROVE  HasRead(Push(Fresh, front), v, w, text)
<1> DEFINE r == Push(Fresh, front)
<1>0. r = Push(Fresh, front) /\ Len(r.values) >= 2
  OBVIOUS
<1>1. r \in Readers /\ r.pending = <<>>
  BY FreshType, PushType, PushSettles
<1> HIDE DEF r
<1>2. Push(r, rest) = Push(Fresh, front \o rest)
  BY <1>0, FreshType, PushTwice
<1>3. Push(r, rest) = [pending |-> <<>>, values |-> <<v, w>>, payload |-> text]
  BY <1>2, PushStream
<1>4. Push(r, rest) = [pending |-> <<>>, values |-> r.values, payload |-> r.payload \o rest]
  BY <1>0, <1>1, PushOn
<1>5. r.values = <<v, w>> /\ r.payload \o rest = text
  BY <1>3, <1>4
<1>6. r.payload = SubSeq(text, 1, Len(r.payload)) /\ Len(r.payload) \in 0 .. Len(text)
  <2> DEFINE q == r.payload
             k == Len(q)
  <2>1. q \in Seq(Byte) /\ k \in 0 .. Len(text) /\ text = q \o rest
    BY <1>1, <1>5 DEF Readers
  <2> HIDE DEF q
  <2>2. SubSeq(text, 1, k) \in Seq(Byte) /\ Len(SubSeq(text, 1, k)) = k
    BY <2>1
  <2>3. \A i \in 1 .. k : SubSeq(text, 1, k)[i] = q[i]
    BY <2>1
  <2>4. q = SubSeq(text, 1, k)
    BY <2>1, <2>2, <2>3, SeqEqual
  <2> QED
    BY <2>1, <2>4 DEF q
<1>7. r = [pending |-> <<>>, values |-> <<v, w>>, payload |-> r.payload]
  BY <1>1, <1>5 DEF Readers
<1> QED
  BY <1>5, <1>6, <1>7 DEF r, HasRead

-----------------------------------------------------------------------------
(* What the client writes is the front of a whole stream.                  *)
OfAStream ==
  \E m \in Lengths, n \in Lengths, rest \in Seq(Byte) :
    /\ Fits(message.type, m) /\ Fits(message.session, n)
    /\ input \o rest = Stream(message.type, m, message.session, n, message.body)

(* Where the task stands at each of its stages.                            *)
StageOK ==
  /\ stage = "idle" => at = 0 /\ reader = Fresh /\ input = <<>>
  /\ stage # "idle" => OfAStream /\ expected \in {WT_BIDI_STREAM_TYPE, WT_UNI_STREAM_TYPE}
  /\ stage = "preface" => Len(reader.values) < 2
  /\ stage \in {"payload", "echoed"} =>
       Len(reader.values) >= 2 /\ reader.values[1] = expected
  /\ stage = "payload" /\ expected = WT_BIDI_STREAM_TYPE => echo = reader.payload
  /\ stage = "echoed" =>
       echo = IF expected = WT_BIDI_STREAM_TYPE THEN reader.payload
              ELSE write_varint(WT_UNI_STREAM_TYPE) \o write_varint(reader.values[2])
                   \o reader.payload
  /\ stage = "failed" =>
       \/ Len(reader.values) < 2 /\ at = Len(input)
       \/ Len(reader.values) >= 2 /\ reader.values[1] # expected

FramingInv == FramingTypeOK /\ ChunkingIsInvisible /\ StageOK

(* The chunk that is read next, behind those that were.                    *)
LEMMA NextChunk ==
  ASSUME NEW s \in Seq(Byte), NEW i \in 0 .. Len(s), NEW j \in i .. Len(s)
  PROVE  /\ SubSeq(s, i + 1, j) \in Seq(Byte) /\ SubSeq(s, 1, i) \in Seq(Byte)
         /\ SubSeq(s, 1, i) \o SubSeq(s, i + 1, j) = SubSeq(s, 1, j)
<1>1. SubSeq(s, 1, i) \in Seq(Byte)
  OBVIOUS
<1>2. SubSeq(s, i + 1, j) \in Seq(Byte)
  OBVIOUS
<1>3. SubSeq(s, 1, i) \o SubSeq(s, i + 1, j) = SubSeq(s, 1, j)
  <2>1. 1 \in 1 .. Len(s) + 1 /\ i \in 1 - 1 .. Len(s) /\ j \in i .. Len(s)
    OBVIOUS
  <2> QED
    BY <2>1, ConcatAdjacentSubSeq
<1> QED
  BY <1>1, <1>2, <1>3

LEMMA NothingRead == \A s : SubSeq(s, 1, 0) = <<>>
BY SubSeqEmpty

LEMMA FramingInitInv == FramingInit => FramingInv
<1> SUFFICES ASSUME FramingInit PROVE FramingInv
  OBVIOUS
<1> USE DEF FramingInit
<1>1. Small(0) \in U64 /\ Small(0) \in VarintValues
  BY DEF Small, U64, Byte, VarintValues
<1>2. FramingTypeOK
  BY <1>1, FreshType, EmptySeq DEF FramingTypeOK, NoMessage, Readers
<1>3. ChunkingIsInvisible
  BY PushNothing, NothingRead DEF ChunkingIsInvisible
<1>4. StageOK
  BY DEF StageOK
<1> QED
  BY <1>2, <1>3, <1>4 DEF FramingInv

LEMMA SendInv == FramingInv /\ Send => FramingInv'
<1> SUFFICES ASSUME FramingInv, Send PROVE FramingInv'
  OBVIOUS
<1>1. FramingTypeOK /\ ChunkingIsInvisible /\ at = 0 /\ reader = Fresh
  BY DEF FramingInv, StageOK, Send
<1>2. PICK type \in StreamTypes, session \in SessionIds, text \in Bodies,
           m \in Lengths, n \in Lengths :
        /\ Fits(type, m) /\ Fits(session, n)
        /\ message' = [type |-> type, session |-> session, body |-> text]
        /\ LET whole == Encoded(type, m) \o Encoded(session, n) \o text
           IN \E cut \in 0 .. Len(whole) : input' = SubSeq(whole, 1, cut)
  BY DEF Send, Lengths
<1>3. type \in VarintValues /\ session \in VarintValues /\ text \in Seq(Byte)
  BY FramingAssumption
<1> DEFINE whole == Encoded(type, m) \o Encoded(session, n) \o text
<1>4. whole = Stream(type, m, session, n, text) /\ whole \in Seq(Byte)
  <2>1. Encoded(type, m) \in Seq(Byte) /\ Encoded(session, n) \in Seq(Byte)
    BY <1>3, EncodedType
  <2> QED
    BY <2>1, <1>3, ConcatAssociative DEF Stream
<1>5. PICK cut \in 0 .. Len(whole) : input' = SubSeq(whole, 1, cut)
  BY <1>2
<1> HIDE DEF whole
<1>6. input' \in Seq(Byte)
  BY <1>4, <1>5
<1>7. OfAStream'
  <2> DEFINE rest == SubSeq(whole, cut + 1, Len(whole))
  <2>1. rest \in Seq(Byte) /\ input' \o rest = SubSeq(whole, 1, Len(whole))
    <3>1. Len(whole) \in cut .. Len(whole)
      BY <1>4
    <3> QED
      BY <3>1, <1>4, <1>5, NextChunk
  <2>2. SubSeq(whole, 1, Len(whole)) = whole
    BY <1>4, SubSeqFull
  <2>3. /\ message.type' = type /\ message.session' = session /\ message.body' = text
    BY <1>2
  <2> HIDE DEF rest
  <2> QED
    BY <2>1, <2>2, <2>3, <1>2, <1>4 DEF OfAStream
<1>8. FramingTypeOK'
  <2>1. message' \in [type : VarintValues, session : VarintValues, body : Seq(Byte)]
    BY <1>2, <1>3
  <2>2. expected' \in U64
    BY DEF Send, WT_BIDI_STREAM_TYPE, WT_UNI_STREAM_TYPE, Small, U64, Byte
  <2> QED
    BY <2>1, <2>2, <1>1, <1>6, LenProperties DEF FramingTypeOK, Send
<1>9. ChunkingIsInvisible'
  BY <1>1, PushNothing, NothingRead DEF ChunkingIsInvisible, Send
<1>10. StageOK'
  <2>1. Len(reader'.values) < 2
    BY <1>1 DEF Fresh, Send
  <2> QED
    BY <2>1, <1>7 DEF StageOK, Send
<1> QED
  BY <1>8, <1>9, <1>10 DEF FramingInv

LEMMA ReadPrefaceInv == FramingInv /\ ReadPreface => FramingInv'
<1> SUFFICES ASSUME FramingInv, ReadPreface PROVE FramingInv'
  OBVIOUS
<1> DEFINE chunk == SubSeq(input, at + 1, at')
<1>1. /\ FramingTypeOK /\ ChunkingIsInvisible /\ StageOK
      /\ at' \in 0 .. Len(input) /\ input \in Seq(Byte) /\ at \in 0 .. Len(input)
      /\ at' \in at .. Len(input) /\ reader \in Readers
  BY DEF FramingInv, FramingTypeOK, ReadPreface, Readers
<1>2. /\ chunk \in Seq(Byte) /\ SubSeq(input, 1, at) \in Seq(Byte)
      /\ SubSeq(input, 1, at) \o chunk = SubSeq(input, 1, at')
  BY <1>1, NextChunk
<1>3. reader' = Push(reader, chunk) /\ reader' \in Readers
  BY <1>1, <1>2, PushType DEF ReadPreface
<1>4. ChunkingIsInvisible'
  <2>1. reader' = Push(Fresh, SubSeq(input, 1, at) \o chunk)
    BY <1>1, <1>2, <1>3, FreshType, PushTwice DEF ChunkingIsInvisible
  <2> QED
    BY <2>1, <1>2 DEF ChunkingIsInvisible, ReadPreface
<1> HIDE DEF chunk
<1>5. FramingTypeOK'
  BY <1>1, <1>3 DEF FramingTypeOK, ReadPreface, Readers
<1>6. Len(reader'.values) \in Nat
  BY <1>3 DEF Readers
<1>7. OfAStream' /\ expected' \in {WT_BIDI_STREAM_TYPE, WT_UNI_STREAM_TYPE}
  BY <1>1 DEF StageOK, ReadPreface, OfAStream
<1>8. StageOK'
  <2>1. CASE Len(reader'.values) < 2
    BY <2>1, <1>7 DEF StageOK, ReadPreface
  <2>2. CASE Len(reader'.values) >= 2 /\ reader'.values[1] = expected
    <3>1. stage' = "payload"
      BY <2>2, <1>6 DEF ReadPreface
    <3> QED
      BY <3>1, <2>2, <1>7 DEF StageOK, ReadPreface
  <2>3. CASE Len(reader'.values) >= 2 /\ reader'.values[1] # expected
    <3>1. stage' = "failed"
      BY <2>3, <1>6 DEF ReadPreface
    <3> QED
      BY <3>1, <2>3, <1>7 DEF StageOK, ReadPreface
  <2> QED
    BY <2>1, <2>2, <2>3, <1>6
<1> QED
  BY <1>4, <1>5, <1>8 DEF FramingInv

LEMMA ReadBodyInv == FramingInv /\ ReadBody => FramingInv'
<1> SUFFICES ASSUME FramingInv, ReadBody PROVE FramingInv'
  OBVIOUS
<1> DEFINE bytes == SubSeq(input, at + 1, at')
<1>1. /\ FramingTypeOK /\ ChunkingIsInvisible /\ StageOK
      /\ at' \in 0 .. Len(input) /\ input \in Seq(Byte) /\ at \in 0 .. Len(input)
      /\ at' \in at .. Len(input) /\ reader \in Readers /\ stage = "payload"
  BY DEF FramingInv, FramingTypeOK, ReadBody, Readers
<1>2. /\ bytes \in Seq(Byte) /\ SubSeq(input, 1, at) \in Seq(Byte)
      /\ SubSeq(input, 1, at) \o bytes = SubSeq(input, 1, at')
  BY <1>1, NextChunk
<1>3. Len(reader.values) >= 2 /\ reader.values[1] = expected
  BY <1>1 DEF StageOK
<1>4. reader.pending = <<>>
  BY <1>1, <1>2, <1>3, FreshType, PushSettles DEF ChunkingIsInvisible
<1>5. reader' = [reader EXCEPT !.payload = @ \o bytes]
  BY DEF ReadBody
<1>6. reader' = [pending |-> <<>>, values |-> reader.values, payload |-> reader.payload \o bytes]
  BY <1>1, <1>4, <1>5 DEF Readers
<1>7. ChunkingIsInvisible'
  <2>1. reader' = Push(reader, bytes)
    BY <1>1, <1>2, <1>3, <1>4, <1>6, PushOn
  <2>2. reader' = Push(Fresh, SubSeq(input, 1, at) \o bytes)
    BY <2>1, <1>1, <1>2, FreshType, PushTwice DEF ChunkingIsInvisible
  <2> QED
    BY <2>2, <1>2 DEF ChunkingIsInvisible, ReadBody
<1>8. reader' \in Readers
  BY <1>1, <1>2, <1>3, <1>4, <1>6, PushOn, PushType
<1>9. echo' = IF expected = WT_BIDI_STREAM_TYPE THEN echo \o bytes ELSE echo
  BY DEF ReadBody
<1> HIDE DEF bytes
<1>10. FramingTypeOK'
  <2>1. echo' \in Seq(Byte)
    BY <1>1, <1>2, <1>9 DEF FramingTypeOK
  <2> QED
    BY <2>1, <1>1, <1>8 DEF FramingTypeOK, ReadBody, Readers
<1>11. StageOK'
  <2>1. OfAStream' /\ expected' \in {WT_BIDI_STREAM_TYPE, WT_UNI_STREAM_TYPE}
    BY <1>1 DEF StageOK, ReadBody, OfAStream
  <2>2. reader'.values = reader.values /\ reader'.payload = reader.payload \o bytes
    BY <1>6
  <2>3. stage' = "payload" /\ expected' = expected
    BY <1>1 DEF ReadBody
  <2>4. expected = WT_BIDI_STREAM_TYPE => echo' = reader'.payload
    BY <2>2, <1>1, <1>9 DEF StageOK
  <2> QED
    BY <2>1, <2>2, <2>3, <2>4, <1>3 DEF StageOK
<1> QED
  BY <1>7, <1>10, <1>11 DEF FramingInv

LEMMA EndInPrefaceInv == FramingInv /\ EndInPreface => FramingInv'
<1> SUFFICES ASSUME FramingInv, EndInPreface PROVE FramingInv'
  OBVIOUS
<1> USE DEF FramingInv, EndInPreface
<1>1. FramingTypeOK'
  BY DEF FramingTypeOK
<1>2. ChunkingIsInvisible'
  BY DEF ChunkingIsInvisible
<1>3. StageOK'
  BY DEF StageOK, OfAStream
<1> QED
  BY <1>1, <1>2, <1>3

(* The length that is chosen for a value fits it.                          *)
LEMMA WidthFits ==
  ASSUME NEW v \in VarintValues
  PROVE  Width(v) \in Lengths /\ Fits(v, Width(v))
<1>1. Fits(v, 8)
  BY DEF Fits, VarintValues
<1> QED
  BY <1>1 DEF Width, Lengths

LEMMA TypesAreVarints ==
  /\ WT_UNI_STREAM_TYPE \in VarintValues /\ WT_BIDI_STREAM_TYPE \in VarintValues
  /\ WT_UNI_STREAM_TYPE # WT_BIDI_STREAM_TYPE
<1>1. WT_UNI_STREAM_TYPE \in VarintValues /\ WT_BIDI_STREAM_TYPE \in VarintValues
  BY DEF WT_UNI_STREAM_TYPE, WT_BIDI_STREAM_TYPE, Small, VarintValues, U64, Byte
<1>2. WT_UNI_STREAM_TYPE[8] # WT_BIDI_STREAM_TYPE[8]
  BY DEF WT_UNI_STREAM_TYPE, WT_BIDI_STREAM_TYPE, Small
<1> QED
  BY <1>1, <1>2

(* A stream that was cut, at what is read and what is not.                 *)
LEMMA CutInTwo ==
  ASSUME NEW bytes \in Seq(Byte), NEW k \in 0 .. Len(bytes), NEW rest \in Seq(Byte)
  PROVE  /\ SubSeq(bytes, 1, k) \in Seq(Byte)
         /\ \E ahead \in Seq(Byte) : SubSeq(bytes, 1, k) \o ahead = bytes \o rest
<1> DEFINE front == SubSeq(bytes, 1, k)
           back == SubSeq(bytes, k + 1, Len(bytes))
<1>1. Len(bytes) \in k .. Len(bytes)
  OBVIOUS
<1>2. front \in Seq(Byte) /\ back \in Seq(Byte) /\ front \o back = SubSeq(bytes, 1, Len(bytes))
  BY <1>1, NextChunk
<1>3. SubSeq(bytes, 1, Len(bytes)) = bytes
  BY SubSeqFull
<1> HIDE DEF front, back
<1>4. (front \o back) \o rest = front \o (back \o rest) /\ back \o rest \in Seq(Byte)
  <2>1. front \in Seq(Byte) /\ back \in Seq(Byte)
    BY <1>2
  <2>2. (front \o back) \o rest = front \o (back \o rest)
    BY <2>1, ConcatAssociative
  <2> QED
    BY <2>1, <2>2
<1>5. front \o (back \o rest) = bytes \o rest
  BY <1>2, <1>3, <1>4
<1> QED
  BY <1>2, <1>4, <1>5 DEF front

(* What is known of the message once both varints are read.                *)
LEMMA ReadSoFar ==
  ASSUME FramingInv, stage # "idle", Len(reader.values) >= 2
  PROVE  /\ Sent(reader)
         /\ reader = [pending |-> <<>>, values |-> <<message.type, message.session>>,
                      payload |-> reader.payload]
<1>1. /\ message.type \in VarintValues /\ message.session \in VarintValues
      /\ message.body \in Seq(Byte) /\ input \in Seq(Byte) /\ at \in 0 .. Len(input)
      /\ reader = Push(Fresh, SubSeq(input, 1, at)) /\ OfAStream
  BY DEF FramingInv, FramingTypeOK, ChunkingIsInvisible, StageOK
<1>2. PICK m \in Lengths, n \in Lengths, rest \in Seq(Byte) :
        /\ Fits(message.type, m) /\ Fits(message.session, n)
        /\ input \o rest = Stream(message.type, m, message.session, n, message.body)
  BY <1>1 DEF OfAStream
<1>3. reader \in Readers
  BY DEF FramingInv, FramingTypeOK, Readers
<1> DEFINE front == SubSeq(input, 1, at)
<1>4. PICK ahead \in Seq(Byte) : front \o ahead = input \o rest
  BY <1>1, CutInTwo
<1>5. front \in Seq(Byte) /\ reader = Push(Fresh, front)
  BY <1>1, CutInTwo
<1> DEFINE r == reader
           v == message.type
           w == message.session
           text == message.body
<1> HIDE DEF front, r, v, w, text
<1>6. /\ v \in VarintValues /\ w \in VarintValues /\ text \in Seq(Byte)
      /\ Fits(v, m) /\ Fits(w, n) /\ front \in Seq(Byte)
      /\ front \o ahead = Stream(v, m, w, n, text)
      /\ Len(Push(Fresh, front).values) >= 2 /\ r = Push(Fresh, front)
  BY <1>1, <1>2, <1>4, <1>5 DEF r, v, w, text
<1>0. HasRead(Push(Fresh, front), v, w, text)
  BY <1>6, ReadOfFront
<1>7. PICK k \in 0 .. Len(text) :
        r = [pending |-> <<>>, values |-> <<v, w>>, payload |-> SubSeq(text, 1, k)]
  BY <1>0, <1>6 DEF HasRead
<1>8. /\ r.values = <<v, w>> /\ r.payload = SubSeq(text, 1, k)
      /\ r = [pending |-> <<>>, values |-> <<v, w>>, payload |-> r.payload]
  BY <1>6, <1>7
<1>9. Len(SubSeq(text, 1, k)) = k
  BY <1>6
<1> QED
  BY <1>8, <1>9 DEF Sent, r, v, w, text

LEMMA EndOfBodyInv == FramingInv /\ EndOfBody => FramingInv'
<1> SUFFICES ASSUME FramingInv, EndOfBody PROVE FramingInv'
  OBVIOUS
<1>1. FramingTypeOK /\ ChunkingIsInvisible /\ StageOK /\ stage = "payload"
  BY DEF FramingInv, EndOfBody
<1>2. /\ Len(reader.values) >= 2 /\ reader.values[1] = expected
      /\ expected \in {WT_BIDI_STREAM_TYPE, WT_UNI_STREAM_TYPE} /\ OfAStream
  BY <1>1 DEF StageOK
<1>3. /\ message.session \in VarintValues /\ reader.payload \in Seq(Byte)
      /\ reader.values[2] = message.session
  <2>1. message.session \in VarintValues /\ reader.payload \in Seq(Byte)
    BY <1>1 DEF FramingTypeOK
  <2>2. reader.values = <<message.type, message.session>>
    BY <1>1, <1>2, ReadSoFar DEF Sent
  <2> QED
    BY <2>1, <2>2
<1>4. FramingTypeOK'
  <2>1. /\ write_varint(WT_UNI_STREAM_TYPE) \in Seq(Byte)
        /\ write_varint(reader.values[2]) \in Seq(Byte)
    BY <1>3, TypesAreVarints, WidthFits, EncodedType DEF write_varint
  <2>2. echo' \in Seq(Byte)
    BY <2>1, <1>1, <1>3 DEF EndOfBody, FramingTypeOK
  <2> QED
    BY <2>2, <1>1 DEF FramingTypeOK, EndOfBody
<1>5. ChunkingIsInvisible'
  BY <1>1 DEF ChunkingIsInvisible, EndOfBody
<1>6. StageOK'
  <2>1. OfAStream'
    BY <1>2 DEF EndOfBody, OfAStream
  <2> QED
    BY <2>1, <1>1, <1>2 DEF StageOK, EndOfBody
<1> QED
  BY <1>4, <1>5, <1>6 DEF FramingInv

(* The invariant and what it is for hold in every state of the system.     *)
THEOREM FramingInvariant == FramingSpec => []FramingInv
<1>1. FramingInit => FramingInv
  BY FramingInitInv
<1>2. FramingInv /\ [FramingNext]_framingVars => FramingInv'
  <2> SUFFICES ASSUME FramingInv, [FramingNext]_framingVars PROVE FramingInv'
    OBVIOUS
  <2>1. CASE UNCHANGED framingVars
    BY <2>1 DEF framingVars, FramingInv, FramingTypeOK, ChunkingIsInvisible, StageOK,
                OfAStream
  <2> QED
    BY <2>1, SendInv, ReadPrefaceInv, EndInPrefaceInv, ReadBodyInv, EndOfBodyInv
       DEF FramingNext
<1> QED
  BY <1>1, <1>2, PTL DEF FramingSpec

(* However a stream is cut into chunks, PrefixReader::push leaves the      *)
(* reader where one chunk of all the bytes would, for all byte strings.    *)
THEOREM ChunkingCorrect == FramingSpec => []ChunkingIsInvisible
<1>1. FramingInv => ChunkingIsInvisible
  BY DEF FramingInv
<1> QED
  BY <1>1, FramingInvariant, PTL

LEMMA RoundTripInv == FramingInv => PrefaceRoundTrip
<1> SUFFICES ASSUME FramingInv PROVE PrefaceRoundTrip
  OBVIOUS
<1>1. StageOK /\ FramingTypeOK
  BY DEF FramingInv
<1>2. ASSUME stage = "echoed"
      PROVE  /\ Sent(reader) /\ message.type = expected
             /\ IF expected = WT_UNI_STREAM_TYPE THEN Push(Fresh, echo) = reader
                                                 ELSE echo = reader.payload
  <2>1. /\ Len(reader.values) >= 2 /\ reader.values[1] = expected
        /\ expected \in {WT_BIDI_STREAM_TYPE, WT_UNI_STREAM_TYPE}
        /\ echo = IF expected = WT_BIDI_STREAM_TYPE THEN reader.payload
                  ELSE write_varint(WT_UNI_STREAM_TYPE) \o write_varint(reader.values[2])
                       \o reader.payload
    BY <1>1, <1>2 DEF StageOK
  <2>2. Sent(reader)
    BY <1>2, <2>1, ReadSoFar
  <2>3. reader = [pending |-> <<>>, values |-> <<message.type, message.session>>,
                  payload |-> reader.payload]
    BY <1>2, <2>1, ReadSoFar
  <2>4. reader.values = <<message.type, message.session>>
    BY <2>2 DEF Sent
  <2>5. message.type = expected /\ reader.values[2] = message.session
    BY <2>1, <2>4
  <2>6. CASE expected = WT_BIDI_STREAM_TYPE
    BY <2>1, <2>2, <2>5, <2>6, TypesAreVarints
  <2>7. CASE expected = WT_UNI_STREAM_TYPE
    <3> DEFINE v == WT_UNI_STREAM_TYPE
               w == message.session
               text == reader.payload
               a == write_varint(v)
               b == write_varint(w)
    <3>1. v \in VarintValues /\ w \in VarintValues /\ text \in Seq(Byte)
      BY <1>1, TypesAreVarints DEF FramingTypeOK
    <3>2. /\ Width(v) \in Lengths /\ Fits(v, Width(v))
          /\ Width(w) \in Lengths /\ Fits(w, Width(w))
      BY <3>1, WidthFits
    <3>3. /\ a \in Seq(Byte) /\ b \in Seq(Byte)
          /\ a = Encoded(v, Width(v)) /\ b = Encoded(w, Width(w))
      BY <3>1, <3>2, EncodedType DEF write_varint
    <3>4. echo = a \o b \o text
      BY <2>1, <2>5, <2>7, TypesAreVarints
    <3> HIDE DEF v, w, text, a, b
    <3>5. (a \o b) \o text = a \o (b \o text)
      BY <3>1, <3>3, ConcatAssociative
    <3>6. echo = Stream(v, Width(v), w, Width(w), text)
      BY <3>3, <3>4, <3>5 DEF Stream
    <3>7. Push(Fresh, echo) = [pending |-> <<>>, values |-> <<v, w>>, payload |-> text]
      BY <3>1, <3>2, <3>6, PushStream
    <3>8. v = message.type /\ w = message.session /\ text = reader.payload
      BY <2>5, <2>7 DEF v, w, text
    <3>9. Push(Fresh, echo) = reader
      BY <3>7, <3>8, <2>3
    <3> QED
      BY <3>9, <2>2, <2>5, <2>7
  <2> QED
    BY <2>1, <2>6, <2>7
<1>3. ASSUME stage = "failed"
      PROVE  \/ Len(reader.values) < 2 /\ at = Len(input)
             \/ message.type # expected
  <2>1. CASE Len(reader.values) >= 2 /\ reader.values[1] # expected
    <3>1. reader.values = <<message.type, message.session>>
      BY <1>3, <2>1, ReadSoFar DEF Sent
    <3> QED
      BY <3>1, <2>1
  <2> QED
    BY <1>1, <1>3, <2>1 DEF StageOK
<1> QED
  BY <1>2, <1>3 DEF PrefaceRoundTrip

(* An echo carries the client's bytes and names its session, whatever the  *)
(* lengths of its varints, and a stream is given up only for its type or   *)
(* for its end (handle_bidi_echo and handle_uni_echo of main.rs).          *)
THEOREM RoundTripCorrect == FramingSpec => []PrefaceRoundTrip
BY FramingInvariant, RoundTripInv, PTL

-----------------------------------------------------------------------------
(***************************************************************************)
(* Negotiation.  Keeping one field after the other is keeping the last of  *)
(* each name, and the servers then agree by the cases of their answers.    *)
(***************************************************************************)

Fields == UNION {{Header(name, value) : value \in ValuesOf[name]} : name \in Names}

(* Of the places of a name one is the last.                                *)
Places(l, name) == {i \in DOMAIN l : l[i].name = name}
HasLast(l, name) ==
  Places(l, name) # {} => \E i \in Places(l, name) : \A j \in Places(l, name) : j <= i

(* What was kept is the last value of every name, and a path is a path.    *)
KeptLast == kept = [name \in Names |-> LastValue(list, name)]
PathOK == \E base : kept["path"] \in {Path(base, TRUE), Path(base, FALSE)}
NegotiationInv ==
  list \in Seq(Fields) /\ KeptLast /\ PathOK /\ \A name \in Names : HasLast(list, name)

(* The last value of a name in a list that a field was put behind.         *)
LEMMA LastOfAppend ==
  ASSUME NEW l \in Seq(Fields), NEW f \in Fields, NEW name, HasLast(l, name)
  PROVE  /\ HasLast(Append(l, f), name)
         /\ LastValue(Append(l, f), name) =
              IF f.name = name THEN f.value ELSE LastValue(l, name)
<1> DEFINE m == Append(l, f)
           n == Len(m)
           was == Places(l, name)
           now == Places(m, name)
<1>1. /\ DOMAIN l = 1 .. Len(l) /\ Len(l) \in Nat
      /\ DOMAIN m = 1 .. n /\ n = Len(l) + 1 /\ m[n] = f
      /\ \A i \in DOMAIN l : m[i] = l[i]
  BY AppendProperties, LenProperties
<1> HIDE DEF m, n
<1>2. CASE f.name = name
  <2>1. n \in now /\ \A i \in now : i <= n
    BY <1>1, <1>2 DEF Places
  <2>2. \A i \in now : (\A j \in now : j <= i) => i = n
    BY <1>1, <2>1 DEF Places
  <2>3. (CHOOSE i \in now : \A j \in now : j <= i) = n
    BY <2>1, <2>2
  <2> QED
    BY <2>1, <2>3, <1>1, <1>2 DEF LastValue, HasLast, Places, m
<1>3. CASE f.name # name
  <2>1. now = was
    BY <1>1, <1>3 DEF Places
  <2>2. CASE was = {}
    BY <2>1, <2>2, <1>3 DEF LastValue, HasLast, Places, m
  <2>3. CASE was # {}
    <3> DEFINE last == CHOOSE i \in was : \A j \in was : j <= i
    <3>1. \E i \in was : \A j \in was : j <= i
      BY <2>3 DEF HasLast
    <3>2. last \in was
      BY <3>1
    <3>3. m[last] = l[last]
      BY <3>2, <1>1 DEF Places
    <3>4. LastValue(m, name) = m[CHOOSE i \in now : \A j \in now : j <= i].value
      BY <2>1, <2>3 DEF LastValue, Places
    <3>5. LastValue(l, name) = l[last].value
      BY <2>3 DEF LastValue, Places
    <3>6. LastValue(m, name) = LastValue(l, name)
      BY <2>1, <3>3, <3>4, <3>5
    <3>7. HasLast(m, name)
      BY <2>1, <3>1 DEF HasLast
    <3> QED
      BY <3>6, <3>7, <1>3 DEF m
  <2> QED
    BY <2>2, <2>3
<1> QED
  BY <1>2, <1>3

LEMMA NegotiationInitInv == NegotiationInit => NegotiationInv
<1> SUFFICES ASSUME NegotiationInit PROVE NegotiationInv
  OBVIOUS
<1>1. list = <<>> /\ kept = NoFields
  BY DEF NegotiationInit
<1>2. \A name : Places(list, name) = {}
  BY <1>1 DEF Places
<1>3. \A name \in Names : LastValue(list, name) = NoFields[name]
  BY <1>2 DEF LastValue, Places
<1>4. KeptLast
  BY <1>1, <1>3 DEF KeptLast, NoFields
<1>5. PathOK
  <2>1. kept["path"] = Path(None, FALSE)
    BY <1>1 DEF NoFields, Names, Pseudo
  <2> QED
    BY <2>1 DEF PathOK
<1> QED
  BY <1>1, <1>2, <1>4, <1>5, EmptySeq DEF NegotiationInv, HasLast

LEMMA NextFieldInv == NegotiationInv /\ NextField => NegotiationInv'
<1> SUFFICES ASSUME NegotiationInv, NextField PROVE NegotiationInv'
  OBVIOUS
<1>1. list \in Seq(Fields) /\ KeptLast /\ PathOK /\ \A name \in Names : HasLast(list, name)
  BY DEF NegotiationInv
<1>0. PICK name \in Names : \E value \in ValuesOf[name] :
        LET f == Header(name, value) IN list' = Append(list, f) /\ kept' = Keep(kept, f)
  BY DEF NextField
<1>2. PICK value \in ValuesOf[name] :
        /\ list' = Append(list, Header(name, value))
        /\ kept' = Keep(kept, Header(name, value))
  BY <1>0
<1> DEFINE f == Header(name, value)
<1>3. f \in Fields /\ f.name = name /\ f.value = value
  BY DEF Fields, Header
<1> HIDE DEF f
<1>4. list' = Append(list, f) /\ kept' = [kept EXCEPT ![name] = value]
  BY <1>2, <1>3 DEF f, Keep
<1>5. list' \in Seq(Fields)
  BY <1>1, <1>3, <1>4, AppendProperties
<1>6. \A other \in Names : HasLast(list, other)' /\ LastValue(list, other)' =
         (IF name = other THEN value ELSE LastValue(list, other))
  BY <1>1, <1>3, <1>4, LastOfAppend
<1>7. KeptLast'
  BY <1>1, <1>4, <1>6 DEF KeptLast
<1>8. PathOK'
  <2>1. CASE name = "path"
    <3>1. value \in {Path(b, q) : b \in Paths, q \in Queries}
      BY <2>1 DEF ValuesOf
    <3>2. PICK b \in Paths, q \in Queries : value = Path(b, q)
      BY <3>1
    <3>3. kept'["path"] = Path(b, q)
      BY <1>1, <1>4, <2>1, <3>2 DEF KeptLast
    <3>4. Path(b, q) \in {Path(b, TRUE), Path(b, FALSE)}
      BY NegotiationAssumption
    <3> QED
      BY <3>3, <3>4 DEF PathOK
  <2>2. CASE name # "path"
    <3>1. kept'["path"] = kept["path"]
      BY <1>4, <2>2
    <3> QED
      BY <1>1, <3>1 DEF PathOK
  <2> QED
    BY <2>1, <2>2
<1> QED
  BY <1>5, <1>6, <1>7, <1>8 DEF NegotiationInv

THEOREM NegotiationInvariant == NegotiationSpec => []NegotiationInv
<1>1. NegotiationInv /\ UNCHANGED requestVars => NegotiationInv'
  BY DEF NegotiationInv, requestVars, KeptLast, PathOK
<1> QED
  BY <1>1, NegotiationInitInv, NextFieldInv, PTL DEF NegotiationSpec

(* What the fields were kept as is what the scripts look up in the list.   *)
LEMMA AgreeInv == NegotiationInv => ServersAgree
<1> SUFFICES ASSUME NegotiationInv, Plain PROVE ServersAgree
  BY DEF ServersAgree
<1>1. /\ kept["method"] = LastValue(list, "method")
      /\ kept["protocol"] = LastValue(list, "protocol")
      /\ kept["path"] = LastValue(list, "path")
      /\ kept["offer"] = LastValue(list, "offer")
      /\ kept["origin"] = LastValue(list, "origin")
  BY DEF NegotiationInv, KeptLast, Names, Pseudo
<1>2. PICK base : kept["path"] = Path(base, FALSE)
  <2>1. PICK base : kept["path"] \in {Path(base, TRUE), Path(base, FALSE)}
    BY DEF NegotiationInv, PathOK
  <2>2. kept["path"] # Path(base, TRUE)
    BY DEF Plain, Path
  <2> QED
    BY <2>1, <2>2
<1>3. BaseOf(list) = base /\ kept["path"].base = base /\ ~kept["path"].query
      /\ kept["offer"] # "inside"
  BY <1>1, <1>2 DEF Plain, Path, BaseOf
<1>4. TokioHeaders(kept) = AioquicHeaders(list)
  BY <1>1, <1>3 DEF TokioHeaders, AioquicHeaders
<1>5. TokioIsHealth(kept) <=> LastValue(list, "method") = "GET" /\ BaseOf(list) = "/healthz"
  <2>1. Path(base, FALSE) = Path("/healthz", FALSE) <=> base = "/healthz"
    <3>1. Path(base, FALSE).base = base /\ Path("/healthz", FALSE).base = "/healthz"
      BY DEF Path
    <3> QED
      BY <3>1
  <2> QED
    BY <2>1, <1>1, <1>2, <1>3 DEF TokioIsHealth
<1>6. TokioIsWebTransport(kept) <=>
        /\ LastValue(list, "method") = "CONNECT"
        /\ LastValue(list, "protocol") \in {"webtransport", "webtransport-h3"}
        /\ BaseOf(list) \in BelowWt
  BY <1>1, <1>3 DEF TokioIsWebTransport
<1>7. TokioAnswer(kept).status = AioquicAnswer(list).status
  BY <1>5, <1>6 DEF TokioAnswer, AioquicAnswer, NotFound, Answer
<1>8. ASSUME Accepted(TokioAnswer(kept))
      PROVE  TokioIsWebTransport(kept) /\ ~TokioIsHealth(kept)
  BY <1>8 DEF Accepted, TokioAnswer, TokioIsHealth, NotFound, Answer
<1>9. ASSUME Accepted(TokioAnswer(kept))
      PROVE  TokioAnswer(kept) = AioquicAnswer(list)
  BY <1>4, <1>5, <1>6, <1>8, <1>9 DEF TokioAnswer, AioquicAnswer
<1>10. ASSUME Accepted(TokioAnswer(kept)), base \notin {"/wt/yggdrasil", "/wt/auto"}
       PROVE  QuinnAnswer(list) = TokioAnswer(kept)
  <2>1. TokioIsWebTransport(kept) /\ ~TokioIsHealth(kept)
    BY <1>8, <1>10
  <2>2. QuinnHeaders(base) = TokioHeaders(kept)
    BY <1>3, <1>10 DEF QuinnHeaders, TokioHeaders
  <2> QED
    BY <2>1, <2>2, <1>3, <1>6 DEF QuinnAnswer, TokioAnswer
<1> QED
  BY <1>3, <1>7, <1>9, <1>10 DEF ServersAgree

(* RESULTS.md:376 and README.md:415 call the three servers one matrix:     *)
(* of the requests without a query and without a protocol whose name only  *)
(* contains the one offered, they accept the same, and they answer those   *)
(* for a session alike, to the last header.                                *)
THEOREM AgreementCorrect == NegotiationSpec => []ServersAgree
BY NegotiationInvariant, AgreeInv, PTL

-----------------------------------------------------------------------------
(***************************************************************************)
(* Pem.  An open section is what stands behind the last delimiter, a       *)
(* BEGIN, and the END that closes it has the rank of its section.          *)
(***************************************************************************)

(* pem_sections: the lines read so far, without the one that comes next.   *)
Collected == [label : Labels, body : Seq(Nat)]
Numbers(i, n) == [k \in 1 .. n |-> i + k]

(* An open section is what stands behind the last delimiter, a BEGIN.      *)
OpenAt(i) ==
  /\ lines[i].kind = "BEGIN" /\ label = {lines[i].text}
  /\ \A k \in i + 1 .. Len(lines) : ~Delimiter(k)
  /\ body = Numbers(i, Len(lines) - i)
OpenInv == label # {} => \E i \in DOMAIN lines : OpenAt(i)

(* The END at j has closed the section of its rank.                        *)
EndsUpTo(j) == {e \in Ends : e <= j}
ClosedFrom(i, j) ==
  /\ Section(i, j) /\ lines[i].text = lines[j].text
  /\ sections[Cardinality(EndsUpTo(j))] = [label |-> lines[j].text,
                                           body  |-> Numbers(i, j - i - 1)]
ClosedInv == /\ Len(sections) = Cardinality(Ends)
             /\ \A j \in Ends : \E i \in DOMAIN lines : ClosedFrom(i, j)

PemTypeOK == lines \in Seq(Lines) /\ body \in Seq(Nat) /\ sections \in Seq(Collected)
PemInv == PemTypeOK /\ (~failed => OpenInv /\ ClosedInv)

(* A file has as many lines as it has: its ENDs can be counted.            *)
LEMMA EndsAreFinite ==
  ASSUME PemTypeOK
  PROVE  IsFiniteSet(Ends) /\ Ends \subseteq 1 .. Len(lines) /\ Cardinality(Ends) \in Nat
<1>1. Ends \subseteq 1 .. Len(lines) /\ Len(lines) \in Nat
  BY DEF PemTypeOK, Ends
<1>2. IsFiniteSet(1 .. Len(lines))
  BY <1>1, FS_Interval
<1>3. IsFiniteSet(Ends)
  BY <1>1, <1>2, FS_Subset
<1> QED
  BY <1>1, <1>3, FS_CardinalityType

(* The rank of an END is the number of a section.                          *)
LEMMA RankOfEnd ==
  ASSUME PemTypeOK, NEW j \in Ends
  PROVE  Cardinality(EndsUpTo(j)) \in 1 .. Cardinality(Ends)
<1>1. IsFiniteSet(Ends) /\ Ends \subseteq 1 .. Len(lines) /\ Cardinality(Ends) \in Nat
  BY EndsAreFinite
<1>2. EndsUpTo(j) \subseteq Ends /\ j \in EndsUpTo(j)
  BY <1>1 DEF EndsUpTo
<1>3. IsFiniteSet(EndsUpTo(j)) /\ Cardinality(EndsUpTo(j)) <= Cardinality(Ends)
  BY <1>1, <1>2, FS_Subset
<1>4. Cardinality(EndsUpTo(j)) \in Nat /\ Cardinality(EndsUpTo(j)) # 0
  BY <1>2, <1>3, FS_EmptySet, FS_CardinalityType
<1> QED
  BY <1>1, <1>3, <1>4

(* One more line leaves those before it, and what was told from them.      *)
More(line) == line \in Lines /\ lines' = Append(lines, line)

LEMMA LinesKept ==
  ASSUME PemTypeOK, NEW line, More(line)
  PROVE  /\ lines' \in Seq(Lines) /\ Len(lines') = Len(lines) + 1 /\ Len(lines) \in Nat
         /\ DOMAIN lines = 1 .. Len(lines) /\ DOMAIN lines' = 1 .. Len(lines) + 1
         /\ \A i \in 1 .. Len(lines) : lines'[i] = lines[i]
         /\ lines'[Len(lines) + 1] = line
<1>1. lines \in Seq(Lines) /\ line \in Lines /\ lines' = Append(lines, line)
  BY DEF PemTypeOK, More
<1>2. lines' \in Seq(Lines) /\ Len(lines') = Len(lines) + 1
  BY <1>1, AppendProperties
<1>3. \A i \in 1 .. Len(lines) : lines'[i] = lines[i]
  BY <1>1, AppendProperties
<1>4. lines'[Len(lines) + 1] = line
  BY <1>1, AppendProperties
<1>5. Len(lines) \in Nat /\ DOMAIN lines = 1 .. Len(lines) /\ DOMAIN lines' = 1 .. Len(lines')
  BY <1>1, <1>2
<1> QED
  BY <1>2, <1>3, <1>4, <1>5

LEMMA EndsKept ==
  ASSUME PemTypeOK, NEW line, More(line)
  PROVE  /\ Ends' = IF line.kind = "END" THEN Ends \cup {Len(lines) + 1} ELSE Ends
         /\ \A j \in Ends : EndsUpTo(j)' = EndsUpTo(j)
<1>1. /\ Len(lines) \in Nat
      /\ DOMAIN lines = 1 .. Len(lines) /\ DOMAIN lines' = 1 .. Len(lines) + 1
      /\ \A i \in 1 .. Len(lines) : lines'[i] = lines[i]
      /\ lines'[Len(lines) + 1] = line
  BY LinesKept
<1>2. 1 .. Len(lines) + 1 = (1 .. Len(lines)) \cup {Len(lines) + 1}
  BY <1>1
<1>3. Ends' = IF line.kind = "END" THEN Ends \cup {Len(lines) + 1} ELSE Ends
  BY <1>1, <1>2 DEF Ends
<1>4. \A j \in Ends : j \in Nat /\ ~(Len(lines) + 1 <= j)
  BY <1>1 DEF Ends
<1>5. \A j \in Ends : EndsUpTo(j)' = EndsUpTo(j)
  BY <1>3, <1>4 DEF EndsUpTo
<1> QED
  BY <1>3, <1>5

LEMMA ClosedKept ==
  ASSUME PemTypeOK, ClosedInv, NEW line, More(line), NEW j \in Ends,
         \A n \in 1 .. Len(sections) : sections'[n] = sections[n]
  PROVE  \E i \in DOMAIN lines' : ClosedFrom(i, j)'
<1>1. /\ Len(lines) \in Nat
      /\ DOMAIN lines = 1 .. Len(lines) /\ DOMAIN lines' = 1 .. Len(lines) + 1
      /\ \A i \in 1 .. Len(lines) : lines'[i] = lines[i]
  BY LinesKept
<1>2. PICK i \in DOMAIN lines : ClosedFrom(i, j)
  BY DEF ClosedInv
<1>3. i \in 1 .. Len(lines) /\ j \in 1 .. Len(lines) /\ i \in DOMAIN lines'
  BY <1>1 DEF Ends
<1>4. Section(i, j)'
  <2>1. \A k \in i + 1 .. j - 1 : k \in 1 .. Len(lines)
    BY <1>1, <1>3
  <2> QED
    BY <1>1, <1>2, <1>3, <2>1 DEF ClosedFrom, Section, Delimiter
<1>5. lines'[i].text = lines'[j].text
  BY <1>1, <1>2, <1>3 DEF ClosedFrom
<1> DEFINE n == Cardinality(EndsUpTo(j))
<1>6. n' = n /\ n \in 1 .. Len(sections)
  BY EndsKept, RankOfEnd DEF ClosedInv
<1>7. sections[n] = [label |-> lines[j].text, body |-> Numbers(i, j - i - 1)]
  BY <1>2 DEF ClosedFrom
<1>8. sections'[n'] = [label |-> lines'[j].text, body |-> Numbers(i, j - i - 1)]
  BY <1>1, <1>3, <1>6, <1>7
<1>9. ClosedFrom(i, j)'
  BY <1>4, <1>5, <1>8 DEF ClosedFrom, Numbers
<1> QED
  BY <1>3, <1>9

LEMMA BeginInv ==
  ASSUME PemInv, ~failed, NEW line, More(line), line.kind = "BEGIN", Begin(line.text)
  PROVE  PemInv'
<1>1. /\ lines' \in Seq(Lines) /\ Len(lines') = Len(lines) + 1 /\ Len(lines) \in Nat
      /\ DOMAIN lines' = 1 .. Len(lines) + 1 /\ lines'[Len(lines) + 1] = line
  BY LinesKept DEF PemInv
<1>2. label' = {line.text} /\ body' = <<>> /\ sections' = sections /\ failed' = failed
  BY DEF Begin
<1>3. PemTypeOK'
  BY <1>1, <1>2 DEF PemInv, PemTypeOK
<1>4. OpenInv'
  <2> DEFINE i == Len(lines) + 1
  <2>1. i \in DOMAIN lines' /\ i + 1 .. i = {} /\ i - i = 0 /\ i \in Nat
    BY <1>1
  <2>2. Numbers(i, 0) = <<>>
    BY DEF Numbers
  <2>3. PICK x \in DOMAIN lines' : x = i
    BY <2>1
  <2>4. lines'[x] = line /\ Len(lines') = x /\ x + 1 .. x = {} /\ x - x = 0 /\ Numbers(x, 0) = <<>>
    BY <1>1, <2>1, <2>2, <2>3
  <2>5. OpenAt(x)'
    BY <1>2, <2>4 DEF OpenAt, Numbers
  <2> QED
    BY <2>5 DEF OpenInv
<1>5. ClosedInv'
  <2>1. Ends' = Ends
    BY EndsKept DEF PemInv
  <2>2. \A j \in Ends : \E i \in DOMAIN lines' : ClosedFrom(i, j)'
    BY <1>2, ClosedKept DEF PemInv
  <2> QED
    BY <1>2, <2>1, <2>2 DEF PemInv, ClosedInv
<1> QED
  BY <1>3, <1>4, <1>5 DEF PemInv

LEMMA EndInv ==
  ASSUME PemInv, ~failed, NEW line, More(line), line.kind = "END", End(line.text)
  PROVE  PemInv'
<1>0. line.text \in Labels
  BY DEF More, Lines, Line
<1>1. /\ lines' \in Seq(Lines) /\ Len(lines') = Len(lines) + 1 /\ Len(lines) \in Nat
      /\ DOMAIN lines = 1 .. Len(lines) /\ DOMAIN lines' = 1 .. Len(lines) + 1
      /\ \A i \in 1 .. Len(lines) : lines'[i] = lines[i]
      /\ lines'[Len(lines) + 1] = line
  BY LinesKept DEF PemInv
<1>2. CASE ~(label = {line.text} /\ Decodable(body))
  <2>1. failed' /\ UNCHANGED <<body, sections>>
    BY <1>2 DEF End
  <2> QED
    BY <1>1, <2>1 DEF PemInv, PemTypeOK
<1>3. CASE label = {line.text} /\ Decodable(body)
  <2> DEFINE last == [label |-> line.text, body |-> body]
  <2>1. /\ sections' = Append(sections, last) /\ label' = {} /\ body' = <<>>
        /\ UNCHANGED failed
    BY <1>3 DEF End
  <2>2. last \in Collected /\ sections \in Seq(Collected)
    BY <1>0 DEF PemInv, PemTypeOK, Collected
  <2> HIDE DEF last
  <2>3. /\ sections' \in Seq(Collected) /\ Len(sections') = Len(sections) + 1
    BY <2>1, <2>2, AppendProperties
  <2>4. \A n \in 1 .. Len(sections) : sections'[n] = sections[n]
    BY <2>1, <2>2, AppendProperties
  <2>5. sections'[Len(sections) + 1] = last
    BY <2>1, <2>2, AppendProperties
  <2>6. PemTypeOK'
    BY <1>1, <2>1, <2>3 DEF PemTypeOK
  <2>7. OpenInv'
    BY <2>1 DEF OpenInv
  <2>8. PICK j \in Nat : j = Len(lines) + 1
    BY <1>1
  <2>9. PICK i \in DOMAIN lines : OpenAt(i)
    BY <1>3 DEF PemInv, OpenInv
  <2>10. Ends' = Ends \cup {j} /\ j \notin Ends
    BY <1>1, <2>8, EndsKept DEF PemInv, Ends
  <2>11. Cardinality(Ends') = Cardinality(Ends) + 1
    <3>1. IsFiniteSet(Ends)
      BY EndsAreFinite DEF PemInv
    <3> QED
      BY <2>10, <3>1, FS_AddElement
  <2>12. EndsUpTo(j)' = Ends'
    BY <1>1, <2>8, <2>10 DEF EndsUpTo, Ends
  <2>13. ClosedFrom(i, j)'
    <3>1. i \in 1 .. Len(lines) /\ i < j /\ j - i - 1 = Len(lines) - i
      BY <1>1, <2>8, <2>9
    <3>2. Section(i, j)'
      <4>1. \A k \in i + 1 .. j - 1 : k \in 1 .. Len(lines) /\ k \in i + 1 .. Len(lines)
        BY <1>1, <2>8, <3>1
      <4>2. \A k \in i + 1 .. j - 1 : ~(lines'[k].kind \in {"BEGIN", "END"})
        BY <1>1, <2>9, <4>1 DEF OpenAt, Delimiter
      <4>3. lines'[i].kind = "BEGIN" /\ lines'[j].kind = "END"
        BY <1>1, <2>8, <2>9, <3>1 DEF OpenAt
      <4> QED
        BY <3>1, <4>2, <4>3 DEF Section, Delimiter
    <3>3. lines'[i].text = lines'[j].text
      BY <1>1, <1>3, <2>8, <2>9, <3>1 DEF OpenAt
    <3>4. sections'[Cardinality(EndsUpTo(j)')] = last
      <4>1. Len(sections) = Cardinality(Ends)
        BY DEF PemInv, ClosedInv
      <4> QED
        BY <2>5, <2>11, <2>12, <4>1
    <3>5. last = [label |-> lines'[j].text, body |-> Numbers(i, j - i - 1)]
      BY <1>1, <2>8, <2>9, <3>1 DEF last, OpenAt
    <3> QED
      BY <3>2, <3>3, <3>4, <3>5 DEF ClosedFrom, Numbers
  <2>14. \A e \in Ends : \E x \in DOMAIN lines' : ClosedFrom(x, e)'
    BY <2>4, ClosedKept DEF PemInv
  <2>15. i \in DOMAIN lines'
    BY <1>1, <2>9
  <2>16. ClosedInv'
    BY <2>3, <2>10, <2>11, <2>13, <2>14, <2>15 DEF PemInv, ClosedInv
  <2> QED
    BY <2>6, <2>7, <2>16 DEF PemInv
<1> QED
  BY <1>2, <1>3

LEMMA TextInv ==
  ASSUME PemInv, ~failed, NEW line, More(line), line.kind \notin {"BEGIN", "END"}, Text
  PROVE  PemInv'
<1>1. /\ lines' \in Seq(Lines) /\ Len(lines') = Len(lines) + 1 /\ Len(lines) \in Nat
      /\ DOMAIN lines = 1 .. Len(lines) /\ DOMAIN lines' = 1 .. Len(lines) + 1
      /\ \A i \in 1 .. Len(lines) : lines'[i] = lines[i]
      /\ lines'[Len(lines) + 1] = line
  BY LinesKept DEF PemInv
<1>2. /\ body' = IF label = {} THEN body ELSE Append(body, Len(lines'))
      /\ UNCHANGED <<label, sections, failed>>
  BY DEF Text
<1>3. body \in Seq(Nat) /\ Len(lines') \in Nat
  BY <1>1 DEF PemInv, PemTypeOK
<1>4. PemTypeOK'
  <2>1. body' \in Seq(Nat)
    BY <1>2, <1>3, AppendProperties
  <2> QED
    BY <1>1, <1>2, <2>1 DEF PemInv, PemTypeOK
<1>5. OpenInv'
  <2> SUFFICES ASSUME label # {} PROVE \E i \in DOMAIN lines' : OpenAt(i)'
    BY <1>2 DEF OpenInv
  <2>1. PICK i \in DOMAIN lines : OpenAt(i)
    BY DEF PemInv, OpenInv
  <2>2. PICK l \in Nat : l = Len(lines)
    BY <1>1
  <2>3. i \in 1 .. l /\ i \in Nat /\ l - i \in Nat
    BY <1>1, <2>1, <2>2
  <2>4. body = Numbers(i, l - i) /\ body' = Append(body, l + 1)
    BY <1>1, <1>2, <2>1, <2>2 DEF OpenAt
  <2>5. Append(Numbers(i, l - i), l + 1) = Numbers(i, (l + 1) - i)
    <3> DEFINE a == Numbers(i, l - i)
               b == Numbers(i, (l + 1) - i)
    <3>1. a \in Seq(Nat) /\ Len(a) = l - i /\ \A k \in 1 .. l - i : a[k] = i + k
      <4>1. a \in Seq(Nat)
        BY <1>3, <2>4
      <4> QED
        BY <2>3, <4>1 DEF Numbers
    <3>2. (l + 1) - i \in Nat /\ \A k \in 1 .. (l + 1) - i : i + k \in Nat
      BY <2>3
    <3>3. b \in Seq(Nat) /\ Len(b) = (l + 1) - i /\ \A k \in 1 .. (l + 1) - i : b[k] = i + k
      <4>1. b \in Seq(Nat)
        BY <3>2, IsASeq DEF Numbers
      <4> QED
        BY <3>2, <4>1 DEF Numbers
    <3> HIDE DEF a, b
    <3>4. l + 1 \in Nat
      BY <2>2
    <3> DEFINE c == Append(a, l + 1)
    <3>5. c \in Seq(Nat) /\ Len(c) = Len(a) + 1
      BY <3>1, <3>4, AppendProperties
    <3>6. \A k \in 1 .. Len(a) : c[k] = a[k]
      BY <3>1, <3>4, AppendProperties
    <3>7. c[Len(a) + 1] = l + 1
      BY <3>1, <3>4, AppendProperties
    <3> HIDE DEF c
    <3>8. Len(c) = (l + 1) - i
      BY <2>3, <3>1, <3>5
    <3>9. ASSUME NEW k \in 1 .. (l + 1) - i PROVE c[k] = b[k]
      <4>1. CASE k = (l + 1) - i
        <5>1. Len(a) = l - i
          BY <3>1
        <5>2. k = Len(a) + 1 /\ i + k = l + 1
          BY <2>2, <2>3, <4>1, <5>1
        <5> QED
          BY <3>3, <3>7, <5>2
      <4>2. CASE k # (l + 1) - i
        <5>1. k \in 1 .. l - i /\ k \in 1 .. Len(a)
          BY <2>3, <3>1, <4>2
        <5> QED
          BY <3>1, <3>3, <3>6, <5>1
      <4> QED
        BY <4>1, <4>2
    <3>10. c = b
      BY <3>3, <3>5, <3>8, <3>9, SeqEqual
    <3> QED
      BY <3>10 DEF a, b, c
  <2>6. \A k \in i + 1 .. l + 1 : ~(lines'[k].kind \in {"BEGIN", "END"})
    <3> SUFFICES ASSUME NEW k \in i + 1 .. l + 1 PROVE ~(lines'[k].kind \in {"BEGIN", "END"})
      OBVIOUS
    <3>1. CASE k = l + 1
      BY <1>1, <2>2, <3>1
    <3>2. CASE k # l + 1
      <4>1. k \in i + 1 .. l /\ k \in 1 .. l
        BY <2>2, <2>3, <3>2
      <4> QED
        BY <1>1, <2>1, <2>2, <4>1 DEF OpenAt, Delimiter
    <3> QED
      BY <3>1, <3>2
  <2>7. lines'[i].kind = "BEGIN" /\ label = {lines'[i].text}
    BY <1>1, <2>1, <2>2, <2>3 DEF OpenAt
  <2>8. body' = Numbers(i, (l + 1) - i) /\ Len(lines') = l + 1
    BY <1>1, <2>2, <2>4, <2>5
  <2>9. OpenAt(i)'
    BY <1>2, <2>6, <2>7, <2>8 DEF OpenAt, Delimiter, Numbers
  <2> QED
    BY <1>1, <2>1, <2>9
<1>6. ClosedInv'
  <2>1. Ends' = Ends
    BY EndsKept DEF PemInv
  <2>2. \A j \in Ends : \E i \in DOMAIN lines' : ClosedFrom(i, j)'
    BY <1>2, ClosedKept DEF PemInv
  <2> QED
    BY <1>2, <2>1, <2>2 DEF PemInv, ClosedInv
<1> QED
  BY <1>2, <1>4, <1>5, <1>6 DEF PemInv

LEMMA PemInitInv == PemInit => PemInv
<1> SUFFICES ASSUME PemInit PROVE PemInv
  OBVIOUS
<1>1. lines = <<>> /\ label = {} /\ body = <<>> /\ sections = <<>>
  BY DEF PemInit
<1>2. PemTypeOK /\ OpenInv
  BY <1>1 DEF PemTypeOK, OpenInv
<1>3. Ends = {}
  BY <1>1 DEF Ends
<1>4. ClosedInv
  BY <1>1, <1>3, FS_EmptySet DEF ClosedInv
<1> QED
  BY <1>2, <1>4 DEF PemInv

LEMMA PemNextInv == PemInv /\ [NextLine]_pemVars => PemInv'
<1> SUFFICES ASSUME PemInv, [NextLine]_pemVars PROVE PemInv'
  OBVIOUS
<1>1. CASE NextLine
  <2>1. PICK line \in Lines :
          /\ lines' = Append(lines, line)
          /\ CASE line.kind = "BEGIN" -> Begin(line.text)
               [] line.kind = "END" -> End(line.text)
               [] OTHER -> Text
    BY <1>1 DEF NextLine
  <2>2. ~failed /\ More(line)
    BY <1>1, <2>1 DEF NextLine, More
  <2>3. CASE line.kind = "BEGIN"
    BY <2>1, <2>2, <2>3, BeginInv
  <2>4. CASE line.kind = "END"
    BY <2>1, <2>2, <2>4, EndInv
  <2>5. CASE line.kind \notin {"BEGIN", "END"}
    BY <2>1, <2>2, <2>5, TextInv
  <2> QED
    BY <2>3, <2>4, <2>5
<1>2. CASE UNCHANGED pemVars
  <2>1. UNCHANGED <<lines, label, body, sections, failed>>
    BY <1>2 DEF pemVars
  <2>2. PemTypeOK' = PemTypeOK /\ OpenInv' = OpenInv
    BY <2>1 DEF PemTypeOK, OpenInv, OpenAt, Delimiter
  <2>3. ClosedInv' = ClosedInv
    <3>1. Ends' = Ends
      BY <2>1 DEF Ends
    <3>2. \A j : EndsUpTo(j)' = EndsUpTo(j)
      BY <3>1 DEF EndsUpTo
    <3>3. \A i, j : ClosedFrom(i, j)' = ClosedFrom(i, j)
      BY <2>1, <3>2 DEF ClosedFrom, Section, Delimiter
    <3> QED
      BY <2>1, <3>1, <3>3 DEF ClosedInv
  <2> QED
    BY <2>1, <2>2, <2>3 DEF PemInv
<1> QED
  BY <1>1, <1>2

(* Of a file of any length and any labels pem_sections loses no section    *)
(* that is ended and joins no two: what it has collected are, in order,    *)
(* the lines between each END and the BEGIN it ends.                       *)
THEOREM PemSectionsAreWhole == PemSpec => []SectionsAreWhole
<1>1. PemInv => SectionsAreWhole
  BY DEF PemInv, ClosedInv, ClosedFrom, EndsUpTo, Numbers, SectionsAreWhole
<1> QED
  BY <1>1, PemInitInv, PemNextInv, PTL DEF PemSpec
=============================================================================
