------------------------- MODULE ResultOverviewProofs ------------------------
(***************************************************************************)
(* Invariants of the overview, for any families, contents, times and       *)
(* limit.  Each step appends at most one event to a suffix of the log, so  *)
(* the proofs follow an index of the new log back to the old one.          *)
(***************************************************************************)
EXTENDS ResultOverview, TLAPS

(* A suffix of a sequence: its length and its elements. *)
LEMMA SuffixElements ==
  ASSUME NEW S, NEW s \in Seq(S), NEW n \in 0 .. Len(s)
  PROVE  LET t == SubSeq(s, n + 1, Len(s)) IN
         /\ t \in Seq(S)
         /\ Len(t) = Len(s) - n
         /\ \A i \in 1 .. Len(t) : t[i] = s[i + n]
OBVIOUS

(* What a step of the overview does to the log, element by element. *)
LEMMA PublishElements ==
  ASSUME OverviewAssumption, TypeOK,
         NEW f \in Families, NEW c \in Contents, NEW t \in Times,
         Publish(f, c, t)
  PROVE  \E n \in 0 .. Len(changes) :
           LET old == latest[f].content
               kept == Len(changes) - n
           IN /\ changes' \in Seq(Event)
              /\ Len(changes') = IF old = c THEN kept ELSE kept + 1
              /\ \A i \in 1 .. kept : changes'[i] = changes[i + n]
              /\ old # c => changes'[kept + 1] =
                   [family |-> f, from |-> old, to |-> c, at |-> t]
<1> DEFINE old   == latest[f].content
           event == [family |-> f, from |-> old, to |-> c, at |-> t]
<1>1. PICK n \in 0 .. Len(changes) :
        changes' = IF old = c THEN Suffix(n) ELSE Append(Suffix(n), event)
  BY DEF Publish
<1>2. /\ Suffix(n) \in Seq(Event)
      /\ Len(Suffix(n)) = Len(changes) - n
      /\ \A i \in 1 .. Len(Suffix(n)) : Suffix(n)[i] = changes[i + n]
  BY SuffixElements DEF TypeOK, Suffix
<1>3. event \in Event
  BY DEF TypeOK, Event, Snapshot
<1>4. CASE old = c
  BY <1>1, <1>2, <1>4
<1>5. CASE old # c
  <2> HIDE DEF event
  <2>1. changes' = Append(Suffix(n), event)
    BY <1>1, <1>5
  <2>2. /\ changes' \in Seq(Event)
        /\ Len(changes') = Len(changes) - n + 1
        /\ \A i \in 1 .. Len(changes) - n : changes'[i] = changes[i + n]
        /\ changes'[Len(changes) - n + 1] = event
    BY <2>1, <1>2, <1>3
  <2> QED BY <2>2, <1>5 DEF event
<1> QED BY <1>4, <1>5

LEMMA InitTypeOK == OverviewAssumption /\ Init => TypeOK
BY DEF OverviewAssumption, Init, TypeOK, NoSnapshot, Snapshot

LEMMA PublishTypeOK ==
  ASSUME OverviewAssumption, TypeOK,
         NEW f \in Families, NEW c \in Contents, NEW t \in Times,
         Publish(f, c, t)
  PROVE  TypeOK'
<1>1. changes' \in Seq(Event)
  BY PublishElements
<1>2. latest' \in [Families -> Snapshot]
  BY DEF TypeOK, Publish, Snapshot
<1> QED BY <1>1, <1>2 DEF TypeOK

(* The types of the overview. *)
THEOREM OverviewTypeCorrect ==
  ASSUME OverviewAssumption PROVE Spec => []TypeOK
<1>1. TypeOK /\ [Next]_vars => TypeOK'
  BY PublishTypeOK DEF Next, vars, TypeOK
<1> QED BY InitTypeOK, <1>1, PTL DEF Spec

-----------------------------------------------------------------------------
(* The log invariants, one lemma each for the step that can disturb them.  *)
LogInv == LogExplainsLatest /\ EventsAreMaterial /\ LogInReceiptOrder /\ LogBounded

LEMMA PublishKeepsMaterial ==
  ASSUME OverviewAssumption, TypeOK, EventsAreMaterial,
         NEW f \in Families, NEW c \in Contents, NEW t \in Times, Publish(f, c, t)
  PROVE  EventsAreMaterial'
<1> DEFINE old == latest[f].content
<1>1. PICK n \in 0 .. Len(changes) :
        /\ changes' \in Seq(Event)
        /\ Len(changes') = IF old = c THEN Len(changes) - n ELSE Len(changes) - n + 1
        /\ \A i \in 1 .. Len(changes) - n : changes'[i] = changes[i + n]
        /\ old # c => changes'[Len(changes) - n + 1] =
             [family |-> f, from |-> old, to |-> c, at |-> t]
  BY PublishElements
<1> DEFINE kept == Len(changes) - n
<1>2. SUFFICES ASSUME NEW i \in DOMAIN changes'
               PROVE  changes'[i].from # changes'[i].to
  BY DEF EventsAreMaterial
<1>3. CASE i \in 1 .. kept
  <2>1. i + n \in DOMAIN changes
    BY <1>3 DEF TypeOK
  <2> QED BY <2>1, <1>1, <1>3 DEF EventsAreMaterial
<1>4. CASE i = kept + 1
  <2>1. old # c
    BY <1>4, <1>2, <1>1
  <2> QED BY <2>1, <1>4, <1>1
<1> QED BY <1>1, <1>2, <1>3, <1>4

LEMMA PublishKeepsOrder ==
  ASSUME OverviewAssumption, TypeOK, LogInReceiptOrder,
         NEW f \in Families, NEW c \in Contents, NEW t \in Times, Publish(f, c, t)
  PROVE  LogInReceiptOrder'
<1> DEFINE old == latest[f].content
<1>1. PICK n \in 0 .. Len(changes) :
        /\ changes' \in Seq(Event)
        /\ Len(changes') = IF old = c THEN Len(changes) - n ELSE Len(changes) - n + 1
        /\ \A i \in 1 .. Len(changes) - n : changes'[i] = changes[i + n]
        /\ old # c => changes'[Len(changes) - n + 1] =
             [family |-> f, from |-> old, to |-> c, at |-> t]
  BY PublishElements
<1> DEFINE kept == Len(changes) - n
<1>2. \A g \in Families : latest[g].at \in Nat /\ latest[g].at <= t
  BY DEF OverviewAssumption, Publish, TypeOK, Snapshot
<1>3. \A g \in Families : latest[g].at <= latest'[g].at /\ latest'[g].at \in Nat
  BY <1>2 DEF OverviewAssumption, Publish, TypeOK, Snapshot
<1>4. latest'[f].at = t
  BY DEF Publish, TypeOK
<1>5. \A i \in DOMAIN changes :
        /\ changes[i].family \in Families
        /\ changes[i].at \in Nat
        /\ changes[i].at <= t
        /\ changes[i].at <= latest[changes[i].family].at
  <2>1. SUFFICES ASSUME NEW i \in DOMAIN changes
                 PROVE  /\ changes[i].family \in Families
                        /\ changes[i].at \in Nat
                        /\ changes[i].at <= t
                        /\ changes[i].at <= latest[changes[i].family].at
    OBVIOUS
  <2>2. changes[i] \in Event
    BY DEF TypeOK
  <2>3. changes[i].family \in Families /\ changes[i].at \in Nat
    BY <2>2 DEF OverviewAssumption, Event
  <2>4. changes[i].at <= latest[changes[i].family].at
    BY DEF LogInReceiptOrder
  <2>5. t \in Nat
    BY DEF OverviewAssumption
  <2> QED BY <2>3, <2>4, <2>5, <1>2
<1>6. \A i \in 1 .. kept : i + n \in DOMAIN changes
  BY DEF TypeOK
<1>7. \A i, j \in DOMAIN changes' : i <= j => changes'[i].at <= changes'[j].at
  <2>1. SUFFICES ASSUME NEW i \in DOMAIN changes', NEW j \in DOMAIN changes', i <= j
                 PROVE  changes'[i].at <= changes'[j].at
    OBVIOUS
  <2>2. CASE j \in 1 .. kept
    <3>1. /\ i \in 1 .. kept
          /\ i + n <= j + n
      BY <2>1, <2>2, <1>1
    <3>2. changes[i + n].at <= changes[j + n].at
      BY <3>1, <2>2, <1>6 DEF LogInReceiptOrder
    <3> QED BY <3>1, <3>2, <2>2, <1>1
  <2>3. CASE j = kept + 1 /\ i \in 1 .. kept
    <3>1. changes'[j].at = t
      BY <2>3, <1>1, <2>1
    <3> QED BY <3>1, <2>3, <1>1, <1>5, <1>6
  <2>4. CASE j = kept + 1 /\ i = kept + 1
    BY <2>4, <1>1, <2>1 DEF OverviewAssumption
  <2> QED BY <2>1, <2>2, <2>3, <2>4, <1>1
<1>8. \A i \in DOMAIN changes' : changes'[i].at <= latest'[changes'[i].family].at
  <2>1. SUFFICES ASSUME NEW i \in DOMAIN changes'
                 PROVE  changes'[i].at <= latest'[changes'[i].family].at
    OBVIOUS
  <2>2. CASE i \in 1 .. kept
    <3>1. /\ changes'[i] = changes[i + n]
          /\ i + n \in DOMAIN changes
      BY <2>2, <1>1, <1>6
    <3>2. latest[changes[i + n].family].at <= latest'[changes[i + n].family].at
      BY <3>1, <1>3, <1>5
    <3> QED BY <3>1, <3>2, <1>2, <1>3, <1>5
  <2>3. CASE i = kept + 1
    <3>1. t <= t
      BY DEF OverviewAssumption
    <3>2. changes'[i].family = f /\ changes'[i].at = t
      BY <2>3, <2>1, <1>1
    <3> QED BY <3>1, <3>2, <1>4
  <2> QED BY <2>1, <2>2, <2>3, <1>1
<1> QED BY <1>7, <1>8 DEF LogInReceiptOrder

LEMMA PublishKeepsExplanation ==
  ASSUME OverviewAssumption, TypeOK, LogExplainsLatest,
         NEW f \in Families, NEW c \in Contents, NEW t \in Times, Publish(f, c, t)
  PROVE  LogExplainsLatest'
<1> DEFINE old == latest[f].content
<1>1. PICK n \in 0 .. Len(changes) :
        /\ changes' \in Seq(Event)
        /\ Len(changes') = IF old = c THEN Len(changes) - n ELSE Len(changes) - n + 1
        /\ \A i \in 1 .. Len(changes) - n : changes'[i] = changes[i + n]
        /\ old # c => changes'[Len(changes) - n + 1] =
             [family |-> f, from |-> old, to |-> c, at |-> t]
  BY PublishElements
<1> DEFINE kept == Len(changes) - n
           Mine(g) == {i \in DOMAIN changes' : changes'[i].family = g}
<1>2. latest' = [latest EXCEPT ![f] = [content |-> c, at |-> t]]
  BY DEF Publish
<1>3. SUFFICES ASSUME NEW g \in Families, NEW i \in Mine(g)
               PROVE  \/ /\ \A k \in Mine(g) : k <= i
                         /\ latest'[g].content = changes'[i].to
                      \/ \E j \in Mine(g) :
                           /\ i < j
                           /\ \A k \in Mine(g) : k <= i \/ j <= k
                           /\ changes'[j].from = changes'[i].to
  BY DEF LogExplainsLatest, EventsOf, Youngest, Follows
<1>4. CASE i = kept + 1
  <2>1. old # c /\ g = f /\ changes'[i].to = c
    BY <1>4, <1>1
  <2>2. \A k \in Mine(g) : k <= i
    BY <1>4, <1>1
  <2> QED BY <2>1, <2>2, <1>2 DEF TypeOK
<1>5. CASE i \in 1 .. kept
  <2>1. /\ i + n \in EventsOf(g)
        /\ changes'[i] = changes[i + n]
    BY <1>5, <1>1 DEF EventsOf, TypeOK
  <2>2. \A k \in 1 .. kept : k \in Mine(g) => k + n \in EventsOf(g)
    <3>1. SUFFICES ASSUME NEW k \in 1 .. kept, k \in Mine(g)
                   PROVE  k + n \in EventsOf(g)
      OBVIOUS
    <3>2. changes'[k] = changes[k + n]
      BY <1>1
    <3>3. k + n \in DOMAIN changes
      BY DEF TypeOK
    <3> QED BY <3>1, <3>2, <3>3 DEF EventsOf
  <2>3. CASE Youngest(g, i + n) /\ latest[g].content = changes[i + n].to
    <3>1. \A k \in 1 .. kept : k \in Mine(g) => k <= i
      <4>1. SUFFICES ASSUME NEW k \in 1 .. kept, k \in Mine(g) PROVE k <= i
        OBVIOUS
      <4>2. k + n \in EventsOf(g)
        BY <2>2, <4>1
      <4>3. k + n <= i + n
        BY <4>2, <2>3 DEF Youngest
      <4> QED BY <4>3, <1>5
    <3>2. CASE g = f /\ old # c
      <4>1. kept + 1 \in Mine(g)
        BY <1>1, <3>2
      <4>2. changes'[kept + 1].from = changes'[i].to
        BY <1>1, <2>1, <2>3, <3>2
      <4>3. \A k \in Mine(g) : k <= i \/ kept + 1 <= k
        BY <3>1, <1>1
      <4> QED BY <4>1, <4>2, <4>3, <1>5
    <3>3. CASE ~ (g = f /\ old # c)
      <4>1. latest'[g].content = latest[g].content
        BY <1>2, <3>3 DEF TypeOK
      <4>2. \A k \in Mine(g) : k \in 1 .. kept
        BY <1>1, <3>3
      <4> QED BY <4>1, <4>2, <3>1, <2>1, <2>3
    <3> QED BY <3>2, <3>3
  <2>4. CASE \E j \in EventsOf(g) :
               Follows(g, i + n, j) /\ changes[j].from = changes[i + n].to
    <3>1. PICK j \in EventsOf(g) :
            Follows(g, i + n, j) /\ changes[j].from = changes[i + n].to
      BY <2>4
    <3>2. /\ j \in 1 .. Len(changes)
          /\ i + n < j
          /\ j - n \in 1 .. kept
          /\ (j - n) + n = j
      BY <3>1, <1>5 DEF Follows, EventsOf, TypeOK
    <3>3. /\ changes'[j - n] = changes[j]
          /\ j - n \in DOMAIN changes'
      BY <3>2, <1>1
    <3>4. j - n \in Mine(g)
      BY <3>3, <3>1 DEF EventsOf
    <3>5. \A k \in Mine(g) : k <= i \/ j - n <= k
      <4>1. SUFFICES ASSUME NEW k \in Mine(g) PROVE k <= i \/ j - n <= k
        OBVIOUS
      <4>2. CASE k \in 1 .. kept
        <5>1. k + n <= i + n \/ j <= k + n
          BY <4>2, <4>1, <2>2, <3>1 DEF Follows
        <5> QED BY <5>1, <4>2, <1>5, <3>2
      <4>3. CASE k = kept + 1
        BY <4>3, <3>2
      <4> QED BY <4>1, <4>2, <4>3, <1>1
    <3> QED BY <3>1, <3>2, <3>3, <3>4, <3>5, <2>1, <1>5
  <2> QED BY <2>1, <2>3, <2>4 DEF LogExplainsLatest
<1> QED BY <1>3, <1>4, <1>5, <1>1

LEMMA InitLogInv == OverviewAssumption /\ Init => LogInv
BY DEF OverviewAssumption, Init, LogInv, LogExplainsLatest, EventsAreMaterial,
       LogInReceiptOrder, LogBounded, EventsOf

LEMMA NextLogInv == OverviewAssumption /\ TypeOK /\ LogInv /\ [Next]_vars => LogInv'
<1>1. ASSUME OverviewAssumption, TypeOK, LogInv,
             NEW f \in Families, NEW c \in Contents, NEW t \in Times, Publish(f, c, t)
      PROVE  LogInv'
  <2>1. LogBounded'
    BY <1>1 DEF Publish, LogBounded
  <2> QED BY <1>1, <2>1, PublishKeepsMaterial, PublishKeepsOrder,
             PublishKeepsExplanation DEF LogInv
<1>2. ASSUME TypeOK, LogInv, UNCHANGED vars
      PROVE  LogInv'
  BY <1>2 DEF vars, LogInv, LogExplainsLatest, EventsAreMaterial,
              LogInReceiptOrder, LogBounded, EventsOf, Youngest, Follows
<1> QED BY <1>1, <1>2 DEF Next

(* The log explains the latest snapshots, holds only material changes, in  *)
(* order of receipt, and never outgrows its limit.                         *)
THEOREM OverviewLogCorrect ==
  ASSUME OverviewAssumption PROVE Spec => []LogInv
<1>1. TypeOK /\ [Next]_vars => TypeOK'
  BY PublishTypeOK DEF Next, vars, TypeOK
<1> QED BY InitTypeOK, InitLogInv, NextLogInv, <1>1, PTL DEF Spec
=============================================================================
