---------------------------- MODULE ResultOverview ----------------------------
(***************************************************************************)
(* What the anonymous browser overview promises: one latest snapshot per   *)
(* browser family and a bounded log of material changes.  A submission is  *)
(* published in one indivisible step, on top of everything published       *)
(* before it, and nothing else ever changes the overview.                  *)
(*                                                                         *)
(* ResultStore implements this specification with a write queue, a         *)
(* temporary file and a rename, on a machine that may crash.               *)
(***************************************************************************)
EXTENDS Integers, Sequences

CONSTANTS
  Families,   \* browser families: the keys of the overview
  Contents,   \* what diffSnapshots compares in a snapshot
  None,       \* "no content": the family has not been published yet
  Limit,      \* the most change events the log may ever hold
  Times       \* values of the receipt clock

(* What an implementation owes in its choice of the constants. *)
OverviewAssumption ==
  /\ None \notin Contents
  /\ Limit \in Nat \ {0}
  /\ Times \subseteq Nat
  /\ 0 \in Times

Snapshot   == [content : Contents \cup {None}, at : Times]
NoSnapshot == [content |-> None, at |-> 0]
Event      == [family : Families, from : Contents \cup {None}, to : Contents,
               at : Times]

VARIABLES
  latest,     \* latest[f]: the snapshot shown for family f
  changes     \* the log of material changes, oldest first

vars == <<latest, changes>>

TypeOK ==
  /\ latest \in [Families -> Snapshot]
  /\ changes \in Seq(Event)

-----------------------------------------------------------------------------
Init ==
  /\ latest = [f \in Families |-> NoSnapshot]
  /\ changes = <<>>

(* The log may forget its oldest events, never a younger one.              *)
Suffix(n) == SubSeq(changes, n + 1, Len(changes))

(* A submission of family f with content c, received at t, is published:   *)
(* a change event is logged exactly when it differs from the previous one. *)
Publish(f, c, t) ==
  LET old   == latest[f].content
      event == [family |-> f, from |-> old, to |-> c, at |-> t]
  IN  /\ \A g \in Families : latest[g].at <= t
      /\ latest' = [latest EXCEPT ![f] = [content |-> c, at |-> t]]
      /\ \E n \in 0 .. Len(changes) :
            changes' = IF old = c THEN Suffix(n) ELSE Append(Suffix(n), event)
      /\ Len(changes') <= Limit

Next == \E f \in Families, c \in Contents, t \in Times : Publish(f, c, t)

Spec == Init /\ [][Next]_vars

-----------------------------------------------------------------------------
(* The events of the log that concern one family. *)
EventsOf(f) == {i \in DOMAIN changes : changes[i].family = f}

(* Event i of family f is its youngest, or j is the next one after it. *)
Youngest(f, i) == \A k \in EventsOf(f) : k <= i
Follows(f, i, j) == i < j /\ \A k \in EventsOf(f) : k <= i \/ j <= k

(* Replaying the log explains the overview: consecutive events of a family *)
(* chain (each starts from what the one before it recorded) and the last   *)
(* one records the content of the family's latest snapshot.                *)
LogExplainsLatest ==
  \A f \in Families : \A i \in EventsOf(f) :
    \/ Youngest(f, i) /\ latest[f].content = changes[i].to
    \/ \E j \in EventsOf(f) : Follows(f, i, j) /\ changes[j].from = changes[i].to

(* An event records a difference: a rerun with identical behaviour adds no *)
(* event.                                                                  *)
EventsAreMaterial == \A i \in DOMAIN changes : changes[i].from # changes[i].to

(* The log is in order of receipt and never ahead of the snapshots. *)
LogInReceiptOrder ==
  /\ \A i, j \in DOMAIN changes : i <= j => changes[i].at <= changes[j].at
  /\ \A i \in DOMAIN changes : changes[i].at <= latest[changes[i].family].at

LogBounded == Len(changes) <= Limit
=============================================================================
