--------------------------- MODULE PageServerProofs ---------------------------
(***************************************************************************)
(* Invariants of the result store and of the page server around it, and    *)
(* the refinement of ResultOverview, for any calls, families, contents,    *)
(* configurations, windows and bounds.                                     *)
(***************************************************************************)
EXTENDS PageServer, SequenceTheorems, TLAPS

(***************************************************************************)
(* The store.  Its inductive invariant says what is true between the steps *)
(* of an operation: the chain holds distinct, pending calls, memory        *)
(* is what load() would make of the file except for the one rename that is *)
(* yet to be assigned, and the next state on its way to the file was built *)
(* from that memory.                                                       *)
(***************************************************************************)

InFlight == {"opening", "writing", "renaming"}

(* The calls of the chain are pending and distinct. *)
ChainInv ==
  /\ \A i \in DOMAIN queue : /\ outcome[queue[i]] = "pending"
                             /\ input[queue[i]] \in Input
  /\ \A i, j \in DOMAIN queue : queue[i] = queue[j] => i = j
  /\ queue = <<>> => step = "idle"
  /\ ~ up => queue = <<>>

(* The next state was built from the state in memory. *)
NextInv ==
  /\ step \in InFlight \cup {"renamed"} =>
       /\ Acceptable(input[Head(queue)])
       /\ Len(next.changes) <= config.maxChanges
  /\ step \in InFlight =>
       \E at \in 0 .. now :
         /\ \A f \in Families : file.state.latest[f].at <= at
         /\ next = NextState(input[Head(queue)], at)
  /\ step = "renaming" => temporary = Whole(next)

FileInv ==
  /\ FileNeverTorn
  /\ ServedIsDurable
  /\ \A f \in Families : file.state.latest[f].at <= now

(* A committed call has resolved, or died, or is about to be assigned. *)
CommitInv ==
  /\ \A i \in DOMAIN commits :
       /\ input[commits[i]] \in Input
       /\ \/ outcome[commits[i]] \in {"resolved", "lost"}
          \/ /\ outcome[commits[i]] = "pending"
             /\ step = "renamed"
             /\ commits[i] = Head(queue)
  /\ \A c \in Calls : outcome[c] = "resolved" => Committed(c)
  /\ step = "renamed" => Committed(Head(queue))

IInv ==
  /\ TypeOK /\ ChainInv /\ NextInv /\ FileInv /\ CommitInv
  /\ FileHoldsLastCommit /\ GoodCallNotRefused

-----------------------------------------------------------------------------
(* The tail of a log that slice(-n) keeps. *)
LEMMA LastOfElements ==
  ASSUME NEW S, NEW s \in Seq(S), NEW n \in Nat \ {0}
  PROVE  /\ LastOf(s, n) \in Seq(S)
         /\ Len(LastOf(s, n)) <= n
         /\ \E m \in 0 .. Len(s) : LastOf(s, n) = SubSeq(s, m + 1, Len(s))
<1>1. CASE Len(s) <= n
  <2>1. LastOf(s, n) = s
    BY <1>1 DEF LastOf
  <2>2. s = SubSeq(s, 0 + 1, Len(s))
    OBVIOUS
  <2> QED BY <1>1, <2>1, <2>2
<1>2. CASE ~ (Len(s) <= n)
  <2> DEFINE m == Len(s) - n
  <2>1. LastOf(s, n) = SubSeq(s, m + 1, Len(s))
    BY <1>2 DEF LastOf
  <2>2. m \in 0 .. Len(s)
    BY <1>2
  <2>3. LastOf(s, n) \in Seq(S)
    BY <2>1, <2>2
  <2>4. Len(LastOf(s, n)) = n
    BY <2>1, <2>2, <1>2
  <2> HIDE DEF m
  <2>5. \E k \in 0 .. Len(s) : LastOf(s, n) = SubSeq(s, k + 1, Len(s))
    BY <2>1, <2>2
  <2> QED BY <2>3, <2>4, <2>5
<1> QED BY <1>1, <1>2

(* Keeping the last n of a log whose last event is new keeps that event,   *)
(* behind a suffix of what was there.                                      *)
LEMMA LastOfAppend ==
  ASSUME NEW S, NEW s \in Seq(S), NEW e \in S, NEW n \in Nat \ {0}
  PROVE  \E m \in 0 .. Len(s) :
           LastOf(Append(s, e), n) = Append(SubSeq(s, m + 1, Len(s)), e)
<1>1. CASE Len(Append(s, e)) <= n
  <2>1. LastOf(Append(s, e), n) = Append(s, e)
    BY <1>1 DEF LastOf
  <2>2. s = SubSeq(s, 0 + 1, Len(s))
    OBVIOUS
  <2>3. 0 \in 0 .. Len(s)
    OBVIOUS
  <2>4. LastOf(Append(s, e), n) = Append(SubSeq(s, 0 + 1, Len(s)), e)
    BY <2>1, <2>2
  <2> QED BY <2>3, <2>4
<1>2. CASE ~ (Len(Append(s, e)) <= n)
  <2> DEFINE m == Len(s) + 1 - n
             t == SubSeq(s, m + 1, Len(s))
  <2>1. m \in 0 .. Len(s)
    BY <1>2
  <2>2. LastOf(Append(s, e), n) = SubSeq(Append(s, e), m + 1, Len(s) + 1)
    BY <1>2 DEF LastOf
  <2>3. t \in Seq(S) /\ Len(t) = Len(s) - m /\ \A i \in 1 .. Len(t) : t[i] = s[i + m]
    BY <2>1
  <2>4. SubSeq(Append(s, e), m + 1, Len(s) + 1) = Append(t, e)
    <3> DEFINE u == SubSeq(Append(s, e), m + 1, Len(s) + 1)
    <3>1. u \in Seq(S) /\ Len(u) = Len(s) + 1 - m
      BY <2>1
    <3>2. \A i \in 1 .. Len(u) : u[i] = Append(s, e)[i + m]
      BY <2>1
    <3>3. Append(t, e) \in Seq(S) /\ Len(Append(t, e)) = Len(s) - m + 1
      BY <2>3
    <3>4. \A i \in 1 .. Len(u) : u[i] = Append(t, e)[i]
      <4>1. SUFFICES ASSUME NEW i \in 1 .. Len(u) PROVE u[i] = Append(t, e)[i]
        OBVIOUS
      <4>2. CASE i \in 1 .. Len(t)
        BY <4>2, <3>1, <3>2, <2>1, <2>3
      <4>3. CASE i = Len(t) + 1
        BY <4>3, <3>1, <3>2, <2>1, <2>3
      <4>4. i \in 1 .. Len(t) \/ i = Len(t) + 1
        <5> HIDE DEF t, u, m
        <5> QED BY <3>1, <2>3, <2>1
      <4> QED BY <4>2, <4>3, <4>4
    <3>5. Len(u) = Len(Append(t, e))
      <4> HIDE DEF u, t, m
      <4> QED BY <3>1, <3>3, <2>1
    <3>6. u = Append(t, e)
      <4> HIDE DEF u, t
      <4> QED BY <3>1, <3>3, <3>4, <3>5, SeqEqual
    <3> QED BY <3>6
  <2> QED BY <2>1, <2>2, <2>4
<1> QED BY <1>1, <1>2

(* A slice of a slice is a suffix of the log. *)
LEMMA SuffixOfSuffix ==
  ASSUME NEW S, NEW s \in Seq(S), NEW m \in 0 .. Len(s),
         NEW k \in 0 .. Len(SubSeq(s, m + 1, Len(s)))
  PROVE  LET t == SubSeq(s, m + 1, Len(s)) IN
         /\ m + k \in 0 .. Len(s)
         /\ SubSeq(t, k + 1, Len(t)) = SubSeq(s, (m + k) + 1, Len(s))
OBVIOUS

-----------------------------------------------------------------------------
(* The states an operation handles are well typed. *)
LEMMA EmptyStateType == EmptyState \in State /\ NoFile \in File /\ TornFile \in File
BY StoreAssumption DEF EmptyState, State, NoSnapshot, Snapshot, Times, NoFile,
                       TornFile, File

LEMMA NextStateType ==
  ASSUME TypeOK, NEW in \in Input, Acceptable(in), NEW at \in Times
  PROVE  NextState(in, at) \in State
<1> DEFINE previous == state.latest[in.family]
           event == [family |-> in.family, from |-> previous.content,
                     to |-> in.content, at |-> at]
           snapshot == [content |-> in.content, at |-> at]
           log == IF Differs(previous, in.content)
                    THEN LastOf(Append(state.changes, event), config.maxChanges)
                    ELSE state.changes
<1>1. in.family \in Families /\ in.content \in Contents
  BY DEF Acceptable, Input
<1>2. state.latest \in [Families -> Snapshot] /\ state.changes \in Seq(Event)
  BY DEF TypeOK, State
<1>3. previous.content \in Contents \cup {None}
  BY <1>1, <1>2 DEF Snapshot
<1>4. event \in Event /\ snapshot \in Snapshot
  BY <1>1, <1>3 DEF Event, Snapshot
<1>5. config.maxChanges \in Nat \ {0}
  BY StoreAssumption DEF TypeOK
<1>6. log \in Seq(Event)
  <2>1. Append(state.changes, event) \in Seq(Event)
    BY <1>2, <1>4
  <2> QED BY <2>1, <1>2, <1>5, LastOfElements
<1>7. [state.latest EXCEPT ![in.family] = snapshot] \in [Families -> Snapshot]
  BY <1>2, <1>4
<1> QED BY <1>6, <1>7 DEF NextState, State

(* The next state keeps the log within the cap of the running process. *)
LEMMA NextStateCap ==
  ASSUME TypeOK, NEW in \in Input, Acceptable(in), NEW at \in Times,
         state = Loaded(file, config)
  PROVE  Len(NextState(in, at).changes) <= config.maxChanges
<1> DEFINE previous == state.latest[in.family]
           event == [family |-> in.family, from |-> previous.content,
                     to |-> in.content, at |-> at]
<1>1. config.maxChanges \in Nat \ {0}
  BY StoreAssumption DEF TypeOK
<1>2. file.state.changes \in Seq(Event) /\ state.changes \in Seq(Event)
  BY DEF TypeOK, File, State
<1>3. Len(state.changes) <= config.maxChanges
  BY <1>1, <1>2, LastOfElements DEF Loaded
<1>4. event \in Event
  BY DEF TypeOK, State, Snapshot, Event, Acceptable, Input
<1>5. Append(state.changes, event) \in Seq(Event)
  BY <1>2, <1>4
<1>6. Len(LastOf(Append(state.changes, event), config.maxChanges)) <= config.maxChanges
  BY <1>1, <1>5, LastOfElements
<1> QED BY <1>3, <1>6 DEF NextState

(* Loading a file whose log is within the cap changes nothing. *)
LEMMA LoadedWhole ==
  ASSUME NEW s \in State, NEW cfg \in Configs, Len(s.changes) <= cfg.maxChanges
  PROVE  Loaded(Whole(s), cfg) = s
BY DEF Loaded, Whole, LastOf, State

LEMMA LoadedType ==
  ASSUME NEW f \in File, NEW cfg \in Configs
  PROVE  Loaded(f, cfg) \in State
<1>1. f.state.latest \in [Families -> Snapshot] /\ f.state.changes \in Seq(Event)
  BY DEF File, State
<1>2. cfg.maxChanges \in Nat \ {0}
  BY StoreAssumption
<1> QED BY <1>1, <1>2, LastOfElements DEF Loaded, State

-----------------------------------------------------------------------------
(* The first call of the chain and the rest of it. *)
LEMMA HeadOfChain ==
  ASSUME TypeOK, ChainInv, queue # <<>>
  PROVE  /\ Head(queue) \in Calls
         /\ outcome[Head(queue)] = "pending"
         /\ input[Head(queue)] \in Input
         /\ Tail(queue) \in Seq(Calls)
         /\ Len(Tail(queue)) = Len(queue) - 1
         /\ \A i \in 1 .. Len(Tail(queue)) :
              /\ i + 1 \in DOMAIN queue
              /\ Tail(queue)[i] = queue[i + 1]
              /\ Tail(queue)[i] # Head(queue)
<1>1. queue \in Seq(Calls) /\ Len(queue) >= 1
  BY DEF TypeOK
<1>2. 1 \in DOMAIN queue /\ Head(queue) = queue[1]
  BY <1>1
<1>3. /\ Tail(queue) \in Seq(Calls)
      /\ Len(Tail(queue)) = Len(queue) - 1
      /\ \A i \in 1 .. Len(Tail(queue)) :
           i + 1 \in DOMAIN queue /\ Tail(queue)[i] = queue[i + 1]
  BY <1>1
<1>4. \A i \in 1 .. Len(Tail(queue)) : Tail(queue)[i] # Head(queue)
  <2>1. SUFFICES ASSUME NEW i \in 1 .. Len(Tail(queue)), queue[i + 1] = queue[1]
                 PROVE  FALSE
    BY <1>2, <1>3
  <2>2. i + 1 = 1
    BY <2>1, <1>2, <1>3 DEF ChainInv
  <2> QED BY <2>2, <2>1, <1>3
<1> QED BY <1>1, <1>2, <1>3, <1>4 DEF ChainInv

(* Settling the first call keeps the chain pending and distinct. *)
LEMMA SettleChain ==
  ASSUME TypeOK, ChainInv, queue # <<>>, NEW result \in Outcomes, Settle(result),
         UNCHANGED <<up, input>>
  PROVE  ChainInv' /\ queue' \in Seq(Calls) /\ outcome' \in [Calls -> Outcomes]
<1>1. queue' = Tail(queue) /\ step' = "idle"
      /\ outcome' = [outcome EXCEPT ![Head(queue)] = result]
  BY DEF Settle
<1>2. outcome' \in [Calls -> Outcomes]
  BY <1>1, HeadOfChain DEF TypeOK
<1>3. \A i \in DOMAIN queue' : outcome'[queue'[i]] = "pending" /\ input'[queue'[i]] \in Input
  <2>1. SUFFICES ASSUME NEW i \in 1 .. Len(Tail(queue))
                 PROVE  /\ outcome'[Tail(queue)[i]] = "pending"
                        /\ input[Tail(queue)[i]] \in Input
    BY <1>1, HeadOfChain
  <2>2. /\ Tail(queue)[i] = queue[i + 1]
        /\ i + 1 \in DOMAIN queue
        /\ Tail(queue)[i] # Head(queue)
    BY HeadOfChain
  <2>3. outcome[queue[i + 1]] = "pending" /\ input[queue[i + 1]] \in Input
    BY <2>2 DEF ChainInv
  <2>4. queue[i + 1] \in Calls
    BY <2>2 DEF TypeOK
  <2> QED BY <2>2, <2>3, <2>4, <1>1 DEF TypeOK
<1>4. \A i, j \in DOMAIN queue' : queue'[i] = queue'[j] => i = j
  <2>1. SUFFICES ASSUME NEW i \in 1 .. Len(Tail(queue)), NEW j \in 1 .. Len(Tail(queue)),
                        Tail(queue)[i] = Tail(queue)[j]
                 PROVE  i = j
    BY <1>1, HeadOfChain
  <2>2. /\ i + 1 \in DOMAIN queue /\ Tail(queue)[i] = queue[i + 1]
        /\ j + 1 \in DOMAIN queue /\ Tail(queue)[j] = queue[j + 1]
    BY HeadOfChain
  <2>3. i + 1 = j + 1
    BY <2>1, <2>2 DEF ChainInv
  <2> QED BY <2>3
<1>5. up
  BY DEF ChainInv
<1> QED BY <1>1, <1>2, <1>3, <1>4, <1>5, HeadOfChain DEF ChainInv

(* FileInv, FileHoldsLastCommit and the like look at few variables. *)
LEMMA FileHoldsSame ==
  ASSUME FileHoldsLastCommit, UNCHANGED <<file, commits>>,
         \A i \in DOMAIN commits : input'[commits[i]] = input[commits[i]]
  PROVE  FileHoldsLastCommit'
BY DEF FileHoldsLastCommit, CommitsOf

LEMMA InitInv == Init => IInv
<1> SUFFICES ASSUME Init PROVE IInv
  OBVIOUS
<1> USE DEF Init
<1>1. TypeOK
  BY EmptyStateType, StoreAssumption
     DEF TypeOK, Steps, Outcomes, Times
<1>2. ChainInv /\ NextInv /\ CommitInv
  BY DEF ChainInv, NextInv, CommitInv, InFlight
<1>3. FileInv
  <2>1. Loaded(file, config) = EmptyState
    BY StoreAssumption DEF Loaded, NoFile, EmptyState, LastOf
  <2>2. \A f \in Families : file.state.latest[f].at = 0
    BY DEF NoFile, EmptyState, NoSnapshot
  <2> QED BY <2>1, <2>2 DEF FileInv, FileNeverTorn, ServedIsDurable, NoFile
<1>4. FileHoldsLastCommit
  <2>1. \A f \in Families : file.state.latest[f] = NoSnapshot
    BY DEF NoFile, EmptyState
  <2>2. \A f \in Families : CommitsOf(f) = {}
    BY DEF CommitsOf
  <2> QED BY <2>1, <2>2 DEF FileHoldsLastCommit
<1>5. GoodCallNotRefused
  BY DEF GoodCallNotRefused
<1> QED BY <1>1, <1>2, <1>3, <1>4, <1>5 DEF IInv

LEMMA RecordInv ==
  ASSUME IInv, NEW c \in Calls, NEW in \in Input, Record(c, in)
  PROVE  IInv'
<1> USE DEF Record, IInv
<1>1. TypeOK'
  BY DEF TypeOK, Outcomes
<1>2. \A i \in DOMAIN queue : queue[i] # c
  BY DEF ChainInv
<1>3. \A i \in DOMAIN commits : commits[i] # c
  BY DEF CommitInv
<1>4. /\ DOMAIN queue' = 1 .. Len(queue) + 1
      /\ queue'[Len(queue) + 1] = c
      /\ \A i \in 1 .. Len(queue) : queue'[i] = queue[i]
  BY DEF TypeOK
<1>5. ChainInv'
  <2>1. \A i \in 1 .. Len(queue) : outcome'[queue[i]] = "pending" /\ input'[queue[i]] \in Input
    BY <1>2 DEF ChainInv, TypeOK
  <2>2. outcome'[c] = "pending" /\ input'[c] \in Input
    BY DEF TypeOK
  <2>3. \A i, j \in DOMAIN queue' : queue'[i] = queue'[j] => i = j
    <3>1. \A i \in 1 .. Len(queue) : queue'[i] # c
      BY <1>2, <1>4 DEF TypeOK
    <3>2. \A i, j \in 1 .. Len(queue) : queue'[i] = queue'[j] => i = j
      BY <1>4 DEF ChainInv, TypeOK
    <3> QED BY <3>1, <3>2, <1>4 DEF TypeOK
  <2>4. queue' # <<>> /\ up'
    BY <1>4 DEF TypeOK
  <2> QED BY <2>1, <2>2, <2>3, <2>4, <1>4 DEF ChainInv, TypeOK
<1>6. queue # <<>> => Head(queue') = Head(queue) /\ input'[Head(queue)] = input[Head(queue)]
  BY <1>2 DEF TypeOK
<1>7. step # "idle" => queue # <<>>
  BY DEF ChainInv
<1>8. NextInv'
  BY <1>6, <1>7 DEF NextInv, InFlight, Acceptable, NextState
<1>9. FileInv'
  BY DEF FileInv, FileNeverTorn, ServedIsDurable
<1>10. CommitInv'
  <2>1. \A i \in DOMAIN commits :
          /\ input'[commits[i]] = input[commits[i]]
          /\ outcome'[commits[i]] = outcome[commits[i]]
    BY <1>3 DEF TypeOK
  <2>2. \A d \in Calls : outcome'[d] = "resolved" => Committed(d)'
    BY DEF CommitInv, Committed, TypeOK
  <2>3. step' = "renamed" => Committed(Head(queue))'
    <3>1. ASSUME step = "renamed" PROVE Head(queue') = Head(queue) /\ Committed(Head(queue))
      BY <3>1, <1>6, <1>7 DEF CommitInv
    <3> QED BY <3>1 DEF Committed
  <2>4. \A i \in DOMAIN commits :
          \/ outcome'[commits[i]] \in {"resolved", "lost"}
          \/ /\ outcome'[commits[i]] = "pending"
             /\ step' = "renamed"
             /\ commits[i] = Head(queue')
    <3>1. SUFFICES ASSUME NEW i \in DOMAIN commits,
                          outcome'[commits[i]] \notin {"resolved", "lost"}
                   PROVE  /\ outcome'[commits[i]] = "pending"
                          /\ step' = "renamed"
                          /\ commits[i] = Head(queue')
      OBVIOUS
    <3>2. outcome[commits[i]] = "pending" /\ step = "renamed" /\ commits[i] = Head(queue)
      BY <3>1, <2>1 DEF CommitInv
    <3> QED BY <3>2, <2>1, <1>6, <1>7
  <2>5. \A i \in DOMAIN commits : input'[commits[i]] \in Input
    BY <2>1 DEF CommitInv
  <2>6. UNCHANGED commits
    OBVIOUS
  <2> QED BY <2>2, <2>3, <2>4, <2>5, <2>6 DEF CommitInv
<1>11. FileHoldsLastCommit'
  BY <1>3, FileHoldsSame DEF TypeOK
<1>12. GoodCallNotRefused'
  BY DEF GoodCallNotRefused, TypeOK
<1> QED BY <1>1, <1>5, <1>8, <1>9, <1>10, <1>11, <1>12

LEMMA BeginInv ==
  ASSUME IInv, Begin
  PROVE  IInv'
<1> USE DEF Begin, At, IInv, callVars
<1>1. Head(queue) \in Calls /\ input[Head(queue)] \in Input
  BY HeadOfChain
<1>2. now \in Times
  BY DEF TypeOK
<1>3. next' \in State
  BY <1>1, <1>2, NextStateType
<1>4. TypeOK'
  BY <1>3 DEF TypeOK, Steps
<1>5. ChainInv'
  BY DEF ChainInv
<1>6. NextInv'
  <2>1. now \in 0 .. now
    BY <1>2, StoreAssumption DEF Times
  <2>2. \A f \in Families : file.state.latest[f].at <= now
    BY DEF FileInv
  <2>3. next' = NextState(input[Head(queue)], now)
    OBVIOUS
  <2>4. NextState(input[Head(queue)], now)' = NextState(input[Head(queue)], now)
    BY DEF NextState
  <2>5. Len(next'.changes) <= config.maxChanges
    <3>1. state = Loaded(file, config)
      BY DEF FileInv, ServedIsDurable
    <3> QED BY <3>1, <2>3, <1>1, <1>2, NextStateCap
  <2> QED BY <2>1, <2>2, <2>3, <2>5 DEF NextInv, InFlight, Acceptable, NextState
<1>7. FileInv'
  BY DEF FileInv, FileNeverTorn, ServedIsDurable
<1>8. CommitInv'
  BY DEF CommitInv, Committed
<1>9. FileHoldsLastCommit' /\ GoodCallNotRefused'
  BY FileHoldsSame DEF GoodCallNotRefused
<1> QED BY <1>4, <1>5, <1>6, <1>7, <1>8, <1>9

(* An operation that settles without having renamed leaves no trace. *)
LEMMA GiveUpInv ==
  ASSUME IInv, queue # <<>>, up, step # "renamed",
         NEW result \in {"typeError", "ioError"}, Settle(result),
         result = "typeError" => input[Head(queue)].content \notin GreaseContents,
         UNCHANGED <<up, config, state, temporary, file, input, now, crashes, commits>>
  PROVE  IInv'
<1> USE DEF IInv
<1>1. ChainInv' /\ queue' \in Seq(Calls) /\ outcome' \in [Calls -> Outcomes]
  BY SettleChain DEF Outcomes
<1>2. step' = "idle" /\ next' = EmptyState
  BY DEF Settle
<1>3. TypeOK'
  BY <1>1, <1>2, EmptyStateType DEF TypeOK, Steps
<1>4. NextInv'
  BY <1>2 DEF NextInv, InFlight
<1>5. FileInv'
  BY <1>2 DEF FileInv, FileNeverTorn, ServedIsDurable
<1>6. \A i \in DOMAIN commits : commits[i] # Head(queue)
  BY HeadOfChain DEF CommitInv
<1>7. outcome' = [outcome EXCEPT ![Head(queue)] = result]
  BY DEF Settle
<1>8. CommitInv'
  <2>1. \A i \in DOMAIN commits : outcome'[commits[i]] \in {"resolved", "lost"}
    <3>1. SUFFICES ASSUME NEW i \in DOMAIN commits
                   PROVE  outcome'[commits[i]] \in {"resolved", "lost"}
      OBVIOUS
    <3>2. commits[i] \in Calls
      BY DEF TypeOK
    <3> QED BY <3>2, <1>6, <1>7 DEF CommitInv, TypeOK
  <2>2. \A c \in Calls : outcome'[c] = "resolved" => outcome[c] = "resolved"
    BY <1>7 DEF TypeOK
  <2>3. \A c \in Calls : outcome'[c] = "resolved" => Committed(c)'
    BY <2>2 DEF CommitInv, Committed
  <2>4. \A i \in DOMAIN commits' : input'[commits'[i]] \in Input
    BY DEF CommitInv
  <2> QED BY <2>1, <2>3, <2>4, <1>2 DEF CommitInv
<1>9. FileHoldsLastCommit'
  BY FileHoldsSame
<1>10. GoodCallNotRefused'
  <2>1. SUFFICES ASSUME NEW c \in Calls, outcome'[c] = "typeError"
                 PROVE  input[c].content \notin GreaseContents
    BY DEF GoodCallNotRefused
  <2>2. CASE c = Head(queue)
    BY <2>1, <2>2, <1>7 DEF TypeOK
  <2>3. CASE c # Head(queue)
    BY <2>1, <2>3, <1>7 DEF TypeOK, GoodCallNotRefused
  <2> QED BY <2>2, <2>3
<1> QED BY <1>1, <1>3, <1>4, <1>5, <1>8, <1>9, <1>10

LEMMA RefuseInv ==
  ASSUME IInv, Refuse
  PROVE  IInv'
<1>1. /\ queue # <<>> /\ up /\ step # "renamed" /\ Settle("typeError")
      /\ UNCHANGED <<up, config, state, temporary, file, input, now, crashes, commits>>
  BY DEF Refuse, At
<1>2. input[Head(queue)].content \notin GreaseContents
  BY StoreAssumption DEF Refuse, Acceptable
<1> QED BY <1>1, <1>2, GiveUpInv

LEMMA FailInv ==
  ASSUME IInv, Fail
  PROVE  IInv'
<1>1. /\ queue # <<>> /\ up /\ step # "renamed" /\ Settle("ioError")
      /\ UNCHANGED <<up, config, state, temporary, file, input, now, crashes, commits>>
  BY DEF Fail, At
<1> QED BY <1>1, GiveUpInv

LEMMA OpenTemporaryInv ==
  ASSUME IInv, OpenTemporary
  PROVE  IInv'
<1> USE DEF OpenTemporary, At, IInv, callVars
<1>1. TypeOK'
  BY EmptyStateType DEF TypeOK, Steps
<1>2. ChainInv' /\ CommitInv'
  BY DEF ChainInv, CommitInv, Committed
<1>3. NextInv'
  BY DEF NextInv, InFlight, Acceptable, NextState
<1>4. FileInv'
  BY DEF FileInv, FileNeverTorn, ServedIsDurable
<1>5. FileHoldsLastCommit' /\ GoodCallNotRefused'
  BY FileHoldsSame DEF GoodCallNotRefused
<1> QED BY <1>1, <1>2, <1>3, <1>4, <1>5

LEMMA WriteTemporaryInv ==
  ASSUME IInv, WriteTemporary
  PROVE  IInv'
<1> USE DEF WriteTemporary, At, IInv, callVars
<1>1. TypeOK'
  BY DEF TypeOK, Steps, Whole, File
<1>2. ChainInv' /\ CommitInv'
  BY DEF ChainInv, CommitInv, Committed
<1>3. NextInv'
  BY DEF NextInv, InFlight, Acceptable, NextState, Whole
<1>4. FileInv'
  BY DEF FileInv, FileNeverTorn, ServedIsDurable
<1>5. FileHoldsLastCommit' /\ GoodCallNotRefused'
  BY FileHoldsSame DEF GoodCallNotRefused
<1> QED BY <1>1, <1>2, <1>3, <1>4, <1>5

(* A rename replaces, on file, the snapshot of one family and no other.    *)
LEMMA RenameReplaces ==
  ASSUME IInv, Rename
  PROVE  LET in == input[Head(queue)] IN
         \E at \in 0 .. now :
           /\ \A f \in Families : file.state.latest[f].at <= at
           /\ next = NextState(in, at)
           /\ file' = Whole(next)
           /\ in \in Input /\ Acceptable(in)
           /\ state = Loaded(file, config)
           /\ state.latest = file.state.latest
           /\ next.latest = [file.state.latest EXCEPT
                               ![in.family] = [content |-> in.content, at |-> at]]
<1> USE DEF IInv, Rename, At
<1>1. PICK at \in 0 .. now :
        /\ \A f \in Families : file.state.latest[f].at <= at
        /\ next = NextState(input[Head(queue)], at)
  BY DEF NextInv, InFlight
<1>2. file' = Whole(next) /\ Acceptable(input[Head(queue)])
  BY DEF NextInv, InFlight
<1>3. input[Head(queue)] \in Input
  BY HeadOfChain
<1>4. state = Loaded(file, config)
  BY DEF FileInv, ServedIsDurable
<1>5. state.latest = file.state.latest
  BY <1>4 DEF Loaded
<1>6. next.latest = [file.state.latest EXCEPT
        ![input[Head(queue)].family] = [content |-> input[Head(queue)].content, at |-> at]]
  BY <1>1, <1>5 DEF NextState
<1> QED BY <1>1, <1>2, <1>3, <1>4, <1>5, <1>6

LEMMA RenameInv ==
  ASSUME IInv, Rename
  PROVE  IInv'
<1> DEFINE head == Head(queue)
           in == input[head]
<1>1. PICK at \in 0 .. now :
        /\ \A f \in Families : file.state.latest[f].at <= at
        /\ next = NextState(in, at)
        /\ file' = Whole(next)
        /\ in \in Input /\ Acceptable(in)
        /\ next.latest = [file.state.latest EXCEPT
                            ![in.family] = [content |-> in.content, at |-> at]]
  BY RenameReplaces
<1> USE DEF Rename, At, IInv, callVars
<1>2. head \in Calls /\ outcome[head] = "pending"
  BY HeadOfChain
<1>3. /\ file'.state.latest = [file.state.latest EXCEPT
                                 ![in.family] = [content |-> in.content, at |-> at]]
      /\ file'.kind = "whole" /\ file'.state = next
      /\ file.state.latest \in [Families -> Snapshot]
      /\ in.family \in Families
  BY <1>1 DEF Whole, TypeOK, File, State, Input
<1>4. TypeOK'
  <2>1. file' \in File
    BY <1>1 DEF TypeOK, Whole, File
  <2>2. commits' \in Seq(Calls)
    BY <1>2 DEF TypeOK
  <2> QED BY <2>1, <2>2, EmptyStateType DEF TypeOK, Steps
<1>5. ChainInv'
  BY DEF ChainInv
<1>6. NextInv'
  BY <1>1 DEF NextInv, InFlight, Acceptable
<1>7. FileInv'
  <2>1. \A f \in Families : file'.state.latest[f].at <= now
    <3>1. SUFFICES ASSUME NEW f \in Families PROVE file'.state.latest[f].at <= now
      OBVIOUS
    <3>2. now \in Nat /\ at \in Nat /\ at <= now
      BY StoreAssumption DEF TypeOK, Times
    <3>3. CASE f = in.family
      BY <3>3, <3>2, <1>3
    <3>4. CASE f # in.family
      BY <3>4, <1>3 DEF FileInv
    <3> QED BY <3>3, <3>4
  <2> QED BY <2>1, <1>1, <1>3 DEF FileInv, FileNeverTorn, ServedIsDurable
<1>8. /\ DOMAIN commits = 1 .. Len(commits)
      /\ DOMAIN commits' = 1 .. Len(commits) + 1
      /\ commits'[Len(commits) + 1] = head
      /\ \A i \in 1 .. Len(commits) : commits'[i] = commits[i]
      /\ Len(commits) \in Nat
  BY <1>2 DEF TypeOK
<1>9. CommitInv'
  <2>1. \A i \in DOMAIN commits : outcome[commits[i]] \in {"resolved", "lost"}
    BY DEF CommitInv
  <2>2. \A c \in Calls : Committed(c) => Committed(c)'
    BY <1>8 DEF Committed
  <2>3. Committed(head)'
    BY <1>8 DEF Committed
  <2>4. \A i \in DOMAIN commits' :
          /\ input'[commits'[i]] \in Input
          /\ \/ outcome'[commits'[i]] \in {"resolved", "lost"}
             \/ /\ outcome'[commits'[i]] = "pending"
                /\ step' = "renamed"
                /\ commits'[i] = Head(queue')
    <3>1. SUFFICES ASSUME NEW i \in 1 .. Len(commits) + 1
                   PROVE  /\ input[commits'[i]] \in Input
                          /\ \/ outcome[commits'[i]] \in {"resolved", "lost"}
                             \/ outcome[commits'[i]] = "pending" /\ commits'[i] = head
      BY <1>8
    <3>2. CASE i \in 1 .. Len(commits)
      BY <3>2, <2>1, <1>8 DEF CommitInv
    <3>3. CASE i = Len(commits) + 1
      BY <3>3, <1>1, <1>2, <1>8
    <3> QED BY <3>2, <3>3, <1>8
  <2>5. \A c \in Calls : outcome'[c] = "resolved" => Committed(c)'
    BY <2>2 DEF CommitInv
  <2>6. step' = "renamed" => Committed(Head(queue))'
    BY <2>3 DEF Committed
  <2> QED BY <2>4, <2>5, <2>6 DEF CommitInv
<1>10. FileHoldsLastCommit'
  <2> DEFINE mine(f)  == {i \in DOMAIN commits : input[commits[i]].family = f}
             mineN(f) == {i \in DOMAIN commits' : input[commits'[i]].family = f}
  <2>1. SUFFICES ASSUME NEW f \in Families
                 PROVE  /\ mineN(f) = {} => file'.state.latest[f] = NoSnapshot
                        /\ \A i \in mineN(f) : (\A j \in mineN(f) : j <= i)
                             => file'.state.latest[f].content = input[commits'[i]].content
    BY DEF FileHoldsLastCommit, CommitsOf
  <2>2. CASE f = in.family
    <3>1. Len(commits) + 1 \in mineN(f)
      BY <2>2, <1>8
    <3>2. \A i \in mineN(f) : (\A j \in mineN(f) : j <= i) => i = Len(commits) + 1
      BY <3>1, <1>8
    <3>3. file'.state.latest[f].content = in.content
      BY <2>2, <1>3
    <3>4. input[commits'[Len(commits) + 1]].content = in.content
      BY <1>8
    <3> HIDE DEF mineN
    <3> QED BY <3>1, <3>2, <3>3, <3>4
  <2>3. CASE f # in.family
    <3>1. mineN(f) = mine(f)
      <4>1. \A i \in mineN(f) : i \in mine(f)
        BY <2>3, <1>8
      <4>2. \A i \in mine(f) : i \in mineN(f)
        BY <1>8
      <4> QED BY <4>1, <4>2
    <3>2. file'.state.latest[f] = file.state.latest[f]
      BY <2>3, <1>3
    <3>3. \A i \in mine(f) : commits'[i] = commits[i]
      BY <1>8
    <3>4. /\ mine(f) = {} => file.state.latest[f] = NoSnapshot
          /\ \A i \in mine(f) : (\A j \in mine(f) : j <= i)
               => file.state.latest[f].content = input[commits[i]].content
      BY DEF FileHoldsLastCommit, CommitsOf
    <3> HIDE DEF mine, mineN
    <3> QED BY <3>1, <3>2, <3>3, <3>4
  <2> QED BY <2>2, <2>3
<1>11. GoodCallNotRefused'
  BY DEF GoodCallNotRefused
<1> QED BY <1>4, <1>5, <1>6, <1>7, <1>9, <1>10, <1>11

LEMMA AssignInv ==
  ASSUME IInv, Assign
  PROVE  IInv'
<1> USE DEF Assign, At, IInv, callVars
<1>1. ChainInv' /\ queue' \in Seq(Calls) /\ outcome' \in [Calls -> Outcomes]
  BY SettleChain DEF Outcomes
<1>2. /\ step' = "idle" /\ next' = EmptyState
      /\ outcome' = [outcome EXCEPT ![Head(queue)] = "resolved"]
  BY DEF Settle
<1>3. TypeOK'
  BY <1>1, <1>2, EmptyStateType DEF TypeOK, Steps
<1>4. NextInv'
  BY <1>2 DEF NextInv, InFlight
<1>5. state' = Loaded(file, config)
  <2>1. file = Whole(next) /\ Len(next.changes) <= config.maxChanges
    BY DEF FileInv, ServedIsDurable, NextInv
  <2>2. next \in State /\ config \in Configs
    BY DEF TypeOK
  <2> QED BY <2>1, <2>2, LoadedWhole
<1>6. FileInv'
  BY <1>2, <1>5 DEF FileInv, FileNeverTorn, ServedIsDurable, Loaded
<1>7. CommitInv'
  <2>1. \A i \in DOMAIN commits :
          outcome'[commits[i]] \in {"resolved", "lost"} /\ input'[commits[i]] \in Input
    <3>1. SUFFICES ASSUME NEW i \in DOMAIN commits
                   PROVE  outcome'[commits[i]] \in {"resolved", "lost"}
      BY DEF CommitInv
    <3>2. commits[i] \in Calls
      BY DEF TypeOK
    <3> QED BY <3>2, <1>2 DEF CommitInv, TypeOK
  <2>2. \A c \in Calls : outcome'[c] = "resolved" => Committed(c)'
    <3>1. SUFFICES ASSUME NEW c \in Calls, outcome'[c] = "resolved" PROVE Committed(c)
      BY DEF Committed
    <3> QED BY <3>1, <1>2 DEF CommitInv, TypeOK
  <2> QED BY <2>1, <2>2, <1>2 DEF CommitInv
<1>8. FileHoldsLastCommit'
  BY FileHoldsSame
<1>9. GoodCallNotRefused'
  BY <1>2 DEF GoodCallNotRefused, TypeOK
<1> QED BY <1>1, <1>3, <1>4, <1>6, <1>7, <1>8, <1>9

LEMMA CrashInv ==
  ASSUME IInv, Crash
  PROVE  IInv'
<1> USE DEF Crash, IInv
<1>1. \A c \in Calls : /\ outcome[c] = "pending" => outcome'[c] = "lost"
                       /\ outcome[c] # "pending" => outcome'[c] = outcome[c]
  OBVIOUS
<1>2. TypeOK'
  <2>1. crashes' \in 0 .. MaxCrashes
    BY StoreAssumption DEF TypeOK
  <2>2. outcome' \in [Calls -> Outcomes]
    BY DEF TypeOK, Outcomes
  <2>3. /\ up' \in BOOLEAN /\ config' \in Configs /\ input' \in [Calls -> Input \cup {None}]
        /\ commits' \in Seq(Calls) /\ now' \in Times
    BY DEF TypeOK
  <2>5. queue' \in Seq(Calls) /\ step' \in Steps
    BY DEF Steps
  <2>4. state' \in State /\ next' \in State /\ temporary' \in File /\ file' \in File
    BY EmptyStateType DEF TypeOK
  <2> QED BY <2>1, <2>2, <2>3, <2>4, <2>5 DEF TypeOK
<1>3. ChainInv' /\ NextInv'
  BY DEF ChainInv, NextInv, InFlight
<1>4. FileInv'
  BY DEF FileInv, FileNeverTorn, ServedIsDurable
<1>5. CommitInv'
  <2>1. \A i \in DOMAIN commits :
          outcome'[commits[i]] \in {"resolved", "lost"} /\ input'[commits[i]] \in Input
    <3>1. SUFFICES ASSUME NEW i \in DOMAIN commits
                   PROVE  outcome'[commits[i]] \in {"resolved", "lost"}
      BY DEF CommitInv
    <3>2. commits[i] \in Calls
      BY DEF TypeOK
    <3> QED BY <3>2, <1>1 DEF CommitInv
  <2>2. \A c \in Calls : outcome'[c] = "resolved" => Committed(c)'
    BY <1>1 DEF CommitInv, Committed
  <2> QED BY <2>1, <2>2 DEF CommitInv
<1>6. FileHoldsLastCommit'
  BY FileHoldsSame
<1>7. GoodCallNotRefused'
  BY <1>1 DEF GoodCallNotRefused
<1> QED BY <1>2, <1>3, <1>4, <1>5, <1>6, <1>7

LEMMA StartInv ==
  ASSUME IInv, Start
  PROVE  IInv'
<1> USE DEF Start, IInv, callVars
<1>1. step = "idle" /\ queue = <<>>
  BY DEF ChainInv
<1>2. state' \in State
  BY LoadedType DEF TypeOK
<1>3. TypeOK'
  BY <1>2 DEF TypeOK
<1>4. ChainInv' /\ NextInv' /\ CommitInv'
  BY <1>1 DEF ChainInv, NextInv, InFlight, CommitInv, Committed
<1>5. FileInv'
  BY <1>1 DEF FileInv, FileNeverTorn, ServedIsDurable, Loaded
<1>6. FileHoldsLastCommit' /\ GoodCallNotRefused'
  BY FileHoldsSame DEF GoodCallNotRefused
<1> QED BY <1>3, <1>4, <1>5, <1>6

LEMMA TickInv ==
  ASSUME IInv, Tick
  PROVE  IInv'
<1> USE DEF Tick, IInv, callVars, processVars
<1>1. now \in Nat /\ now' = now + 1 /\ now' \in Times
  BY StoreAssumption DEF TypeOK, Times
<1>2. TypeOK'
  BY <1>1 DEF TypeOK
<1>3. ChainInv' /\ CommitInv'
  BY DEF ChainInv, CommitInv, Committed
<1>4. NextInv'
  <2>1. \A at \in 0 .. now : at \in 0 .. now'
    BY <1>1
  <2> QED BY <2>1 DEF NextInv, InFlight, Acceptable, NextState
<1>5. FileInv'
  <2>1. \A f \in Families : file.state.latest[f].at \in Nat
    BY DEF TypeOK, File, State, Snapshot, Times
  <2>2. \A f \in Families : file'.state.latest[f].at <= now'
    BY <2>1, <1>1 DEF FileInv
  <2> QED BY <2>2 DEF FileInv, FileNeverTorn, ServedIsDurable
<1>6. FileHoldsLastCommit' /\ GoodCallNotRefused'
  BY FileHoldsSame DEF GoodCallNotRefused
<1> QED BY <1>2, <1>3, <1>4, <1>5, <1>6

LEMMA StutterInv ==
  ASSUME IInv, UNCHANGED vars
  PROVE  IInv'
<1> USE DEF IInv, vars, processVars, callVars
<1>1. TypeOK' /\ ChainInv' /\ CommitInv'
  BY DEF TypeOK, ChainInv, CommitInv, Committed
<1>2. NextInv' /\ FileInv'
  BY DEF NextInv, InFlight, Acceptable, NextState, FileInv, FileNeverTorn,
         ServedIsDurable
<1>3. FileHoldsLastCommit' /\ GoodCallNotRefused'
  BY FileHoldsSame DEF GoodCallNotRefused
<1> QED BY <1>1, <1>2, <1>3

LEMMA NextInvariant == IInv /\ [Next]_vars => IInv'
<1> SUFFICES ASSUME IInv, [Next]_vars PROVE IInv'
  OBVIOUS
<1>1. ASSUME NEW c \in Calls, NEW in \in Input, Record(c, in) PROVE IInv'
  BY <1>1, RecordInv
<1>2. CASE Advance
  BY <1>2, BeginInv, RefuseInv, OpenTemporaryInv, WriteTemporaryInv, RenameInv,
     FailInv, AssignInv DEF Advance
<1>3. CASE Crash
  BY <1>3, CrashInv
<1>4. CASE Start
  BY <1>4, StartInv
<1>5. CASE Tick
  BY <1>5, TickInv
<1>6. CASE UNCHANGED vars
  BY <1>6, StutterInv
<1> QED BY <1>1, <1>2, <1>3, <1>4, <1>5, <1>6 DEF Next

LEMMA Invariance == Spec => []IInv
BY InitInv, NextInvariant, PTL DEF Spec

-----------------------------------------------------------------------------
(* The theorems. *)

(* The types of the store. *)
THEOREM StoreTypeCorrect == Spec => []TypeOK
<1>1. IInv => TypeOK
  BY DEF IInv
<1> QED BY <1>1, Invariance, PTL

(* The result file is never seen half written. *)
THEOREM StoreFileNeverTorn == Spec => []FileNeverTorn
<1>1. IInv => FileNeverTorn
  BY DEF IInv, FileInv
<1> QED BY <1>1, Invariance, PTL

(* Whatever snapshot() serves survives a crash. *)
THEOREM StoreServedIsDurable == Spec => []ServedIsDurable
<1>1. IInv => ServedIsDurable
  BY DEF IInv, FileInv
<1> QED BY <1>1, Invariance, PTL

(* Resolved calls are on file; refused and failed ones left no trace. *)
THEOREM StoreResolvedIffCommitted == Spec => []ResolvedIffCommitted
<1>1. IInv => ResolvedIffCommitted
  <2>1. SUFFICES ASSUME IInv, NEW c \in Calls, outcome[c] \in {"typeError", "ioError"},
                        Committed(c)
                 PROVE  FALSE
    BY DEF IInv, CommitInv, ResolvedIffCommitted
  <2>2. PICK i \in DOMAIN commits : commits[i] = c
    BY <2>1 DEF Committed
  <2>3. outcome[c] \in {"resolved", "lost", "pending"}
    BY <2>1, <2>2 DEF IInv, CommitInv
  <2> QED BY <2>1, <2>3
<1> QED BY <1>1, Invariance, PTL

(* No update is lost. *)
THEOREM StoreFileHoldsLastCommit == Spec => []FileHoldsLastCommit
<1>1. IInv => FileHoldsLastCommit
  BY DEF IInv
<1> QED BY <1>1, Invariance, PTL

(* A failure does not poison the chain. *)
THEOREM StoreGoodCallNotRefused == Spec => []GoodCallNotRefused
<1>1. IInv => GoodCallNotRefused
  BY DEF IInv
<1> QED BY <1>1, Invariance, PTL

(* Only a rename changes the result file. *)
LEMMA FileChangesByRename ==
  ASSUME IInv, [Next]_vars
  PROVE  Rename \/ UNCHANGED file
<1> USE DEF vars, processVars, callVars
<1>1. ASSUME NEW c \in Calls, NEW in \in Input, Record(c, in) PROVE UNCHANGED file
  BY <1>1 DEF Record
<1>2. CASE Advance
  BY <1>2 DEF Advance, Begin, Refuse, OpenTemporary, WriteTemporary, Fail, Assign
<1>3. CASE Crash \/ Start \/ Tick
  BY <1>3 DEF Crash, Start, Tick
<1> QED BY <1>1, <1>2, <1>3 DEF Next

(* A GREASE-aware snapshot is not replaced while GREASE is required. *)
THEOREM StoreGreaseNotDowngraded == Spec => GreaseNotDowngraded
<1>1. ASSUME IInv, [Next]_vars, NEW f \in Families, config.requireGrease,
             file.state.latest[f].content \in GreaseContents
      PROVE  file'.state.latest[f].content \in GreaseContents
  <2>1. CASE UNCHANGED file
    BY <2>1, <1>1
  <2>2. CASE Rename
    <3> DEFINE in == input[Head(queue)]
    <3>1. PICK at \in 0 .. now :
            /\ file' = Whole(next)
            /\ Acceptable(in)
            /\ next.latest = [file.state.latest EXCEPT
                                ![in.family] = [content |-> in.content, at |-> at]]
      BY <2>2, <1>1, RenameReplaces
    <3>2. in.content \in GreaseContents
      BY <3>1, <1>1 DEF Acceptable
    <3>3. file'.state.latest = next.latest
      BY <3>1 DEF Whole
    <3>4. file.state.latest \in [Families -> Snapshot]
      BY <1>1 DEF IInv, TypeOK, File, State
    <3> QED BY <3>1, <3>2, <3>3, <3>4, <1>1
  <2> QED BY <2>1, <2>2, <1>1, FileChangesByRename
<1>2. IInv /\ [Next]_vars
        => [\A f \in Families :
              (config.requireGrease /\ file.state.latest[f].content \in GreaseContents)
                => file'.state.latest[f].content \in GreaseContents]_vars
  BY <1>1
<1> QED BY <1>2, Invariance, PTL DEF Spec, GreaseNotDowngraded

-----------------------------------------------------------------------------
(* Refinement: a rename publishes, everything else stutters.               *)

LEMMA OverviewStart == Init => Overview!Init
BY DEF Init, Overview!Init, NoFile, EmptyState, NoSnapshot, Overview!NoSnapshot

(* What LastOf leaves of the log on file is a suffix of it, with or        *)
(* without the new event behind it.                                        *)
LEMMA NextLogIsSuffix ==
  ASSUME TypeOK, state = Loaded(file, config), NEW in \in Input, Acceptable(in),
         NEW at \in Times
  PROVE  LET old   == state.latest[in.family].content
             event == [family |-> in.family, from |-> old, to |-> in.content, at |-> at]
         IN  \E n \in 0 .. Len(file.state.changes) :
               NextState(in, at).changes =
                 IF old = in.content THEN Overview!Suffix(n)
                                     ELSE Append(Overview!Suffix(n), event)
<1> DEFINE old == state.latest[in.family].content
           event == [family |-> in.family, from |-> old, to |-> in.content, at |-> at]
           log == file.state.changes
           cap == config.maxChanges
<1>1. log \in Seq(Event) /\ cap \in Nat \ {0}
  BY StoreAssumption DEF TypeOK, File, State
<1>2. PICK m \in 0 .. Len(log) : state.changes = SubSeq(log, m + 1, Len(log))
  BY <1>1, LastOfElements DEF Loaded
<1>3. CASE old = in.content
  <2>1. NextState(in, at).changes = state.changes
    BY <1>3 DEF NextState, Differs
  <2> QED BY <2>1, <1>2, <1>3 DEF Overview!Suffix
<1>4. CASE old # in.content
  <2>1. event \in Event
    BY DEF TypeOK, State, Snapshot, Event, Acceptable, Input
  <2>2. state.changes \in Seq(Event)
    BY DEF TypeOK, State
  <2>3. PICK k \in 0 .. Len(state.changes) :
          LastOf(Append(state.changes, event), cap)
            = Append(SubSeq(state.changes, k + 1, Len(state.changes)), event)
    <3> HIDE DEF event, cap
    <3> QED BY <2>1, <2>2, <1>1, LastOfAppend
  <2>4. /\ m + k \in 0 .. Len(log)
        /\ SubSeq(state.changes, k + 1, Len(state.changes))
             = SubSeq(log, (m + k) + 1, Len(log))
    BY <1>1, <1>2, SuffixOfSuffix
  <2>5. NextState(in, at).changes = LastOf(Append(state.changes, event), cap)
    BY <1>4 DEF NextState, Differs
  <2>6. NextState(in, at).changes = Append(Overview!Suffix(m + k), event)
    BY <2>3, <2>4, <2>5 DEF Overview!Suffix
  <2> QED BY <2>4, <2>6, <1>4
<1> QED BY <1>3, <1>4

LEMMA RenamePublishes ==
  ASSUME IInv, Rename
  PROVE  Overview!Next
<1> DEFINE in == input[Head(queue)]
<1>1. PICK at \in 0 .. now :
        /\ \A f \in Families : file.state.latest[f].at <= at
        /\ next = NextState(in, at)
        /\ file' = Whole(next)
        /\ in \in Input /\ Acceptable(in)
        /\ state = Loaded(file, config)
        /\ state.latest = file.state.latest
        /\ next.latest = [file.state.latest EXCEPT
                            ![in.family] = [content |-> in.content, at |-> at]]
  BY RenameReplaces
<1> HIDE DEF in
<1>2. TypeOK /\ config.maxChanges <= MaxCap /\ config.maxChanges \in Nat
  BY StoreAssumption DEF IInv, TypeOK
<1>3. at \in Times
  BY <1>2, StoreAssumption DEF TypeOK, Times
<1>4. file'.state = next
  BY <1>1 DEF Whole
<1>5. \E n \in 0 .. Len(file.state.changes) :
        file'.state.changes =
          IF file.state.latest[in.family].content = in.content
            THEN Overview!Suffix(n)
            ELSE Append(Overview!Suffix(n),
                   [family |-> in.family, from |-> file.state.latest[in.family].content,
                    to |-> in.content, at |-> at])
  BY <1>1, <1>2, <1>3, <1>4, NextLogIsSuffix
<1>6. Len(file'.state.changes) <= MaxCap
  <2>1. Len(next.changes) <= config.maxChanges
    BY DEF IInv, NextInv, Rename, At, InFlight
  <2>2. Len(next.changes) \in Nat
    BY <1>2 DEF TypeOK, State
  <2> QED BY <2>1, <2>2, <1>2, <1>4, StoreAssumption
<1>7. in.family \in Families /\ in.content \in Contents
  BY <1>1 DEF Input, Acceptable
<1>8. Overview!Publish(in.family, in.content, at)
  BY <1>1, <1>4, <1>5, <1>6 DEF Overview!Publish
<1> QED BY <1>3, <1>7, <1>8 DEF Overview!Next

(* The store implements the overview: what is on file changes only by      *)
(* publishing one submission on top of everything published before.        *)
THEOREM StoreImplementsOverview == Spec => ImplementsOverview
<1>1. IInv /\ [Next]_vars => [Overview!Next]_(Overview!vars)
  BY RenamePublishes, FileChangesByRename DEF Overview!vars
<1> QED BY OverviewStart, <1>1, Invariance, PTL DEF Spec, ImplementsOverview, Overview!Spec

(* The invariants of the overview log hold of the result file. *)
OverviewProofs == INSTANCE ResultOverviewProofs
  WITH latest <- file.state.latest, changes <- file.state.changes,
       Limit <- MaxCap

LEMMA OverviewAssumed == OverviewProofs!OverviewAssumption
BY StoreAssumption DEF OverviewProofs!OverviewAssumption, Times

THEOREM StoreLogCorrect ==
  Spec => [](LogExplainsLatest /\ LogIsSound)
<1>1. OverviewProofs!Spec => []OverviewProofs!LogInv
  BY OverviewAssumed, OverviewProofs!OverviewLogCorrect
<1>2. Overview!Init => OverviewProofs!Init
  BY DEF Overview!Init, OverviewProofs!Init, Overview!NoSnapshot,
         OverviewProofs!NoSnapshot
<1>3. [Overview!Next]_(Overview!vars) => [OverviewProofs!Next]_(OverviewProofs!vars)
  BY DEF Overview!Next, OverviewProofs!Next, Overview!Publish,
         OverviewProofs!Publish, Overview!Suffix, OverviewProofs!Suffix,
         Overview!vars, OverviewProofs!vars
<1>4. OverviewProofs!LogInv
        => LogExplainsLatest /\ LogIsSound
  BY DEF OverviewProofs!LogInv, LogExplainsLatest, LogIsSound,
         OverviewProofs!LogExplainsLatest, Overview!LogExplainsLatest,
         OverviewProofs!EventsAreMaterial, Overview!EventsAreMaterial,
         OverviewProofs!LogInReceiptOrder, Overview!LogInReceiptOrder,
         OverviewProofs!LogBounded, Overview!LogBounded,
         OverviewProofs!EventsOf, Overview!EventsOf,
         OverviewProofs!Youngest, Overview!Youngest,
         OverviewProofs!Follows, Overview!Follows
<1>5. Overview!Spec => OverviewProofs!Spec
  BY <1>2, <1>3, PTL DEF Overview!Spec, OverviewProofs!Spec
<1> QED BY <1>1, <1>4, <1>5, StoreImplementsOverview, PTL DEF ImplementsOverview

(* Every event on file is a material change between two snapshots, in the  *)
(* order of receipt and within the cap (record, l.115-140).                *)
THEOREM StoreLogSound == Spec => []LogIsSound
BY StoreLogCorrect, PTL

-----------------------------------------------------------------------------
(***************************************************************************)
(* The page server.  Its handlers wait for calls of the chain in the order *)
(* in which their rate was checked, one of them at most has a settled call *)
(* that it has not heard of, and so the rate that a handler has checked is *)
(* still true when it is answered.                                         *)
(***************************************************************************)

Waiting(r) == status[r] = "awaiting"

(* The call of a request and the response to it. *)
AnswerInv ==
  \A r \in Requests :
    /\ status[r] \in {"none", "reading"} => outcome[r] = "none"
    /\ Waiting(r) => outcome[r] \in {"pending", "resolved", "typeError", "ioError"}
    /\ status[r] = "202" => outcome[r] = "resolved"
    /\ status[r] \in Answers \ {"202"} => outcome[r] \in {"none", "typeError", "ioError"}
    /\ Waiting(r) \/ status[r] \in {"202", "429"} => body[r] \in Input

(* The calls of the chain are those that handlers wait for, in the order   *)
(* in which their rate was checked.                                        *)
ChainWaits == \A i \in DOMAIN queue : Waiting(queue[i])
PendingQueued ==
  \A r \in Requests : Waiting(r) /\ outcome[r] = "pending" => \E i \in DOMAIN queue : queue[i] = r
ChainByStamp ==
  \A i, j \in DOMAIN queue : i <= j => stamp[queue[i]] <= stamp[queue[j]]
(* One handler at a time has a settled call that it has not heard of, and  *)
(* it was checked before all that are still in the chain, behind all that  *)
(* have been answered.                                                     *)
SettledFirst ==
  \A r \in Requests : Waiting(r) /\ outcome[r] # "pending" =>
    /\ \A i \in DOMAIN queue : stamp[r] <= stamp[queue[i]]
    /\ \A q \in Requests : Waiting(q) /\ outcome[q] # "pending" => q = r
AnsweredFirst ==
  \A q \in answered, r \in Requests : Waiting(r) => stamp[q] <= stamp[r]
OrderInv == ChainWaits /\ PendingQueued /\ ChainByStamp /\ SettledFirst /\ AnsweredFirst

(* The table holds the time of the youngest submission of a family that    *)
(* this process has answered with 202.                                     *)
StampsPast == \A r \in Requests : stamp[r] <= now
AnsweredStamps ==
  \A q \in answered : status[q] = "202" /\ stamp[q] <= lastSubmissionAt[body[q].family]
TableInv ==
  \A f \in Families : lastSubmissionAt[f] # -Window =>
    \E q \in answered : body[q].family = f /\ stamp[q] = lastSubmissionAt[f]
BeforeAnswered == \A r \in Requests : \A q \in before[r] : status[q] = "202"
(* What Submit has found out of the rate stays true of r. *)
CheckedAtRate ==
  \A r \in Requests : Waiting(r) \/ status[r] = "202" =>
    \A q \in before[r] : body[q].family = body[r].family => stamp[r] - stamp[q] >= Window
RateInv == /\ StampsPast /\ AnsweredStamps /\ TableInv /\ BeforeAnswered
           /\ CheckedAtRate /\ LimitedForCause

(* Snapshots b are at least as recent as snapshots a. *)
Newer(a, b) == \A f \in Families : /\ a[f].content # None => b[f].content # None
                                   /\ a[f].at <= b[f].at
ShownInv ==
  /\ Newer(shown, file.state.latest)
  /\ up => Newer(shown, state.latest) /\ Newer(state.latest, file.state.latest)

PageIInv == IInv /\ PageTypeOK /\ AnswerInv /\ OrderInv /\ RateInv /\ ShownInv

-----------------------------------------------------------------------------
USE DEF Requests

LEMMA PageInitInv == PageInit => PageIInv
<1> SUFFICES ASSUME PageInit PROVE PageIInv
  OBVIOUS
<1> USE DEF PageInit
<1>1. IInv /\ Init
  BY InitInv
<1>2. PageTypeOK
  <2>1. 0 \in Times /\ EmptyState.latest \in [Families -> Snapshot]
    BY StoreAssumption DEF Times, EmptyState, NoSnapshot, Snapshot
  <2>2. Never \in [Families -> Times \cup {-Window}]
    BY DEF Never
  <2> QED
    BY <1>1, <2>1, <2>2 DEF PageTypeOK, IInv, Statuses
<1>3. AnswerInv
  BY <1>1 DEF AnswerInv, Init, Waiting, Answers
<1>4. OrderInv
  BY <1>1 DEF OrderInv, ChainWaits, PendingQueued, ChainByStamp, SettledFirst,
              AnsweredFirst, Waiting, Init
<1>5. RateInv
  BY <1>1 DEF RateInv, StampsPast, AnsweredStamps, TableInv, BeforeAnswered,
              CheckedAtRate, LimitedForCause, Waiting, Never, Init
<1>6. ShownInv
  BY <1>1 DEF ShownInv, Newer, Init, EmptyState, NoFile, NoSnapshot
<1> QED
  BY <1>1, <1>2, <1>3, <1>4, <1>5, <1>6 DEF PageIInv

(* A request that has made no call yet is answered, or its body is read.   *)
LEMMA EarlyInv ==
  ASSUME PageIInv, NEW r \in Requests, status[r] \in {"none", "reading"},
         NEW answer \in {"reading", "400", "403", "405", "413", "415", "500"},
         status' = [status EXCEPT ![r] = answer],
         headers' \in [Requests -> Headers \cup {None}],
         UNCHANGED <<vars, body, stamp, lastSubmissionAt, answered, before, shown>>
  PROVE  PageIInv'
<1> USE DEF PageIInv
<1>1. IInv' /\ TypeOK'
  BY StutterInv DEF IInv
<1>2. status' \in [Requests -> Statuses]
  BY DEF PageTypeOK, Statuses
<1>3. PageTypeOK'
  BY <1>1, <1>2 DEF PageTypeOK
<1>4. \A q \in Requests : /\ q # r => status'[q] = status[q]
                          /\ status'[r] = answer
                          /\ ~Waiting(r) /\ (Waiting(q)' <=> Waiting(q))
  BY DEF PageTypeOK, Waiting
<1>5. AnswerInv'
  BY <1>4 DEF AnswerInv, vars, callVars, Answers, Statuses
<1>6. OrderInv'
  <2>1. UNCHANGED <<queue, outcome, stamp, answered>> /\ queue \in Seq(Requests)
    BY DEF vars, processVars, callVars, PageTypeOK, TypeOK
  <2>2. ChainWaits'
    BY <2>1, <1>4 DEF OrderInv, ChainWaits
  <2>3. PendingQueued' /\ ChainByStamp' /\ SettledFirst' /\ AnsweredFirst'
    BY <2>1, <1>4 DEF OrderInv, PendingQueued, ChainByStamp, SettledFirst, AnsweredFirst
  <2> QED
    BY <2>2, <2>3 DEF OrderInv
<1>7. RateInv'
  <2>1. \A q \in Requests : status'[q] \in {"202", "429"} => status[q] = status'[q]
    BY <1>4
  <2>2. \A q \in Requests : status[q] = "202" => status'[q] = "202"
    BY <1>4
  <2>3. StampsPast' /\ TableInv'
    BY DEF RateInv, StampsPast, TableInv, vars
  <2>4. AnsweredStamps' /\ BeforeAnswered'
    BY <2>2 DEF RateInv, AnsweredStamps, BeforeAnswered, PageTypeOK
  <2>5. CheckedAtRate' /\ LimitedForCause'
    BY <2>1, <1>4 DEF RateInv, CheckedAtRate, LimitedForCause
  <2> QED
    BY <2>3, <2>4, <2>5 DEF RateInv
<1>8. ShownInv'
  BY DEF ShownInv, vars, processVars
<1> QED
  BY <1>1, <1>3, <1>5, <1>6, <1>7, <1>8

LEMMA ArriveInv ==
  ASSUME PageIInv, NEW r \in Requests, NEW h \in Headers, Arrive(r, h)
  PROVE  PageIInv'
<1>1. HeaderVerdict(h) \in {"reading", "403", "405", "415"}
  BY PageAssumption DEF HeaderVerdict
<1>2. headers' \in [Requests -> Headers \cup {None}]
  BY DEF Arrive, PageIInv, PageTypeOK
<1> QED
  BY <1>1, <1>2, EarlyInv DEF Arrive

LEMMA BodyFailsInv ==
  ASSUME PageIInv, NEW r \in Requests, NEW answer \in Answers, BodyFails(r, answer)
  PROVE  PageIInv'
BY EarlyInv DEF BodyFails, PageIInv, PageTypeOK


(* What a request finds out of the rate when its body has arrived.         *)
LEMMA Checked ==
  ASSUME PageIInv, NEW r \in Requests, NEW in \in Input, Submit(r, in)
  PROVE  /\ status[r] = "reading" /\ UNCHANGED <<now, headers, lastSubmissionAt, answered, shown>>
         /\ body' = [body EXCEPT ![r] = in]
         /\ stamp' = [stamp EXCEPT ![r] = now]
         /\ before' = [before EXCEPT ![r] = answered]
         /\ r \notin answered /\ \A q \in Requests : r \notin before[q]
         /\ RateLimited(in.family) =>
              \E q \in answered : body[q].family = in.family /\ now - stamp[q] < Window
         /\ ~RateLimited(in.family) =>
              \A q \in answered : body[q].family = in.family => now - stamp[q] >= Window
<1> USE DEF PageIInv
<1>1. /\ status[r] = "reading" /\ UNCHANGED <<headers, lastSubmissionAt, answered, shown>>
      /\ body' = [body EXCEPT ![r] = in]
      /\ stamp' = [stamp EXCEPT ![r] = now]
      /\ before' = [before EXCEPT ![r] = answered]
      /\ UNCHANGED vars \/ Record(r, in)
  BY DEF Submit
<1>2. UNCHANGED now
  BY <1>1 DEF vars, Record
<1>3. r \notin answered /\ \A q \in Requests : r \notin before[q]
  BY <1>1 DEF RateInv, AnsweredStamps, BeforeAnswered
<1>4. in.family \in Families /\ now \in Nat /\ Window \in Nat \ {0}
  BY PageAssumption, StoreAssumption DEF Input, PageTypeOK, TypeOK, Times
<1>5. lastSubmissionAt[in.family] \in Int /\ answered \subseteq Requests
      /\ \A q \in Requests : stamp[q] \in Nat
  BY <1>4, StoreAssumption DEF PageTypeOK, Times
<1>6. ASSUME RateLimited(in.family)
      PROVE  \E q \in answered : body[q].family = in.family /\ now - stamp[q] < Window
  <2>1. lastSubmissionAt[in.family] # -Window
    BY <1>4, <1>6 DEF RateLimited
  <2>2. PICK q \in answered :
          body[q].family = in.family /\ stamp[q] = lastSubmissionAt[in.family]
    BY <1>4, <2>1 DEF RateInv, TableInv
  <2> QED
    BY <1>6, <2>2 DEF RateLimited
<1>7. ASSUME ~RateLimited(in.family), NEW q \in answered, body[q].family = in.family
      PROVE  now - stamp[q] >= Window
  <2>1. stamp[q] <= lastSubmissionAt[in.family]
    BY <1>7 DEF RateInv, AnsweredStamps
  <2> QED
    BY <2>1, <1>4, <1>5, <1>7 DEF RateLimited
<1> QED
  BY <1>1, <1>2, <1>3, <1>6, <1>7

(* What is known of the rate of the other requests is not touched.         *)
LEMMA SubmitRate ==
  ASSUME PageIInv, NEW r \in Requests, NEW in \in Input, Submit(r, in),
         \/ RateLimited(in.family) /\ status' = [status EXCEPT ![r] = "429"]
         \/ ~RateLimited(in.family) /\ status' = [status EXCEPT ![r] = "awaiting"]
  PROVE  RateInv'
<1> USE DEF PageIInv
<1>1. /\ status[r] = "reading" /\ r \notin answered /\ \A q \in Requests : r \notin before[q]
      /\ UNCHANGED <<now, lastSubmissionAt, answered>>
      /\ body' = [body EXCEPT ![r] = in]
      /\ stamp' = [stamp EXCEPT ![r] = now]
      /\ before' = [before EXCEPT ![r] = answered]
  BY Checked
<1>2. \A q \in Requests : q # r => /\ status'[q] = status[q] /\ body'[q] = body[q]
                                   /\ stamp'[q] = stamp[q] /\ before'[q] = before[q]
  BY <1>1 DEF PageTypeOK
<1>3. stamp'[r] = now /\ body'[r] = in /\ before'[r] = answered
  BY <1>1 DEF PageTypeOK
<1>4. answered \subseteq Requests /\ \A q \in Requests : before[q] \subseteq Requests
  BY DEF PageTypeOK
<1>5. now \in Nat
  BY StoreAssumption DEF PageTypeOK, TypeOK, Times
<1>6. StampsPast'
  BY <1>1, <1>2, <1>3, <1>5 DEF RateInv, StampsPast
<1>7. AnsweredStamps'
  BY <1>1, <1>2, <1>4 DEF RateInv, AnsweredStamps
<1>8. TableInv'
  BY <1>1, <1>2, <1>4 DEF RateInv, TableInv
<1>9. BeforeAnswered'
  BY <1>1, <1>2, <1>3, <1>4 DEF RateInv, BeforeAnswered, AnsweredStamps
<1>10. CheckedAtRate'
  <2> SUFFICES ASSUME NEW p \in Requests, Waiting(p)' \/ status'[p] = "202",
                      NEW q \in before'[p], body'[q].family = body'[p].family
               PROVE  stamp'[p] - stamp'[q] >= Window
    BY DEF CheckedAtRate
  <2>1. CASE p = r
    <3>1. ~RateLimited(in.family)
      BY <2>1 DEF PageTypeOK, Waiting
    <3>2. q \in answered /\ q # r
      BY <2>1, <1>1, <1>3
    <3>3. body[q].family = in.family
      BY <3>2, <2>1, <1>2, <1>3, <1>4
    <3>4. now - stamp[q] >= Window
      BY <3>1, <3>2, <3>3, Checked
    <3> QED
      BY <3>2, <3>4, <2>1, <1>2, <1>3, <1>4
  <2>2. CASE p # r
    <3>1. q \in before[p] /\ q # r
      BY <2>2, <1>1, <1>2
    <3> QED
      BY <3>1, <2>2, <1>2, <1>4 DEF RateInv, CheckedAtRate, Waiting
  <2> QED
    BY <2>1, <2>2
<1>11. LimitedForCause'
  <2> SUFFICES ASSUME NEW p \in Requests, status'[p] = "429"
               PROVE  \E q \in before'[p] : body'[q].family = body'[p].family
                                            /\ stamp'[p] - stamp'[q] < Window
    BY DEF LimitedForCause
  <2>1. CASE p = r
    <3>1. RateLimited(in.family)
      BY <2>1 DEF PageTypeOK
    <3>2. PICK q \in answered : body[q].family = in.family /\ now - stamp[q] < Window
      BY <3>1, Checked
    <3>3. q # r
      BY <3>2, <1>1
    <3> QED
      BY <3>2, <3>3, <2>1, <1>2, <1>3, <1>4
  <2>2. CASE p # r
    <3>1. PICK q \in before[p] : body[q].family = body[p].family
                                 /\ stamp[p] - stamp[q] < Window
      BY <2>2, <1>2 DEF RateInv, LimitedForCause
    <3>2. q # r
      BY <3>1, <1>1
    <3> QED
      BY <3>1, <3>2, <2>2, <1>2, <1>4
  <2> QED
    BY <2>1, <2>2
<1> QED
  BY <1>6, <1>7, <1>8, <1>9, <1>10, <1>11 DEF RateInv

LEMMA SubmitInv ==
  ASSUME PageIInv, NEW r \in Requests, NEW in \in Input, Submit(r, in)
  PROVE  PageIInv'
<1> USE DEF PageIInv
<1>1. /\ status[r] = "reading" /\ UNCHANGED <<headers, lastSubmissionAt, answered, shown>>
      /\ body' = [body EXCEPT ![r] = in]
      /\ stamp' = [stamp EXCEPT ![r] = now]
      /\ before' = [before EXCEPT ![r] = answered] /\ r \notin answered
  BY Checked
<1>2. \/ /\ RateLimited(in.family) /\ status' = [status EXCEPT ![r] = "429"]
         /\ UNCHANGED vars
      \/ /\ ~RateLimited(in.family) /\ status' = [status EXCEPT ![r] = "awaiting"]
         /\ Record(r, in)
  BY DEF Submit
<1>3. IInv'
  BY <1>2, StutterInv, RecordInv
<1>4. PageTypeOK'
  <2>1. TypeOK'
    BY <1>3 DEF IInv
  <2>2. status' \in [Requests -> Statuses]
    BY <1>2 DEF PageTypeOK, Statuses
  <2>3. body' \in [Requests -> Input \cup {None}] /\ stamp' \in [Requests -> Times]
        /\ before' \in [Requests -> SUBSET Requests]
    BY <1>1 DEF PageTypeOK, TypeOK
  <2> QED
    BY <1>1, <2>1, <2>2, <2>3 DEF PageTypeOK
<1>5. \A q \in Requests : q # r => /\ status'[q] = status[q] /\ body'[q] = body[q]
                                   /\ stamp'[q] = stamp[q] /\ outcome'[q] = outcome[q]
  BY <1>1, <1>2 DEF PageTypeOK, TypeOK, Record, vars, callVars
<1>6. body'[r] = in /\ stamp'[r] = now
  BY <1>1 DEF PageTypeOK
<1>7. AnswerInv'
  <2>1. \/ status'[r] = "429" /\ outcome'[r] = outcome[r]
        \/ status'[r] = "awaiting" /\ outcome'[r] = "pending"
    BY <1>2 DEF PageTypeOK, TypeOK, Record, vars, callVars
  <2>2. outcome[r] = "none"
    BY <1>1 DEF AnswerInv
  <2> QED
    BY <1>5, <1>6, <2>1, <2>2 DEF AnswerInv, Waiting, Answers, Statuses
<1>8. OrderInv'
  <2>1. Drained /\ \A q \in Requests : Waiting(q) => outcome[q] = "pending"
    BY DEF Submit, Drained, Waiting
  <2>2. ~Waiting(r) /\ queue \in Seq(Requests) /\ answered \subseteq Requests
    BY <1>1 DEF Waiting, PageTypeOK, TypeOK
  <2>3. \A i \in DOMAIN queue : queue[i] # r /\ queue[i] \in Requests
    BY <2>2 DEF OrderInv, ChainWaits
  <2>4. now \in Nat /\ \A q \in Requests : stamp[q] \in Nat /\ stamp[q] <= now
    BY StoreAssumption DEF RateInv, StampsPast, PageTypeOK, TypeOK, Times
  <2>5. CASE UNCHANGED vars
    <3>1. UNCHANGED <<queue, outcome>> /\ ~Waiting(r)'
      BY <2>5, <1>2, <1>1 DEF vars, processVars, callVars, Waiting, PageTypeOK, Record
    <3>2. ChainWaits' /\ PendingQueued' /\ ChainByStamp'
      BY <3>1, <2>3, <1>5 DEF OrderInv, ChainWaits, PendingQueued, ChainByStamp, Waiting
    <3>3. SettledFirst' /\ AnsweredFirst'
      BY <3>1, <2>3, <2>2, <1>1, <1>5 DEF OrderInv, SettledFirst, AnsweredFirst, Waiting
    <3> QED
      BY <3>2, <3>3 DEF OrderInv
  <2>6. CASE Record(r, in) /\ status' = [status EXCEPT ![r] = "awaiting"]
    <3>1. /\ DOMAIN queue' = 1 .. Len(queue) + 1
          /\ queue'[Len(queue) + 1] = r
          /\ \A i \in 1 .. Len(queue) : queue'[i] = queue[i]
          /\ DOMAIN queue = 1 .. Len(queue) /\ Len(queue) \in Nat
      BY <2>2, <2>6 DEF Record
    <3>2. status'[r] = "awaiting" /\ outcome'[r] = "pending"
      BY <2>6 DEF Record, PageTypeOK, TypeOK
    <3>3. ChainWaits'
      BY <3>1, <3>2, <2>3, <1>5 DEF OrderInv, ChainWaits, Waiting
    <3>4. PendingQueued'
      BY <3>1, <1>5 DEF OrderInv, PendingQueued, Waiting
    <3>5. ChainByStamp'
      <4> SUFFICES ASSUME NEW i \in DOMAIN queue', NEW j \in DOMAIN queue', i <= j
                   PROVE  stamp'[queue'[i]] <= stamp'[queue'[j]]
        BY DEF ChainByStamp
      <4>1. CASE j = Len(queue) + 1
        BY <4>1, <3>1, <2>3, <2>4, <1>5, <1>6
      <4>2. CASE j # Len(queue) + 1
        BY <4>2, <3>1, <2>3, <1>5 DEF OrderInv, ChainByStamp
      <4> QED
        BY <4>1, <4>2
    <3>6. SettledFirst'
      BY <3>2, <2>1, <1>5 DEF SettledFirst, Waiting
    <3>7. AnsweredFirst'
      BY <2>2, <2>4, <1>1, <1>5, <1>6 DEF OrderInv, AnsweredFirst, Waiting
    <3> QED
      BY <3>3, <3>4, <3>5, <3>6, <3>7 DEF OrderInv
  <2> QED
    BY <1>2, <2>5, <2>6
<1>9. RateInv'
  BY <1>2, SubmitRate
<1>10. ShownInv'
  BY <1>1, <1>2 DEF ShownInv, vars, processVars, Record
<1> QED
  BY <1>3, <1>4, <1>7, <1>8, <1>9, <1>10


(* The handler of a settled call goes on: no other one waits for a settled *)
(* call, and those that wait for the chain were checked later.             *)
LEMMA ResumeOrder ==
  ASSUME PageIInv, NEW r \in Requests, Waiting(r), outcome[r] # "pending",
         NEW answer \in Answers, status' = [status EXCEPT ![r] = answer],
         answered' = answered \/ answered' = answered \cup {r},
         UNCHANGED <<queue, outcome, stamp>>
  PROVE  OrderInv' /\ \A q \in Requests : Waiting(q)' => stamp[r] <= stamp[q]
<1> USE DEF PageIInv
<1>1. \A q \in Requests : /\ q # r => status'[q] = status[q]
                          /\ ~Waiting(r)' /\ (Waiting(q)' => Waiting(q) /\ q # r)
  BY DEF PageTypeOK, Waiting, Answers
<1>2. queue \in Seq(Requests) /\ \A i \in DOMAIN queue : queue[i] # r
  BY DEF IInv, ChainInv, PageTypeOK, TypeOK
<1>3. \A q \in Requests : Waiting(q)' => \E i \in DOMAIN queue : queue[i] = q
  BY <1>1 DEF OrderInv, SettledFirst, PendingQueued
<1>4. \A q \in Requests : Waiting(q)' => stamp[r] <= stamp[q]
  BY <1>3 DEF OrderInv, SettledFirst
<1>5. ChainWaits'
  BY <1>1, <1>2 DEF OrderInv, ChainWaits, Waiting
<1>6. PendingQueued' /\ ChainByStamp'
  BY <1>1 DEF OrderInv, PendingQueued, ChainByStamp
<1>7. SettledFirst'
  BY <1>1 DEF OrderInv, SettledFirst
<1>8. AnsweredFirst'
  BY <1>1, <1>4 DEF OrderInv, AnsweredFirst
<1> QED
  BY <1>4, <1>5, <1>6, <1>7, <1>8 DEF OrderInv

(* The table is overwritten with a time that is not older.                 *)
LEMMA AcceptInv ==
  ASSUME PageIInv, NEW r \in Requests, Accept(r)
  PROVE  PageIInv'
<1> USE DEF PageIInv
<1>1. /\ Waiting(r) /\ outcome[r] = "resolved"
      /\ lastSubmissionAt' = [lastSubmissionAt EXCEPT ![body[r].family] = stamp[r]]
      /\ status' = [status EXCEPT ![r] = "202"] /\ answered' = answered \cup {r}
      /\ UNCHANGED <<vars, headers, body, stamp, before, shown>>
  BY DEF Accept, Waiting
<1>2. IInv' /\ TypeOK'
  BY <1>1, StutterInv DEF IInv
<1>3. body[r] \in Input /\ body[r].family \in Families
  BY <1>1 DEF AnswerInv, Input
<1>4. PageTypeOK'
  <2>1. status' \in [Requests -> Statuses]
    BY <1>1 DEF PageTypeOK, Statuses
  <2>2. lastSubmissionAt' \in [Families -> Times \cup {-Window}]
    BY <1>1 DEF PageTypeOK
  <2> QED
    BY <1>1, <1>2, <2>1, <2>2 DEF PageTypeOK
<1>5. \A q \in Requests : /\ q # r => status'[q] = status[q]
                          /\ status'[r] = "202" /\ (Waiting(q)' => Waiting(q))
  BY <1>1 DEF PageTypeOK, Waiting
<1>6. AnswerInv'
  BY <1>1, <1>3, <1>5 DEF AnswerInv, vars, callVars, Waiting, Answers
<1>7. UNCHANGED <<queue, outcome, stamp>>
  BY <1>1 DEF vars, processVars, callVars
<1>8. OrderInv'
  BY <1>1, <1>7, ResumeOrder DEF Answers, Statuses
<1>9. RateInv'
  <2>1. StampsPast'
    BY <1>1 DEF RateInv, StampsPast, vars
  <2>2. answered \subseteq Requests /\ \A q \in Requests : stamp[q] \in Nat
    BY StoreAssumption DEF PageTypeOK, Times
  <2>3. \A f \in Families : lastSubmissionAt'[f] = IF f = body[r].family
                              THEN stamp[r] ELSE lastSubmissionAt[f]
    BY <1>1 DEF PageTypeOK
  <2>4. AnsweredStamps'
    <3> SUFFICES ASSUME NEW q \in answered'
                 PROVE  status'[q] = "202" /\ stamp[q] <= lastSubmissionAt'[body[q].family]
      BY <1>1 DEF AnsweredStamps
    <3>1. CASE q = r
      BY <3>1, <2>2, <2>3, <1>3, <1>5
    <3>2. CASE q # r
      <4>1. /\ q \in answered /\ q \in Requests /\ status[q] = "202"
            /\ stamp[q] <= lastSubmissionAt[body[q].family]
        BY <3>2, <1>1, <2>2 DEF RateInv, AnsweredStamps
      <4>2. stamp[q] <= stamp[r]
        BY <4>1, <1>1 DEF OrderInv, AnsweredFirst
      <4>3. body[q].family \in Families
        BY <4>1 DEF AnswerInv, Input
      <4> QED
        BY <3>2, <4>1, <4>2, <4>3, <2>3, <1>5
    <3> QED
      BY <3>1, <3>2
  <2>5. TableInv'
    BY <2>3, <1>1 DEF RateInv, TableInv
  <2>6. BeforeAnswered'
    BY <1>1, <1>5 DEF RateInv, BeforeAnswered, PageTypeOK
  <2>7. CheckedAtRate' /\ LimitedForCause'
    BY <1>1, <1>5 DEF RateInv, CheckedAtRate, LimitedForCause
  <2> QED
    BY <2>1, <2>4, <2>5, <2>6, <2>7 DEF RateInv
<1>10. ShownInv'
  BY <1>1 DEF ShownInv, vars, processVars
<1> QED
  BY <1>2, <1>4, <1>6, <1>8, <1>9, <1>10

LEMMA RejectInv ==
  ASSUME PageIInv, NEW r \in Requests, Reject(r)
  PROVE  PageIInv'
<1> USE DEF PageIInv
<1>1. PICK answer \in {"400", "500"} :
        /\ Waiting(r) /\ outcome[r] \in {"typeError", "ioError"}
        /\ status' = [status EXCEPT ![r] = answer]
        /\ UNCHANGED <<vars, headers, body, stamp, lastSubmissionAt, answered, before, shown>>
  BY DEF Reject, Waiting
<1>2. IInv' /\ TypeOK'
  BY <1>1, StutterInv DEF IInv
<1>3. PageTypeOK'
  <2>1. status' \in [Requests -> Statuses]
    BY <1>1 DEF PageTypeOK, Statuses
  <2> QED
    BY <1>1, <1>2, <2>1 DEF PageTypeOK
<1>4. \A q \in Requests : /\ q # r => status'[q] = status[q]
                          /\ status'[r] = answer /\ (Waiting(q)' => Waiting(q))
                          /\ status[r] # "202"
  BY <1>1 DEF PageTypeOK, Waiting
<1>5. AnswerInv'
  BY <1>1, <1>4 DEF AnswerInv, vars, callVars, Waiting, Answers
<1>6. UNCHANGED <<queue, outcome, stamp>>
  BY <1>1 DEF vars, processVars, callVars
<1>7. OrderInv'
  BY <1>1, <1>6, ResumeOrder DEF Answers, Statuses
<1>8. RateInv'
  <2>1. StampsPast' /\ TableInv'
    BY <1>1 DEF RateInv, StampsPast, TableInv, vars
  <2>2. AnsweredStamps' /\ BeforeAnswered'
    BY <1>1, <1>4 DEF RateInv, AnsweredStamps, BeforeAnswered, PageTypeOK
  <2>3. CheckedAtRate' /\ LimitedForCause'
    BY <1>1, <1>4 DEF RateInv, CheckedAtRate, LimitedForCause
  <2> QED
    BY <2>1, <2>2, <2>3 DEF RateInv
<1>9. ShownInv'
  BY <1>1 DEF ShownInv, vars, processVars
<1> QED
  BY <1>2, <1>3, <1>5, <1>7, <1>8, <1>9

LEMMA Untouched ==
  ASSUME PageIInv, UNCHANGED <<vars, status, headers, body, stamp, lastSubmissionAt,
                               answered, before>>
  PROVE  IInv' /\ AnswerInv' /\ OrderInv' /\ RateInv'
<1>1. IInv'
  BY StutterInv DEF PageIInv
<1>2. AnswerInv'
  BY DEF PageIInv, AnswerInv, Waiting, vars, callVars
<1>3. OrderInv'
  BY DEF PageIInv, OrderInv, ChainWaits, PendingQueued, ChainByStamp, SettledFirst,
         AnsweredFirst, Waiting, vars, processVars, callVars
<1>4. RateInv'
  BY DEF PageIInv, RateInv, StampsPast, AnsweredStamps, TableInv, BeforeAnswered,
         CheckedAtRate, LimitedForCause, Waiting, vars
<1> QED
  BY <1>1, <1>2, <1>3, <1>4

LEMMA GetInv ==
  ASSUME PageIInv, Get
  PROVE  PageIInv' /\ Newer(shown, shown')
<1>1. IInv' /\ AnswerInv' /\ OrderInv' /\ RateInv'
  BY Untouched DEF Get
<1>2. shown' = state.latest /\ up /\ UNCHANGED <<vars, up, state, file>>
  BY DEF Get, vars, processVars
<1>3. state.latest \in [Families -> Snapshot]
  BY DEF PageIInv, PageTypeOK, TypeOK, State
<1>4. PageTypeOK'
  BY <1>1, <1>2, <1>3 DEF Get, PageIInv, PageTypeOK, IInv
<1>5. Newer(state.latest, state.latest)
  BY <1>3, StoreAssumption DEF Newer, Snapshot, Times
<1>6. ShownInv' /\ Newer(shown, shown')
  BY <1>2, <1>5 DEF PageIInv, ShownInv
<1> QED
  BY <1>1, <1>4, <1>6 DEF PageIInv


LEMMA PageTickInv ==
  ASSUME PageIInv, Tick, UNCHANGED pageVars
  PROVE  PageIInv'
<1> USE DEF PageIInv
<1>1. IInv'
  BY TickInv
<1>2. UNCHANGED <<up, queue, outcome, state, file>> /\ now' = now + 1
  BY DEF Tick, processVars, callVars
<1>3. PageTypeOK'
  BY <1>1 DEF IInv, PageTypeOK, pageVars
<1>4. AnswerInv' /\ ShownInv'
  BY <1>2 DEF AnswerInv, ShownInv, Waiting, pageVars
<1>5. OrderInv'
  BY <1>2 DEF OrderInv, ChainWaits, PendingQueued, ChainByStamp, SettledFirst,
              AnsweredFirst, Waiting, pageVars
<1>6. StampsPast'
  BY <1>2, StoreAssumption DEF RateInv, StampsPast, PageTypeOK, TypeOK, Times, pageVars
<1>7. RateInv'
  BY <1>6 DEF RateInv, AnsweredStamps, TableInv, BeforeAnswered, CheckedAtRate,
              LimitedForCause, Waiting, pageVars
<1> QED
  BY <1>1, <1>3, <1>4, <1>5, <1>7

(* The chain settles its first call or none.                               *)
Settled(result) ==
  /\ queue # <<>> /\ queue' = Tail(queue)
  /\ outcome' = [outcome EXCEPT ![Head(queue)] = result]
LEMMA AdvanceSettles ==
  ASSUME IInv, Advance
  PROVE  /\ UNCHANGED <<up, now>>
         /\ \/ UNCHANGED <<queue, outcome>>
            \/ \E result \in {"resolved", "typeError", "ioError"} : Settled(result)
BY DEF Advance, Begin, Refuse, OpenTemporary, WriteTemporary, Rename, Fail, Assign, At,
       Settle, Settled, callVars

LEMMA AdvanceOrder ==
  ASSUME PageIInv, Drained, UNCHANGED pageVars,
         NEW result \in {"resolved", "typeError", "ioError"}, Settled(result)
  PROVE  OrderInv' /\ AnswerInv'
<1> USE DEF PageIInv
<1> DEFINE h == Head(queue)
<1>1. /\ h \in Requests /\ h = queue[1] /\ 1 \in DOMAIN queue
      /\ queue \in Seq(Requests)
      /\ DOMAIN queue' = 1 .. Len(queue) - 1 /\ DOMAIN queue = 1 .. Len(queue)
      /\ \A i \in DOMAIN queue' : queue'[i] = queue[i + 1] /\ i + 1 \in DOMAIN queue
  BY DEF PageTypeOK, TypeOK, Settled
<1>2. \A q \in Requests : /\ q # h => outcome'[q] = outcome[q]
                          /\ outcome'[h] = result
  BY <1>1 DEF PageTypeOK, TypeOK, Settled
<1>3. \A q \in Requests : Waiting(q) => outcome[q] = "pending"
  BY DEF Drained, Waiting
<1>4. Waiting(h) /\ UNCHANGED <<status, stamp, answered, body>>
  BY <1>1 DEF OrderInv, ChainWaits, pageVars
<1> HIDE DEF h
<1>5. AnswerInv'
  BY <1>2, <1>4, <1>1 DEF AnswerInv, Waiting, Answers
<1>6. ChainWaits'
  BY <1>1, <1>4 DEF OrderInv, ChainWaits, Waiting
<1>7. PendingQueued'
  <2> SUFFICES ASSUME NEW q \in Requests, Waiting(q)', outcome'[q] = "pending"
               PROVE  \E i \in DOMAIN queue' : queue'[i] = q
    BY DEF PendingQueued
  <2>1. Waiting(q) /\ q # h
    BY <1>2, <1>4 DEF Waiting
  <2>2. PICK i \in DOMAIN queue : queue[i] = q
    BY <2>1, <1>3 DEF OrderInv, PendingQueued
  <2>3. i # 1
    BY <2>1, <2>2, <1>1
  <2>4. i - 1 \in DOMAIN queue' /\ (i - 1) + 1 = i
    BY <2>2, <2>3, <1>1
  <2> QED
    BY <2>2, <2>4, <1>1
<1>8. ChainByStamp'
  <2> SUFFICES ASSUME NEW i \in DOMAIN queue', NEW j \in DOMAIN queue', i <= j
               PROVE  stamp[queue'[i]] <= stamp[queue'[j]]
    BY <1>4 DEF ChainByStamp
  <2>1. i + 1 <= j + 1 /\ i + 1 \in DOMAIN queue /\ j + 1 \in DOMAIN queue
    BY <1>1
  <2>2. stamp[queue[i + 1]] <= stamp[queue[j + 1]]
    BY <2>1 DEF OrderInv, ChainByStamp
  <2> QED
    BY <2>2, <1>1
<1>9. SettledFirst'
  <2>1. \A q \in Requests : Waiting(q)' /\ outcome'[q] # "pending" => q = h
    BY <1>2, <1>3, <1>4 DEF Waiting
  <2>2. \A i \in DOMAIN queue' : stamp[h] <= stamp[queue'[i]]
    <3> SUFFICES ASSUME NEW i \in DOMAIN queue' PROVE stamp[h] <= stamp[queue'[i]]
      OBVIOUS
    <3>1. 1 <= i + 1 /\ i + 1 \in DOMAIN queue
      BY <1>1
    <3>2. stamp[queue[1]] <= stamp[queue[i + 1]]
      BY <3>1, <1>1 DEF OrderInv, ChainByStamp
    <3> QED
      BY <3>2, <1>1
  <2> QED
    BY <2>1, <2>2, <1>4 DEF SettledFirst
<1>10. AnsweredFirst'
  BY <1>4 DEF OrderInv, AnsweredFirst, Waiting
<1> QED
  BY <1>5, <1>6, <1>7, <1>8, <1>9, <1>10 DEF OrderInv

(* A rename and an assignment only bring newer snapshots.                  *)
LEMMA AdvanceShown ==
  ASSUME PageIInv, Advance, UNCHANGED pageVars
  PROVE  ShownInv'
<1> USE DEF PageIInv
<1>1. up /\ UNCHANGED <<up, shown>>
  BY AdvanceSettles DEF Advance, Begin, Refuse, OpenTemporary, WriteTemporary, Rename, Fail,
                        Assign, At, pageVars
<1>2. Rename \/ Assign \/ UNCHANGED <<state, file>>
  BY DEF Advance, Begin, Refuse, OpenTemporary, WriteTemporary, Fail
<1>3. /\ \A f \in Families : state.latest[f].at \in Nat /\ file.state.latest[f].at \in Nat
                             /\ shown[f].at \in Nat
      /\ file.state.latest \in [Families -> Snapshot]
  BY StoreAssumption DEF PageTypeOK, TypeOK, State, File, Snapshot, Times
<1>4. CASE Rename
  <2>1. PICK at \in 0 .. now :
          /\ \A f \in Families : file.state.latest[f].at <= at
          /\ file' = Whole(next)
          /\ Acceptable(input[Head(queue)])
          /\ next.latest = [file.state.latest EXCEPT ![input[Head(queue)].family] =
               [content |-> input[Head(queue)].content, at |-> at]]
    BY <1>4, RenameReplaces
  <2>2. input[Head(queue)].content # None
    BY <2>1, StoreAssumption DEF Acceptable
  <2>3. file'.state.latest = next.latest
    BY <2>1 DEF Whole
  <2>4. Newer(file.state.latest, file'.state.latest)
    BY <2>1, <2>2, <2>3, <1>3 DEF Newer
  <2>5. \A f \in Families : file'.state.latest[f].at \in Nat
    <3>1. at \in Nat
      BY StoreAssumption DEF PageTypeOK, TypeOK, Times
    <3> QED
      BY <2>1, <2>3, <3>1, <1>3
  <2>6. UNCHANGED state
    BY <1>4 DEF Rename
  <2> QED
    BY <2>4, <2>5, <2>6, <1>1, <1>3 DEF ShownInv, Newer
<1>5. CASE Assign
  <2>1. file = Whole(next) /\ state' = next /\ UNCHANGED file
    BY <1>5 DEF Assign, At, IInv, FileInv, ServedIsDurable
  <2>2. state'.latest = file.state.latest
    BY <2>1 DEF Whole
  <2> QED
    BY <2>1, <2>2, <1>1, <1>3 DEF ShownInv, Newer
<1>6. CASE UNCHANGED <<state, file>>
  BY <1>6, <1>1 DEF ShownInv
<1> QED
  BY <1>2, <1>4, <1>5, <1>6

LEMMA PageAdvanceInv ==
  ASSUME PageIInv, Drained, Advance, UNCHANGED pageVars
  PROVE  PageIInv'
<1>1. IInv'
  BY BeginInv, RefuseInv, OpenTemporaryInv, WriteTemporaryInv, RenameInv, FailInv, AssignInv
     DEF Advance, PageIInv
<1>2. PageTypeOK'
  BY <1>1 DEF IInv, PageIInv, PageTypeOK, pageVars
<1>3. AnswerInv' /\ OrderInv'
  <2>1. CASE UNCHANGED <<queue, outcome>>
    BY <2>1 DEF PageIInv, AnswerInv, OrderInv, ChainWaits, PendingQueued, ChainByStamp,
                SettledFirst, AnsweredFirst, Waiting, pageVars
  <2> QED
    BY <2>1, AdvanceSettles, AdvanceOrder DEF PageIInv
<1>4. UNCHANGED now
  BY AdvanceSettles DEF PageIInv
<1>5. RateInv'
  BY <1>4 DEF PageIInv, RateInv, StampsPast, AnsweredStamps, TableInv, BeforeAnswered,
              CheckedAtRate, LimitedForCause, Waiting, pageVars
<1> QED
  BY <1>1, <1>2, <1>3, <1>5, AdvanceShown DEF PageIInv

(* The connections and the table die with the process; what was shown is   *)
(* on file.                                                                *)
LEMMA PageCrashInv ==
  ASSUME PageIInv, PageCrash
  PROVE  PageIInv'
<1> USE DEF PageIInv
<1>1. /\ UNCHANGED <<file, now, headers, body, stamp, before, shown>>
      /\ up' = FALSE /\ queue' = <<>> /\ answered' = {} /\ lastSubmissionAt' = Never
      /\ outcome' = [c \in Calls |-> IF outcome[c] = "pending" THEN "lost" ELSE outcome[c]]
      /\ status' = [r \in Requests |-> IF status[r] \in {"reading", "awaiting"}
                                         THEN "lost" ELSE status[r]]
  BY DEF PageCrash, Crash
<1>2. IInv'
  BY CrashInv DEF PageCrash
<1>3. \A r \in Requests : /\ ~Waiting(r)' /\ status'[r] # "reading"
                          /\ status[r] = "202" => status'[r] = "202"
                          /\ status'[r] \in Answers \cup {"none"} => status'[r] = status[r]
                          /\ outcome[r] # "pending" => outcome'[r] = outcome[r]
  BY <1>1 DEF Waiting, Answers, Statuses
<1>4. PageTypeOK'
  <2>1. status' \in [Requests -> Statuses]
    BY <1>1 DEF PageTypeOK, Statuses
  <2>2. lastSubmissionAt' \in [Families -> Times \cup {-Window}]
    BY <1>1 DEF Never
  <2> QED
    BY <1>1, <1>2, <2>1, <2>2 DEF PageTypeOK, IInv
<1>5. AnswerInv'
  <2> SUFFICES ASSUME NEW r \in Requests
               PROVE  /\ status'[r] \in {"none", "reading"} => outcome'[r] = "none"
                      /\ status'[r] = "202" => outcome'[r] = "resolved"
                      /\ status'[r] \in Answers \ {"202"} =>
                           outcome'[r] \in {"none", "typeError", "ioError"}
                      /\ status'[r] \in {"202", "429"} => body'[r] \in Input
    BY <1>3 DEF AnswerInv
  <2> QED
    BY <1>1, <1>3 DEF AnswerInv, Answers, Statuses
<1>6. OrderInv'
  BY <1>1, <1>3 DEF OrderInv, ChainWaits, PendingQueued, ChainByStamp, SettledFirst,
                    AnsweredFirst
<1>7. RateInv'
  <2>1. StampsPast' /\ AnsweredStamps'
    BY <1>1 DEF RateInv, StampsPast, AnsweredStamps
  <2>2. TableInv'
    BY <1>1 DEF TableInv, Never
  <2>3. BeforeAnswered'
    BY <1>1, <1>3 DEF RateInv, BeforeAnswered, PageTypeOK
  <2>4. CheckedAtRate' /\ LimitedForCause'
    BY <1>1, <1>3 DEF RateInv, CheckedAtRate, LimitedForCause, Answers, Statuses
  <2> QED
    BY <2>1, <2>2, <2>3, <2>4 DEF RateInv
<1>8. ShownInv'
  BY <1>1 DEF ShownInv
<1> QED
  BY <1>2, <1>4, <1>5, <1>6, <1>7, <1>8

LEMMA PageStartInv ==
  ASSUME PageIInv, PageStart
  PROVE  PageIInv'
<1> USE DEF PageIInv
<1>1. IInv'
  BY StartInv DEF PageStart
<1>2. UNCHANGED <<queue, outcome, now, file>> /\ UNCHANGED pageVars
  BY DEF PageStart, Start, callVars
<1>3. PageTypeOK'
  BY <1>1, <1>2 DEF IInv, PageTypeOK, pageVars
<1>4. AnswerInv' /\ OrderInv'
  BY <1>2 DEF AnswerInv, OrderInv, ChainWaits, PendingQueued, ChainByStamp, SettledFirst,
              AnsweredFirst, Waiting, pageVars
<1>5. RateInv'
  BY <1>2 DEF RateInv, StampsPast, AnsweredStamps, TableInv, BeforeAnswered, CheckedAtRate,
              LimitedForCause, Waiting, pageVars
<1>6. ShownInv'
  <2>1. state'.latest = file.state.latest
    BY DEF PageStart, Start, Loaded
  <2>2. Newer(file.state.latest, file.state.latest)
    BY StoreAssumption DEF Newer, PageTypeOK, TypeOK, File, State, Snapshot, Times
  <2> QED
    BY <2>1, <2>2, <1>2 DEF ShownInv, pageVars
<1> QED
  BY <1>1, <1>3, <1>4, <1>5, <1>6

LEMMA PageNextInvariant == PageIInv /\ [PageNext]_allVars => PageIInv'
<1> SUFFICES ASSUME PageIInv, [PageNext]_allVars PROVE PageIInv'
  OBVIOUS
<1>1. CASE \E r \in Requests : \E h \in Headers : Arrive(r, h)
  BY <1>1, ArriveInv
<1>2. CASE \E r \in Requests : BodyEnds(r)
  BY <1>2, BodyFailsInv, SubmitInv DEF BodyEnds
<1>3. CASE \E r \in Requests : Handle(r)
  BY <1>3, AcceptInv, RejectInv DEF Handle
<1>4. CASE Get \/ PageCrash \/ PageStart
  BY <1>4, GetInv, PageCrashInv, PageStartInv
<1>5. CASE StoreStep
  BY <1>5, PageAdvanceInv, PageTickInv DEF StoreStep
<1>6. CASE UNCHANGED allVars
  BY <1>6, Untouched DEF allVars, pageVars, vars, processVars, PageIInv, PageTypeOK,
                         ShownInv, IInv
<1> QED
  BY <1>1, <1>2, <1>3, <1>4, <1>5, <1>6 DEF PageNext

LEMMA PageInvariance == PageSpec => []PageIInv
BY PageInitInv, PageNextInvariant, PTL DEF PageSpec

(* Every variable of the page server has its type, together with those of  *)
(* the store below it (scripts/serve-page.mjs, /api/browser-results).      *)
THEOREM PageTypeCorrect == PageSpec => []PageTypeOK
<1>1. PageIInv => PageTypeOK
  BY DEF PageIInv
<1> QED
  BY <1>1, PageInvariance, PTL

(* After 202 the submission is on file and stays known whatever crashes;   *)
(* after any refusal it has left no trace (handler of the POST).           *)
THEOREM PageAnswersTellTheTruth == PageSpec => []AnswersTellTheTruth
<1>1. PageIInv => AnswersTellTheTruth
  <2> SUFFICES ASSUME PageIInv, NEW r \in Requests
               PROVE  /\ status[r] = "202" => Committed(r)
                      /\ status[r] \in Answers \ {"202"} => ~Committed(r)
    BY DEF AnswersTellTheTruth
  <2>1. outcome[r] = "resolved" => Committed(r)
    BY DEF PageIInv, IInv, CommitInv
  <2>2. Committed(r) => outcome[r] \in {"resolved", "lost", "pending"}
    BY DEF PageIInv, IInv, CommitInv, Committed
  <2> QED
    BY <2>1, <2>2 DEF PageIInv, AnswerInv
<1> QED
  BY <1>1, PageInvariance, PTL

(* A submission checked after another of its family was answered with 202  *)
(* is accepted a full Window later only, although the table is written     *)
(* behind the await (rate limit of the POST).                              *)
THEOREM PageAcceptedAtRate == PageSpec => []AcceptedAtRate
<1>1. PageIInv => AcceptedAtRate
  BY DEF PageIInv, RateInv, CheckedAtRate, AcceptedAtRate
<1> QED
  BY <1>1, PageInvariance, PTL

(* A 429 is owed to a submission of the family that this process accepted  *)
(* within the Window.                                                      *)
THEOREM PageLimitedForCause == PageSpec => []LimitedForCause
<1>1. PageIInv => LimitedForCause
  BY DEF PageIInv, RateInv
<1> QED
  BY <1>1, PageInvariance, PTL

(* What GET shows never goes back, across crashes and restarts.            *)
THEOREM PageReadsNeverRegress == PageSpec => ReadsNeverRegress
<1>1. ASSUME PageIInv, [PageNext]_allVars PROVE Get \/ UNCHANGED shown
  BY <1>1 DEF PageNext, Arrive, BodyEnds, BodyFails, Submit, Handle, Accept, Reject, StoreStep,
              PageCrash, PageStart, pageVars, allVars
<1>2. PageIInv /\ [PageNext]_allVars =>
        [\A f \in Families : /\ shown[f].content # None => shown'[f].content # None
                             /\ shown[f].at <= shown'[f].at]_shown
  BY <1>1, GetInv DEF Newer
<1> QED
  BY <1>2, PageInvariance, PTL DEF PageSpec, ReadsNeverRegress

(* Below the page server the store does nothing but its own steps, so that *)
(* all that is proved of the store holds of it here.                       *)
THEOREM PageUsesStore == PageSpec => Init /\ [][Next]_vars
<1>1. PageInit => Init
  BY DEF PageInit
<1>2. [PageNext]_allVars => [Next]_vars
  BY DEF PageNext, Arrive, BodyEnds, BodyFails, Submit, Handle, Accept, Reject, Get,
         StoreStep, PageCrash, PageStart, allVars, Next, Requests
<1> QED
  BY <1>1, <1>2, PTL DEF PageSpec
=============================================================================
