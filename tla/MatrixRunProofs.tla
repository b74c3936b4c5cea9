--------------------------- MODULE MatrixRunProofs ---------------------------
(***************************************************************************)
(* Proofs about MatrixRun, for any number of runs and combinations.        *)
(*                                                                         *)
(* A run that never had another one beside it has the page's globals for   *)
(* itself from its first case to its last: that is what the invariant says *)
(* of them, and what it says of the others are only their types.           *)
(***************************************************************************)
EXTENDS MatrixRun, SequenceTheorems, TLAPS

Places == {"none", "loading", "case", "between", "control", "enabled", "posting", "done"}
Busy == {"case", "between"} \cup Halves
Modes == {"exhaustive", "selected"}
Stages == {"none", "ready", "closed"} \cup EchoKeys
Marks == {"pass", "fail", "unavailable", "not-run"}
Differentials == [Halves -> [ProbeKeys -> Marks]]
Outcomes == [case : Nat, run : Runs]
Summaries == [plannedCases : Nat, completedCases : Nat]
Reports == [of : Runs, mode : Modes, cancelled : BOOLEAN, summary : Summaries \cup {None},
            greaseDifferential : Differentials \cup {None}]

MatrixTypeOK ==
  /\ constructible \in BOOLEAN /\ takesOptions \in BOOLEAN /\ datagrams \in BOOLEAN
  /\ greaseConfigured \in BOOLEAN /\ cancelRequested \in BOOLEAN
  /\ results \in Seq(Outcomes) /\ report \in Reports \cup {None}
  /\ at \in [Runs -> Places] /\ mode \in [Runs -> Modes] /\ next \in [Runs -> Nat \ {0}]
  /\ \E S : published \in [Runs -> S]
  /\ stage \in [Runs -> Stages] /\ probes \in [Runs -> Differentials]
  /\ target \in [Runs -> Runs]
  /\ overlapped \subseteq Runs /\ stopped \subseteq Runs \ overlapped
  /\ stoppedLate \subseteq Runs

(* Every run, mixed up with others or not: it begins at its first case,    *)
(* takes no case that is not planned, posts once, at its end, and awaits   *)
(* the stages of a probe in its differential only.                         *)
Orderly(r) ==
  /\ at[r] \in {"none", "loading"} => next[r] = 1 /\ r \notin stopped
  /\ at[r] = "case" => next[r] <= Len(Planned(mode[r]))
  /\ at[r] # "posting" => published[r] = None
  /\ at[r] \in Busy => constructible /\ report \in Reports
  /\ IF at[r] \in Halves THEN stage[r] # "none"
     ELSE stage[r] = "none" /\ probes[r] = Unprobed /\ target[r] = r

(* What the globals hold while a run is alone: its own cases in order, and *)
(* its own report.                                                         *)
OwnCases(r, cases) ==
  \A i \in 1 .. Len(cases) : cases[i] = [case |-> Planned(mode[r])[i], run |-> r]
OwnGlobals(r) ==
  /\ report.of = r /\ report.mode = mode[r] /\ report.greaseDifferential = None
  /\ target[r] = r
  /\ OwnCases(r, results)
  /\ at[r] \in {"case", "between"} => Len(results) = next[r] - 1
  /\ at[r] \in Halves => report.summary = Summary(r, results) /\ ~report.cancelled
Own(r) == at[r] \in Busy => OwnGlobals(r)

(* A probe while the page awaits a stage of it: the echoes ahead have not  *)
(* run, and those behind have, unless ready failed.                        *)
Ahead == [ready                |-> EchoKeys,
          datagram             |-> EchoKeys,
          bidirectionalStream  |-> EchoKeys \ {"datagram"},
          unidirectionalStream |-> {"unidirectionalStream"},
          closed               |-> {}]
SoFar(p, awaited) ==
  /\ p["constructor"] = "pass"
  /\ \A key \in ProbeKeys \ {"datagram"} : p[key] # "unavailable"
  /\ awaited = "ready" => p["ready"] = "not-run"
  /\ awaited \in EchoKeys => p["ready"] = "pass"
  /\ \A key \in EchoKeys : p["ready"] = "pass" /\ key \notin Ahead[awaited] <=> p[key] # "not-run"

(* A differential that was not stopped: the first probe is whole before    *)
(* the second one begins.                                                  *)
Made(p) == ProbeAcceptable(p) /\ p["constructor"] # "not-run"
Probed(r) ==
  at[r] \in Halves /\ r \notin stoppedLate =>
    /\ ~cancelRequested
    /\ SoFar(probes[r][at[r]], stage[r])
    /\ at[r] = "control" => probes[r]["enabled"] = Unprobed["enabled"]
    /\ at[r] = "enabled" => Made(probes[r]["control"])

(* A stop stands until the run that was stopped is done.                   *)
StopStands(r) ==
  r \in stopped => /\ at[r] \in {"case", "between", "done"} /\ published[r] = None
                   /\ at[r] # "done" => cancelRequested

Posts(r) ==
  published[r] # None =>
    /\ RunAcceptable(published[r])
    /\ \A i \in DOMAIN published[r].cases : published[r].cases[i].run = r
    /\ r \notin stoppedLate => Acceptable(published[r]) /\ Measured(published[r].grease)

Alone(r) == r \notin overlapped => Own(r) /\ Probed(r) /\ StopStands(r) /\ Posts(r)

(* Two runs that are under way at once are both known to be.               *)
Beside == \A r, q \in Runs : r # q /\ UnderWay(r) /\ UnderWay(q) => r \in overlapped

IInv == MatrixTypeOK /\ Beside /\ \A r \in Runs : Orderly(r) /\ Alone(r)

-----------------------------------------------------------------------------
(* The plan of a run has a first case, and an exhaustive one has them all. *)
LEMMA PlanOf ==
  ASSUME NEW m \in Modes
  PROVE  /\ Len(Planned(m)) \in Nat \ {0}
         /\ \A n \in 1 .. Len(Planned(m)) : Planned(m)[n] \in Nat
         /\ m = "exhaustive" => /\ Len(Planned(m)) = Combinations
                                /\ \A n \in 1 .. Combinations : Planned(m)[n] = n
<1>1. CASE m = "exhaustive"
  <2>1. Planned(m) = [i \in 1 .. Combinations |-> i]
    BY <1>1 DEF Planned
  <2>2. Combinations \in Nat /\ \A i \in 1 .. Combinations : i \in Nat
    BY MatrixAssumption
  <2>3. Planned(m) \in Seq(Nat)
    BY <2>1, <2>2, IsASeq
  <2>4. DOMAIN Planned(m) = 1 .. Combinations
    BY <2>1
  <2>5. Len(Planned(m)) = Combinations
    BY <2>2, <2>3, <2>4, LenProperties
  <2> QED
    BY <2>1, <2>2, <2>5, MatrixAssumption
<1>2. CASE m # "exhaustive"
  <2>1. Planned(m) = <<0>>
    BY <1>2 DEF Planned, Curated
  <2> QED
    BY <1>2, <2>1
<1> QED
  BY <1>1, <1>2


(* The probes before they are made, and where the constructor throws.      *)
LEMMA ProbesOf ==
  /\ Unprobed \in Differentials
  /\ \A half \in Halves : \A key \in ProbeKeys : Unprobed[half][key] = "not-run"
  /\ Thrown \in Differentials
  /\ \A half \in Halves : Made(Thrown[half])
<1>1. \A half \in Halves : Unprobed[half] = [key \in ProbeKeys |-> "not-run"]
  BY DEF Unprobed
<1>2. Unprobed \in Differentials
  BY DEF Unprobed, Differentials, Marks
<1>3. \A half \in Halves : Thrown[half] = [Unprobed[half] EXCEPT !["constructor"] = "fail"]
  BY DEF Thrown
<1>4. "constructor" \in ProbeKeys /\ "ready" \in ProbeKeys /\ EchoKeys \subseteq ProbeKeys
      /\ "constructor" \notin EchoKeys
  BY DEF ProbeKeys, EchoKeys
<1>5. ASSUME NEW half \in Halves
      PROVE  /\ Thrown[half] \in [ProbeKeys -> Marks]
             /\ Thrown[half]["constructor"] = "fail"
             /\ \A key \in ProbeKeys \ {"constructor"} : Thrown[half][key] = "not-run"
  BY <1>1, <1>3, <1>4 DEF Marks
<1>6. Thrown \in Differentials
  BY <1>5 DEF Thrown, Differentials
<1>7. \A half \in Halves : Made(Thrown[half])
  BY <1>4, <1>5 DEF Made, ProbeAcceptable
<1> QED
  BY <1>1, <1>2, <1>6, <1>7

(* What is posted stays posted as it is.                                   *)
LEMMA PostsFrame ==
  ASSUME NEW r \in Runs, Posts(r), published'[r] = published[r],
         UNCHANGED <<constructible, greaseConfigured>>, stoppedLate \subseteq stoppedLate'
  PROVE  Posts(r)'
BY DEF Posts, RunAcceptable, CoversEvery, Acceptable, GreaseAcceptable, ProbeAcceptable, Measured

(* A run that is under way moves, and nothing of the others.               *)
Steady == UNCHANGED <<constructible, takesOptions, datagrams, greaseConfigured, cancelRequested,
                      mode, overlapped, stopped, stoppedLate>>
Still(q) == /\ at'[q] = at[q] /\ next'[q] = next[q] /\ published'[q] = published[q]
            /\ stage'[q] = stage[q] /\ probes'[q] = probes[q] /\ target'[q] = target[q]

LEMMA MovesInv ==
  ASSUME IInv, NEW r \in Runs, UnderWay(r), Steady, \A q \in Runs : q # r => Still(q),
         MatrixTypeOK', report' \in Reports \/ report' = report,
         at'[r] \in Busy \cup {"posting", "done"},
         Orderly(r)', Alone(r)'
  PROVE  IInv'
<1>1. Beside'
  <2> SUFFICES ASSUME NEW p \in Runs, NEW q \in Runs, p # q, UnderWay(p)', UnderWay(q)'
               PROVE  p \in overlapped
    BY DEF Beside, Steady
  <2>1. UnderWay(p) /\ UnderWay(q)
    BY DEF Still, UnderWay
  <2> QED
    BY <2>1 DEF IInv, Beside
<1>2. ASSUME NEW q \in Runs, q # r PROVE Orderly(q)' /\ Alone(q)'
  <2>1. Still(q) /\ Steady
    BY <1>2
  <2>2. Orderly(q) /\ Alone(q)
    BY DEF IInv
  <2>3. Orderly(q)'
    BY <2>1, <2>2 DEF Orderly, Still, Steady
  <2>4. q \notin overlapped => at[q] \notin Busy
    BY <1>2 DEF IInv, Beside, UnderWay, Busy, Halves
  <2>5. Posts(q) => Posts(q)'
    BY <2>1, PostsFrame DEF Still, Steady
  <2>6. q \notin overlapped => Own(q)' /\ Probed(q)'
    BY <2>1, <2>4 DEF Own, Probed, Still, Busy
  <2>7. StopStands(q) => StopStands(q)'
    BY <2>1 DEF StopStands, Still, Steady
  <2>8. overlapped' = overlapped
    BY <2>1 DEF Steady
  <2> QED
    BY <2>2, <2>3, <2>5, <2>6, <2>7, <2>8 DEF Alone
<1>3. \A q \in Runs : Orderly(q)' /\ Alone(q)'
  BY <1>2
<1> QED
  BY <1>1, <1>3 DEF IInv

(* A differential is over, or has not begun.                               *)
Settles(r) ==
  /\ stage' \in [Runs -> Stages] /\ probes' \in [Runs -> Differentials]
  /\ target' \in [Runs -> Runs]
  /\ stage'[r] = "none" /\ probes'[r] = Unprobed /\ target'[r] = r
  /\ \A q \in Runs : q # r => stage'[q] = stage[q] /\ probes'[q] = probes[q]
                              /\ target'[q] = target[q]

(* A run that is busy comes to its end.                                    *)
LEMMA PublishInv ==
  ASSUME IInv, NEW r \in Runs, at[r] \in Busy, NEW rep \in Reports, NEW cases \in Seq(Outcomes),
         Publish(r, rep, cases), Steady, Settles(r),
         next' \in [Runs -> Nat \ {0}], \A q \in Runs : q # r => next'[q] = next[q],
         r \notin overlapped =>
           /\ rep.mode = mode[r] /\ OwnCases(r, cases) /\ rep.summary = Summary(r, cases)
           /\ r \in stopped => rep.cancelled
           /\ r \notin stoppedLate => \/ rep.greaseDifferential = None
                                      \/ \A half \in Halves : Made(rep.greaseDifferential[half])
  PROVE  IInv'
<1>1. at \in [Runs -> Places] /\ mode[r] \in Modes
  BY DEF IInv, MatrixTypeOK
<1>2. PICK S : published \in [Runs -> S]
  BY DEF IInv, MatrixTypeOK
<1>3. report' = rep /\ results' = cases
  BY DEF Publish
<1>4. Orderly(r) /\ Alone(r) /\ published[r] = None /\ constructible
  BY DEF IInv, Orderly, Busy, Halves
<1>t. /\ UNCHANGED <<constructible, takesOptions, datagrams, greaseConfigured, cancelRequested,
                     mode, overlapped, stopped, stoppedLate>>
      /\ stage' \in [Runs -> Stages] /\ probes' \in [Runs -> Differentials]
      /\ target' \in [Runs -> Runs]
  BY DEF Steady, Settles
<1>5. CASE MayPublish(rep)
  <2> DEFINE post == [cases |-> cases, mode |-> rep.mode, summary |-> rep.summary,
                      cancelled |-> rep.cancelled, grease |-> rep.greaseDifferential]
  <2>1. at' = [at EXCEPT ![r] = "posting"] /\ published' = [published EXCEPT ![r] = post]
    BY <1>5 DEF Publish
  <2>2. /\ at' \in [Runs -> Places] /\ at'[r] = "posting"
        /\ \A q \in Runs : q # r => at'[q] = at[q]
    BY <1>1, <2>1 DEF Places
  <2>3. /\ published'[r] = post /\ \A q \in Runs : q # r => published'[q] = published[q]
        /\ published' \in [Runs -> S \cup {post}]
    BY <1>2, <2>1
  <2> HIDE DEF post
  <2>4. MatrixTypeOK'
    BY <1>3, <1>t, <2>2, <2>3 DEF IInv, MatrixTypeOK
  <2>5. Orderly(r)'
    BY <2>2 DEF Orderly, Busy, Halves, Settles
  <2>6. ASSUME r \notin overlapped PROVE Posts(r)'
    <3>1. /\ rep.mode = "exhaustive" /\ ~rep.cancelled
          /\ greaseConfigured => rep.greaseDifferential # None
          /\ rep.summary.completedCases = rep.summary.plannedCases
      BY <1>4, <1>5 DEF MayPublish
    <3>2. mode[r] = "exhaustive" /\ OwnCases(r, cases) /\ rep.summary = Summary(r, cases)
      BY <2>6, <3>1
    <3>3. Len(cases) = Combinations /\ Combinations \in Nat \ {0}
      BY <1>1, <3>1, <3>2, PlanOf, MatrixAssumption DEF Summary
    <3>4. \A i \in 1 .. Combinations : cases[i].case = i /\ cases[i].run = r
      BY <1>1, <3>2, <3>3, PlanOf DEF OwnCases
    <3>5. DOMAIN cases = 1 .. Combinations
      BY <3>3
    <3>6. CoversEvery(cases)
      BY <3>3, <3>4, <3>5 DEF CoversEvery
    <3>7. post.cases = cases /\ post.summary = rep.summary /\ post.cancelled = rep.cancelled
          /\ post.grease = rep.greaseDifferential /\ post.mode = rep.mode
      BY DEF post
    <3>8. post.summary.plannedCases # 0 /\ post.summary.completedCases = Len(post.cases)
      BY <1>1, <3>2, <3>7, PlanOf DEF Summary
    <3>9. RunAcceptable(post)
      BY <1>4, <3>1, <3>6, <3>7, <3>8 DEF RunAcceptable
    <3>10. ASSUME r \notin stoppedLate PROVE GreaseAcceptable(post.grease) /\ Measured(post.grease)
      BY <1>4, <2>6, <3>1, <3>7, <3>10 DEF GreaseAcceptable, Measured, Made
    <3>11. /\ RunAcceptable(post)' = RunAcceptable(post)
           /\ Acceptable(post)' = Acceptable(post)
           /\ Measured(post.grease)' = Measured(post.grease)
      <4>1. post' = post
        BY <1>3 DEF post
      <4> QED
        BY <1>t, <4>1 DEF RunAcceptable, CoversEvery, Acceptable, GreaseAcceptable,
                          ProbeAcceptable, Measured
    <3> QED
      BY <1>t, <2>3, <3>4, <3>5, <3>7, <3>9, <3>10, <3>11 DEF Posts, Acceptable
  <2>7. Alone(r)'
    <3>1. r \notin overlapped => r \notin stopped
      BY <1>5 DEF MayPublish
    <3> QED
      BY <1>t, <2>2, <2>6, <3>1 DEF Alone, Own, Probed, StopStands, Busy, Halves
  <2>8. \A q \in Runs : q # r => Still(q)
    BY <2>2, <2>3 DEF Still, Settles
  <2> QED
    BY <1>3, <2>2, <2>4, <2>5, <2>7, <2>8, MovesInv DEF UnderWay, Busy, Halves
<1>6. CASE ~MayPublish(rep)
  <2>1. at' = [at EXCEPT ![r] = "done"] /\ published' = published
    BY <1>6 DEF Publish
  <2>2. /\ at' \in [Runs -> Places] /\ at'[r] = "done"
        /\ \A q \in Runs : q # r => at'[q] = at[q]
    BY <1>1, <2>1 DEF Places
  <2>4. MatrixTypeOK'
    BY <1>2, <1>3, <1>t, <2>1, <2>2 DEF IInv, MatrixTypeOK
  <2>5. Orderly(r)'
    BY <1>4, <2>1, <2>2 DEF Orderly, Busy, Halves, Settles
  <2>6. Alone(r)'
    BY <1>4, <1>t, <2>1, <2>2 DEF Alone, Own, Probed, StopStands, Posts, Busy, Halves
  <2>7. \A q \in Runs : q # r => Still(q)
    BY <2>1, <2>2 DEF Still, Settles
  <2> QED
    BY <1>3, <2>2, <2>4, <2>5, <2>6, <2>7, MovesInv DEF UnderWay, Busy, Halves
<1> QED
  BY <1>5, <1>6

(* A run that is not in its differential leaves it as it is.               *)
LEMMA StaysSettled ==
  ASSUME IInv, NEW r \in Runs, at[r] \notin Halves, UNCHANGED differential
  PROVE  Settles(r)
BY DEF IInv, MatrixTypeOK, Orderly, differential, Settles

(* A transport is opened for a probe.                                      *)
LEMMA ProbeDoes ==
  ASSUME MatrixTypeOK, NEW r \in Runs, NEW half \in Halves, Probe(r, half)
  PROVE  /\ at' \in [Runs -> Places] /\ at'[r] = half
         /\ stage' \in [Runs -> Stages] /\ stage'[r] = "ready"
         /\ probes' \in [Runs -> Differentials]
         /\ probes'[r][half]["constructor"] = "pass"
         /\ \A key \in ProbeKeys \ {"constructor"} : probes'[r][half][key] = probes[r][half][key]
         /\ \A other \in Halves \ {half} : probes'[r][other] = probes[r][other]
         /\ \A q \in Runs : q # r => at'[q] = at[q] /\ stage'[q] = stage[q]
                                     /\ probes'[q] = probes[q]
<1>1. /\ at \in [Runs -> Places] /\ stage \in [Runs -> Stages]
      /\ probes \in [Runs -> Differentials]
  BY DEF MatrixTypeOK
<1>2. /\ at' = [at EXCEPT ![r] = half] /\ stage' = [stage EXCEPT ![r] = "ready"]
      /\ probes' = [probes EXCEPT ![r][half]["constructor"] = "pass"]
  BY DEF Probe
<1>3. half \in Places /\ "ready" \in Stages
  BY DEF Places, Stages, Halves
<1>4. probes[r] \in [Halves -> [ProbeKeys -> Marks]] /\ "constructor" \in ProbeKeys
      /\ "pass" \in Marks
  BY <1>1 DEF Differentials, ProbeKeys, Marks
<1>5. /\ probes'[r] \in Differentials
      /\ probes'[r][half]["constructor"] = "pass"
      /\ \A key \in ProbeKeys \ {"constructor"} : probes'[r][half][key] = probes[r][half][key]
      /\ \A other \in Halves \ {half} : probes'[r][other] = probes[r][other]
  BY <1>1, <1>2, <1>4 DEF Differentials
<1>6. probes' \in [Runs -> Differentials] /\ \A q \in Runs : q # r => probes'[q] = probes[q]
  BY <1>1, <1>2, <1>5
<1> QED
  BY <1>1, <1>2, <1>3, <1>5, <1>6

(* A probe whose transport was just opened.                                *)
LEMMA Opened ==
  ASSUME NEW p, p["constructor"] = "pass",
         \A key \in ProbeKeys \ {"constructor"} : p[key] = "not-run"
  PROVE  SoFar(p, "ready")
<1>1. Ahead["ready"] = EchoKeys
  BY DEF Ahead
<1>2. "ready" \in ProbeKeys \ {"constructor"} /\ EchoKeys \subseteq ProbeKeys \ {"constructor"}
      /\ "ready" \notin EchoKeys
  BY DEF ProbeKeys, EchoKeys
<1> QED
  BY <1>1, <1>2 DEF SoFar

(* The differential follows the cases, or the run ends.                    *)
LEMMA AfterCasesInv ==
  ASSUME IInv, NEW r \in Runs, at[r] \in {"case", "between"}, NEW cases \in Seq(Outcomes),
         AfterCases(r, cases), Steady,
         next' \in [Runs -> Nat \ {0}], \A q \in Runs : q # r => next'[q] = next[q],
         r \notin overlapped => OwnCases(r, cases)
  PROVE  IInv'
<1> DEFINE rep == [report EXCEPT !.cancelled = cancelRequested, !.summary = Summary(r, cases)]
<1>1. /\ at \in [Runs -> Places] /\ mode[r] \in Modes /\ cancelRequested \in BOOLEAN
      /\ report \in Reports /\ Orderly(r) /\ Alone(r) /\ published[r] = None /\ constructible
      /\ at[r] \notin Halves /\ at[r] \in Busy /\ target \in [Runs -> Runs] /\ MatrixTypeOK
  BY DEF IInv, MatrixTypeOK, Orderly, Busy, Halves
<1>2. Summary(r, cases) \in Summaries
  BY <1>1, PlanOf DEF Summary, Summaries
<1>3. /\ rep \in Reports /\ rep.mode = report.mode /\ rep.cancelled = cancelRequested
      /\ rep.summary = Summary(r, cases) /\ rep.of = report.of
      /\ rep.greaseDifferential = report.greaseDifferential
  BY <1>1, <1>2 DEF Reports
<1>4. r \notin overlapped => /\ rep.mode = mode[r] /\ rep.of = r /\ target[r] = r
                             /\ rep.greaseDifferential = None
                             /\ r \in stopped => cancelRequested
  BY <1>1, <1>3 DEF Alone, Own, OwnGlobals, StopStands
<1>5. Conclude(r, rep, cases)
  BY DEF AfterCases
<1> HIDE DEF rep
<1>6. CASE cancelRequested \/ ~RunsGrease(rep)
  <2>1. Publish(r, rep, cases) /\ Settles(r)
    BY <1>1, <1>5, <1>6, StaysSettled DEF Conclude
  <2> QED
    BY <1>1, <1>3, <1>4, <2>1, PublishInv
<1>7. CASE ~(cancelRequested \/ ~RunsGrease(rep)) /\ ~takesOptions
  <2> DEFINE thrown == [rep EXCEPT !.greaseDifferential = Thrown]
  <2>1. Publish(r, thrown, cases) /\ Settles(r)
    BY <1>1, <1>5, <1>7, StaysSettled DEF Conclude
  <2>2. /\ thrown \in Reports /\ thrown.mode = rep.mode /\ thrown.cancelled = rep.cancelled
        /\ thrown.summary = rep.summary /\ thrown.greaseDifferential = Thrown
    BY <1>3, ProbesOf DEF Reports
  <2> HIDE DEF thrown
  <2> QED
    BY <1>1, <1>3, <1>4, <2>1, <2>2, ProbesOf, PublishInv
<1>8. CASE ~(cancelRequested \/ ~RunsGrease(rep)) /\ takesOptions
  <2>1. /\ Probe(r, "control") /\ target' = [target EXCEPT ![r] = rep.of]
        /\ report' = rep /\ results' = cases /\ published' = published
    BY <1>5, <1>8 DEF Conclude
  <2>2. "control" \in Halves /\ "enabled" \in Halves \ {"control"}
    BY DEF Halves
  <2>3. /\ at' \in [Runs -> Places] /\ at'[r] = "control"
        /\ stage' \in [Runs -> Stages] /\ stage'[r] = "ready"
        /\ probes' \in [Runs -> Differentials]
        /\ probes'[r]["control"]["constructor"] = "pass"
        /\ \A key \in ProbeKeys \ {"constructor"} :
             probes'[r]["control"][key] = probes[r]["control"][key]
        /\ probes'[r]["enabled"] = probes[r]["enabled"]
        /\ \A q \in Runs : q # r => at'[q] = at[q] /\ stage'[q] = stage[q]
                                    /\ probes'[q] = probes[q]
    BY <1>1, <2>1, <2>2, ProbeDoes
  <2>4. /\ target' \in [Runs -> Runs] /\ target'[r] = rep.of
        /\ \A q \in Runs : q # r => target'[q] = target[q]
    BY <1>1, <1>3, <2>1 DEF Reports
  <2>5. MatrixTypeOK'
    BY <1>1, <1>3, <2>1, <2>3, <2>4 DEF MatrixTypeOK, Steady
  <2>6. Orderly(r)'
    BY <1>1, <1>3, <2>1, <2>3 DEF Orderly, Steady, Halves
  <2>7. Alone(r)'
    <3> SUFFICES ASSUME r \notin overlapped
                 PROVE  Own(r)' /\ Probed(r)' /\ StopStands(r)' /\ Posts(r)'
      BY DEF Alone, Steady
    <3>1. Own(r)'
      BY <1>3, <1>4, <1>8, <2>1, <2>3, <2>4 DEF Own, OwnGlobals, OwnCases, Summary, Steady
    <3>2. StopStands(r)'
      BY <1>4, <1>8 DEF StopStands, Steady
    <3>3. Posts(r)'
      BY <1>1, <2>1 DEF Posts
    <3>4. Probed(r)'
      <4>1. probes[r] = Unprobed
        BY <1>1 DEF Orderly
      <4>2. SoFar(probes'[r]["control"], "ready")
        BY <2>2, <2>3, <4>1, ProbesOf, Opened
      <4> QED
        BY <1>8, <2>3, <4>1, <4>2 DEF Probed, Steady
    <3> QED
      BY <3>1, <3>2, <3>3, <3>4
  <2>8. \A q \in Runs : q # r => Still(q)
    BY <2>1, <2>3, <2>4 DEF Still
  <2> QED
    BY <1>1, <1>3, <2>1, <2>3, <2>5, <2>6, <2>7, <2>8, MovesInv DEF UnderWay, Busy, Halves
<1> QED
  BY <1>6, <1>7, <1>8

LEMMA DelayEndsInv ==
  ASSUME IInv, NEW r \in Runs, DelayEnds(r), UNCHANGED fixed
  PROVE  IInv'
<1>1. /\ at[r] = "between" /\ LoopHead(r) /\ Steady /\ next' = next
  BY DEF DelayEnds, fixed, observed, Steady
<1>2. /\ at \in [Runs -> Places] /\ mode[r] \in Modes /\ results \in Seq(Outcomes)
      /\ next \in [Runs -> Nat \ {0}]
      /\ report \in Reports /\ Orderly(r) /\ Alone(r) /\ published[r] = None /\ constructible
      /\ at[r] \in Busy /\ at[r] \notin Halves
  BY <1>1 DEF IInv, MatrixTypeOK, Orderly, Busy, Halves
<1>3. CASE cancelRequested \/ next[r] > Len(Planned(mode[r]))
  <2>1. AfterCases(r, results)
    BY <1>1, <1>3 DEF LoopHead
  <2>2. r \notin overlapped => OwnCases(r, results)
    BY <1>2 DEF Alone, Own, OwnGlobals
  <2> QED
    BY <1>1, <1>2, <2>1, <2>2, AfterCasesInv
<1>4. CASE ~(cancelRequested \/ next[r] > Len(Planned(mode[r])))
  <2>1. at' = [at EXCEPT ![r] = "case"] /\ UNCHANGED <<results, report, published, differential>>
    BY <1>1, <1>4 DEF LoopHead
  <2>2. /\ at' \in [Runs -> Places] /\ at'[r] = "case"
        /\ \A q \in Runs : q # r => at'[q] = at[q]
    BY <1>2, <2>1 DEF Places
  <2>3. MatrixTypeOK'
    BY <1>1, <2>1, <2>2 DEF IInv, MatrixTypeOK, Steady, differential
  <2>4. Orderly(r)'
    <3>1. next[r] <= Len(Planned(mode[r]))
      BY <1>2, <1>4, PlanOf
    <3> QED
      BY <1>1, <1>2, <2>1, <2>2, <3>1 DEF Orderly, Steady, differential, Halves
  <2>5. Own(r) => Own(r)'
    BY <1>1, <1>2, <2>1, <2>2
       DEF Own, OwnGlobals, OwnCases, Steady, differential, Halves
  <2>6. Alone(r)'
    BY <1>1, <1>2, <1>4, <2>1, <2>2, <2>5 DEF Alone, Probed, StopStands, Posts, Halves, Steady
  <2>7. \A q \in Runs : q # r => Still(q)
    BY <1>1, <2>1, <2>2 DEF Still, differential
  <2> QED
    BY <1>1, <1>2, <2>1, <2>2, <2>3, <2>4, <2>6, <2>7, MovesInv DEF UnderWay, Busy, Halves
<1> QED
  BY <1>3, <1>4

LEMMA CaseEndsInv ==
  ASSUME IInv, NEW r \in Runs, CaseEnds(r), UNCHANGED fixed
  PROVE  IInv'
<1> DEFINE n == next[r]
           outcome == [case |-> Planned(mode[r])[n], run |-> r]
           cases == Append(results, outcome)
<1>1. /\ at[r] = "case" /\ next' = [next EXCEPT ![r] = n + 1] /\ Steady
  BY DEF CaseEnds, fixed, observed, Steady
<1>2. /\ at \in [Runs -> Places] /\ mode[r] \in Modes /\ results \in Seq(Outcomes)
      /\ next \in [Runs -> Nat \ {0}]
      /\ report \in Reports /\ Orderly(r) /\ Alone(r) /\ published[r] = None /\ constructible
      /\ at[r] \in Busy /\ at[r] \notin Halves
  BY <1>1 DEF IInv, MatrixTypeOK, Orderly, Busy, Halves
<1>3. n \in Nat \ {0} /\ n \in 1 .. Len(Planned(mode[r]))
  BY <1>1, <1>2, PlanOf DEF Orderly
<1>4. outcome \in Outcomes
  BY <1>2, <1>3, PlanOf DEF Outcomes
<1>5. /\ next' \in [Runs -> Nat \ {0}] /\ next'[r] = n + 1
      /\ \A q \in Runs : q # r => next'[q] = next[q]
  BY <1>1, <1>2, <1>3
<1>6. cases \in Seq(Outcomes) /\ Len(cases) = Len(results) + 1
  BY <1>2, <1>4, AppendProperties
<1>7. \A i \in 1 .. Len(results) : cases[i] = results[i]
  BY <1>2, <1>4, AppendProperties
<1>8. cases[Len(results) + 1] = outcome
  BY <1>2, <1>4, AppendProperties
<1>9. ASSUME r \notin overlapped PROVE OwnCases(r, cases) /\ Len(results) = n - 1
  <2>1. OwnCases(r, results) /\ Len(results) = n - 1
    BY <1>1, <1>2, <1>9 DEF Alone, Own, OwnGlobals
  <2>2. ASSUME NEW i \in 1 .. Len(cases)
        PROVE  cases[i] = [case |-> Planned(mode[r])[i], run |-> r]
    <3>1. CASE i \in 1 .. Len(results)
      BY <1>7, <2>1, <3>1 DEF OwnCases
    <3>2. CASE i \notin 1 .. Len(results)
      <4> HIDE DEF cases, outcome
      <4>1. i = Len(results) + 1
        BY <1>2, <1>6, <3>2
      <4>2. i = n
        BY <1>2, <1>3, <2>1, <4>1
      <4>3. outcome = [case |-> Planned(mode[r])[i], run |-> r]
        BY <4>2 DEF outcome
      <4> QED
        BY <1>8, <4>1, <4>3
    <3> QED
      BY <3>1, <3>2
  <2> QED
    BY <2>1, <2>2 DEF OwnCases
<1>10. CASE cancelRequested
  <2>1. AfterCases(r, cases)
    BY <1>10 DEF CaseEnds
  <2> HIDE DEF cases
  <2> QED
    BY <1>1, <1>5, <1>6, <1>9, <2>1, AfterCasesInv
<1>11. CASE ~cancelRequested
  <2> DEFINE rep == [report EXCEPT !.summary = Summary(r, cases)]
  <2>1. at' = [at EXCEPT ![r] = "between"] /\ report' = rep /\ results' = cases
        /\ UNCHANGED <<published, differential>>
    BY <1>11 DEF CaseEnds
  <2> HIDE DEF cases
  <2>2. Summary(r, cases) \in Summaries
    BY <1>2, <1>6, PlanOf DEF Summary, Summaries
  <2>3. /\ rep \in Reports /\ rep.mode = report.mode /\ rep.of = report.of
        /\ rep.greaseDifferential = report.greaseDifferential
    BY <1>2, <2>2 DEF Reports
  <2> HIDE DEF rep
  <2>4. /\ at' \in [Runs -> Places] /\ at'[r] = "between"
        /\ \A q \in Runs : q # r => at'[q] = at[q]
    BY <1>2, <2>1 DEF Places
  <2>5. MatrixTypeOK'
    BY <1>1, <1>5, <1>6, <2>1, <2>3, <2>4 DEF IInv, MatrixTypeOK, Steady, differential
  <2>6. Orderly(r)'
    BY <1>1, <1>2, <2>1, <2>3, <2>4 DEF Orderly, Steady, differential, Halves
  <2>7. Alone(r)'
    <3> SUFFICES ASSUME r \notin overlapped
                 PROVE  Own(r)' /\ Probed(r)' /\ StopStands(r)' /\ Posts(r)'
      BY <1>1 DEF Alone, Steady
    <3>1. /\ Len(cases) = (n + 1) - 1 /\ OwnCases(r, cases) /\ report.mode = mode[r]
          /\ report.of = r /\ report.greaseDifferential = None /\ target[r] = r
      BY <1>2, <1>3, <1>6, <1>9 DEF Alone, Own, OwnGlobals
    <3>2. Own(r)'
      BY <1>1, <1>5, <2>1, <2>3, <2>4, <3>1
         DEF Own, OwnGlobals, OwnCases, Steady, differential, Halves
    <3>3. StopStands(r)' /\ Posts(r)' /\ Probed(r)'
      BY <1>1, <1>2, <1>11, <2>1, <2>4 DEF Alone, StopStands, Posts, Probed, Steady, Halves
    <3> QED
      BY <3>2, <3>3
  <2>8. \A q \in Runs : q # r => Still(q)
    BY <1>5, <2>1, <2>4 DEF Still, differential
  <2> QED
    BY <1>1, <2>1, <2>3, <2>4, <2>5, <2>6, <2>7, <2>8, MovesInv DEF UnderWay, Busy, Halves
<1> QED
  BY <1>10, <1>11

(* A stage of a probe ends, and the page goes on to the next one.          *)
LEMMA NotedType ==
  ASSUME NEW p \in [ProbeKeys -> Marks], NEW key \in {"ready"} \cup EchoKeys,
         NEW outcome \in {"pass", "fail"}
  PROVE  /\ Noted(p, key, outcome) \in [ProbeKeys -> Marks]
         /\ Following(key, outcome) \in Stages \ {"none"}
         /\ Noted(p, key, outcome)[key] = outcome
         /\ \A other \in ProbeKeys \ {key} :
              Noted(p, key, outcome)[other] =
                IF other = "datagram" /\ key = "ready"
                   /\ Following(key, outcome) = "bidirectionalStream"
                THEN "unavailable" ELSE p[other]
<1>1. key \in ProbeKeys /\ "datagram" \in ProbeKeys /\ outcome \in Marks /\ "unavailable" \in Marks
  BY DEF ProbeKeys, EchoKeys, Marks
<1>2. Following(key, outcome) \in Stages \ {"none"}
  BY DEF Following, After, Stages, EchoKeys
<1>3. CASE key = "ready" /\ Following(key, outcome) = "bidirectionalStream"
  <2>1. Noted(p, key, outcome) = [p EXCEPT ![key] = outcome, !["datagram"] = "unavailable"]
    BY <1>3 DEF Noted
  <2>2. key # "datagram"
    BY <1>3
  <2> QED
    BY <1>1, <1>2, <1>3, <2>1, <2>2
<1>4. CASE ~(key = "ready" /\ Following(key, outcome) = "bidirectionalStream")
  <2>1. Noted(p, key, outcome) = [p EXCEPT ![key] = outcome]
    BY <1>4 DEF Noted
  <2> QED
    BY <1>1, <1>2, <1>4, <2>1
<1> QED
  BY <1>3, <1>4

LEMMA StagePasses ==
  ASSUME NEW p \in [ProbeKeys -> Marks], NEW key \in {"ready"} \cup EchoKeys,
         NEW outcome \in {"pass", "fail"}, SoFar(p, key), ~cancelRequested
  PROVE  SoFar(Noted(p, key, outcome), Following(key, outcome))
<1> DEFINE q == Noted(p, key, outcome)
           awaited == Following(key, outcome)
<1>1. /\ q[key] = outcome
      /\ \A other \in ProbeKeys \ {key} :
           q[other] = IF other = "datagram" /\ key = "ready" /\ awaited = "bidirectionalStream"
                      THEN "unavailable" ELSE p[other]
  BY NotedType
<1>2. awaited = IF key = "ready" /\ outcome = "fail" THEN "closed"
                ELSE IF key = "ready" /\ ~datagrams THEN "bidirectionalStream" ELSE After[key]
  BY DEF Following
<1> HIDE DEF q, awaited
<1>3. ProbeKeys = {"constructor", "ready", "datagram", "bidirectionalStream",
                   "unidirectionalStream"}
      /\ EchoKeys = {"datagram", "bidirectionalStream", "unidirectionalStream"}
  BY DEF ProbeKeys, EchoKeys
<1>4. q["constructor"] = "pass"
  BY <1>1, <1>3 DEF SoFar
<1>5. \A other \in ProbeKeys \ {"datagram"} : q[other] # "unavailable"
  BY <1>1 DEF SoFar
<1>6. q["ready"] = IF key = "ready" THEN outcome ELSE p["ready"]
  BY <1>1, <1>3
<1>7. CASE key = "ready" /\ outcome = "fail"
  <2>1. awaited = "closed" /\ q["ready"] = "fail"
    BY <1>2, <1>6, <1>7
  <2>2. \A other \in EchoKeys : q[other] = "not-run"
    <3>1. \A other \in EchoKeys : p[other] = "not-run"
      BY <1>7 DEF SoFar
    <3> QED
      BY <1>1, <1>3, <1>7, <2>1, <3>1
  <2>3. SoFar(q, awaited)
    BY <1>3, <1>4, <1>5, <2>1, <2>2 DEF SoFar
  <2> QED
    BY <2>3 DEF q, awaited
<1>8. CASE key = "ready" /\ outcome = "pass" /\ datagrams
  <2>1. awaited = "datagram" /\ q["ready"] = "pass"
    BY <1>2, <1>6, <1>8 DEF After
  <2>2. \A other \in EchoKeys : q[other] = "not-run"
    <3>1. \A other \in EchoKeys : p[other] = "not-run"
      BY <1>8 DEF SoFar
    <3> QED
      BY <1>1, <1>3, <1>8, <2>1, <3>1
  <2>3. Ahead["datagram"] = EchoKeys
    BY DEF Ahead
  <2>4. SoFar(q, awaited)
    BY <1>3, <1>4, <1>5, <2>1, <2>2, <2>3 DEF SoFar
  <2> QED
    BY <2>4 DEF q, awaited
<1>9. CASE key = "ready" /\ outcome = "pass" /\ ~datagrams
  <2>1. awaited = "bidirectionalStream" /\ q["ready"] = "pass"
    BY <1>2, <1>6, <1>9
  <2>2. \A other \in EchoKeys : q[other] = IF other = "datagram" THEN "unavailable" ELSE "not-run"
    <3>1. \A other \in EchoKeys : p[other] = "not-run"
      BY <1>9 DEF SoFar
    <3> QED
      BY <1>1, <1>3, <1>9, <2>1, <3>1
  <2>3. Ahead["bidirectionalStream"] = EchoKeys \ {"datagram"}
    BY DEF Ahead
  <2>4. SoFar(q, awaited)
    BY <1>3, <1>4, <1>5, <2>1, <2>2, <2>3 DEF SoFar
  <2> QED
    BY <2>4 DEF q, awaited
<1>10. CASE key \in EchoKeys
  <2>1. awaited = After[key] /\ key # "ready"
    BY <1>2, <1>3, <1>10
  <2>2. p["ready"] = "pass" /\ q["ready"] = "pass"
    BY <1>6, <1>10, <2>1 DEF SoFar
  <2>3. \A other \in EchoKeys : other \notin Ahead[key] <=> p[other] # "not-run"
    BY <2>2 DEF SoFar
  <2>4. key \in Ahead[key] /\ Ahead[awaited] = Ahead[key] \ {key}
        /\ awaited \in {"bidirectionalStream", "unidirectionalStream", "closed"}
    <3>1. CASE key = "datagram"
      BY <2>1, <3>1 DEF After, Ahead, EchoKeys
    <3>2. CASE key = "bidirectionalStream"
      BY <2>1, <3>2 DEF After, Ahead, EchoKeys
    <3>3. CASE key = "unidirectionalStream"
      BY <2>1, <3>3 DEF After, Ahead, EchoKeys
    <3> QED
      BY <1>3, <1>10, <3>1, <3>2, <3>3
  <2>5. \A other \in EchoKeys : other \notin Ahead[awaited] <=> q[other] # "not-run"
    <3> SUFFICES ASSUME NEW other \in EchoKeys
                 PROVE  other \notin Ahead[awaited] <=> q[other] # "not-run"
      OBVIOUS
    <3>1. CASE other = key
      BY <1>1, <2>4, <3>1
    <3>2. CASE other # key
      <4>1. q[other] = p[other]
        BY <1>1, <1>3, <2>1, <3>2
      <4> QED
        BY <2>3, <2>4, <3>2, <4>1
    <3> QED
      BY <3>1, <3>2
  <2>6. SoFar(q, awaited)
    BY <1>4, <1>5, <2>2, <2>4, <2>5 DEF SoFar
  <2> QED
    BY <2>6 DEF q, awaited
<1> QED
  BY <1>7, <1>8, <1>9, <1>10

LEMMA StageEndsInv ==
  ASSUME IInv, NEW r \in Runs, StageEnds(r), UNCHANGED fixed
  PROVE  IInv'
<1>1. /\ at[r] \in Halves /\ stage[r] # "closed" /\ Steady
      /\ UNCHANGED <<at, next, published, target, results, report>>
  BY DEF StageEnds, fixed, globals, observed, Steady
<1>2. /\ at \in [Runs -> Places] /\ Orderly(r) /\ Alone(r) /\ MatrixTypeOK
      /\ stage \in [Runs -> Stages] /\ probes \in [Runs -> Differentials]
      /\ published[r] = None /\ at[r] \in Busy
  BY <1>1 DEF IInv, MatrixTypeOK, Orderly, Busy, Halves
<1>3. PICK outcome \in {"pass", "fail"} :
        /\ probes' = [probes EXCEPT ![r][at[r]] = Noted(@, stage[r], outcome)]
        /\ stage' = [stage EXCEPT ![r] = Following(stage[r], outcome)]
  BY MatrixAssumption DEF StageEnds
<1>4. stage[r] \in {"ready"} \cup EchoKeys
  BY <1>1, <1>2 DEF Orderly, Stages
<1>5. probes[r] \in [Halves -> [ProbeKeys -> Marks]]
  BY <1>2 DEF Differentials
<1> DEFINE p == probes[r][at[r]]
           noted == Noted(p, stage[r], outcome)
           awaited == Following(stage[r], outcome)
<1>6. p \in [ProbeKeys -> Marks]
  BY <1>1, <1>5
<1>7. noted \in [ProbeKeys -> Marks] /\ awaited \in Stages \ {"none"}
  BY <1>4, <1>6, NotedType
<1>8. /\ stage' = [stage EXCEPT ![r] = awaited]
      /\ probes' = [probes EXCEPT ![r][at[r]] = noted]
  BY <1>3
<1>s. Probed(r) /\ ~cancelRequested /\ SoFar(p, stage[r]) => SoFar(noted, awaited)
  BY <1>4, <1>6, StagePasses
<1> HIDE DEF noted, awaited
<1>9. /\ stage' \in [Runs -> Stages] /\ stage'[r] = awaited
      /\ \A q \in Runs : q # r => stage'[q] = stage[q]
  BY <1>2, <1>7, <1>8
<1>10. /\ probes'[r] \in Differentials /\ probes'[r][at[r]] = noted
       /\ \A half \in Halves : half # at[r] => probes'[r][half] = probes[r][half]
  BY <1>1, <1>2, <1>5, <1>7, <1>8 DEF Differentials
<1>11. /\ probes' \in [Runs -> Differentials]
       /\ \A q \in Runs : q # r => probes'[q] = probes[q]
  BY <1>2, <1>8, <1>10
<1>12. MatrixTypeOK'
  BY <1>1, <1>2, <1>9, <1>11 DEF MatrixTypeOK, Steady
<1>13. Orderly(r)'
  BY <1>1, <1>2, <1>7, <1>9 DEF Orderly, Steady
<1>14. Alone(r)'
  <2>1. Own(r) => Own(r)'
    BY <1>1 DEF Own, OwnGlobals, OwnCases, Summary, Steady
  <2>2. StopStands(r) => StopStands(r)'
    BY <1>1 DEF StopStands, Steady
  <2>3. Posts(r)'
    BY <1>1, <1>2 DEF Posts
  <2>4. Probed(r) => Probed(r)'
    <3> SUFFICES ASSUME Probed(r), r \notin stoppedLate
                 PROVE  /\ ~cancelRequested
                        /\ SoFar(probes'[r][at[r]], stage'[r])
                        /\ at[r] = "control" => probes'[r]["enabled"] = Unprobed["enabled"]
                        /\ at[r] = "enabled" => Made(probes'[r]["control"])
      BY <1>1 DEF Probed, Steady
    <3>1. /\ ~cancelRequested /\ SoFar(p, stage[r])
          /\ at[r] = "control" => probes[r]["enabled"] = Unprobed["enabled"]
          /\ at[r] = "enabled" => Made(probes[r]["control"])
      BY <1>1 DEF Probed
    <3>2. SoFar(probes'[r][at[r]], stage'[r])
      BY <1>s, <1>9, <1>10, <3>1
    <3> QED
      BY <1>10, <3>1, <3>2 DEF Halves
  <2> QED
    BY <1>1, <1>2, <2>1, <2>2, <2>3, <2>4 DEF Alone, Steady
<1>15. \A q \in Runs : q # r => Still(q)
  BY <1>1, <1>9, <1>11 DEF Still
<1> QED
  BY <1>1, <1>2, <1>12, <1>13, <1>14, <1>15, MovesInv DEF UnderWay, Busy, Halves

(* The differential is over, and the run with it.                          *)
LEMMA ProbesEndInv ==
  ASSUME IInv, NEW r \in Runs, at[r] \in Halves, ProbesEnd(r), Steady, next' = next,
         r \notin overlapped /\ r \notin stoppedLate => \A half \in Halves : Made(probes[r][half])
  PROVE  IInv'
<1>1. /\ Orderly(r) /\ Alone(r) /\ report \in Reports /\ at[r] \in Busy
      /\ results \in Seq(Outcomes) /\ next \in [Runs -> Nat \ {0}]
      /\ stage \in [Runs -> Stages] /\ probes \in [Runs -> Differentials]
      /\ target \in [Runs -> Runs]
  BY DEF IInv, MatrixTypeOK, Orderly, Busy, Halves
<1> DEFINE rep == IF report.of = target[r]
                  THEN [report EXCEPT !.greaseDifferential = probes[r]] ELSE report
<1>2. Publish(r, rep, results)
  BY DEF ProbesEnd
<1>3. Settles(r)
  <2>1. /\ stage' = [stage EXCEPT ![r] = "none"] /\ probes' = [probes EXCEPT ![r] = Unprobed]
        /\ target' = [target EXCEPT ![r] = r]
    BY DEF ProbesEnd
  <2>2. "none" \in Stages
    BY DEF Stages
  <2> QED
    BY <1>1, <2>1, <2>2, ProbesOf DEF Settles
<1>4. /\ rep \in Reports /\ rep.mode = report.mode /\ rep.summary = report.summary
      /\ rep.greaseDifferential \in {report.greaseDifferential, probes[r]}
  BY <1>1 DEF Reports
<1> HIDE DEF rep
<1>5. r \notin overlapped => /\ report.mode = mode[r] /\ OwnCases(r, results)
                             /\ report.summary = Summary(r, results)
                             /\ report.greaseDifferential = None
                             /\ r \notin stopped
  BY <1>1 DEF Alone, Own, OwnGlobals, StopStands, Halves
<1> QED
  BY <1>1, <1>2, <1>3, <1>4, <1>5, PublishInv

(* A probe whose transport is closed.                                      *)
LEMMA Closed ==
  ASSUME NEW p, SoFar(p, "closed")
  PROVE  Made(p)
<1>1. Ahead["closed"] = {}
  BY DEF Ahead
<1> QED
  BY <1>1 DEF SoFar, Made, ProbeAcceptable

LEMMA EnabledEndsInv ==
  ASSUME IInv, NEW r \in Runs, EnabledEnds(r), UNCHANGED fixed
  PROVE  IInv'
<1>1. at[r] = "enabled" /\ stage[r] = "closed" /\ ProbesEnd(r) /\ Steady /\ next' = next
  BY DEF EnabledEnds, fixed, observed, Steady
<1>2. ASSUME r \notin overlapped, r \notin stoppedLate
      PROVE  \A half \in Halves : Made(probes[r][half])
  <2>1. Made(probes[r]["control"]) /\ SoFar(probes[r]["enabled"], "closed")
    BY <1>1, <1>2 DEF IInv, Alone, Probed, Halves
  <2> QED
    BY <2>1, Closed DEF Halves
<1> QED
  BY <1>1, <1>2, ProbesEndInv DEF Halves

LEMMA ControlEndsInv ==
  ASSUME IInv, NEW r \in Runs, ControlEnds(r), UNCHANGED fixed
  PROVE  IInv'
<1>1. at[r] = "control" /\ stage[r] = "closed" /\ Steady /\ next' = next
  BY DEF ControlEnds, fixed, observed, Steady
<1>2. CASE cancelRequested
  <2>1. ProbesEnd(r)
    BY <1>2 DEF ControlEnds
  <2>2. r \notin overlapped => r \in stoppedLate
    BY <1>1, <1>2 DEF IInv, Alone, Probed, Halves
  <2> QED
    BY <1>1, <2>1, <2>2, ProbesEndInv DEF Halves
<1>3. CASE ~cancelRequested
  <2>1. Probe(r, "enabled") /\ UNCHANGED <<results, report, published, target>>
    BY <1>3 DEF ControlEnds
  <2>2. /\ MatrixTypeOK /\ Orderly(r) /\ Alone(r) /\ published[r] = None /\ report \in Reports
        /\ "control" \in Halves \ {"enabled"} /\ "enabled" \in Halves
    BY <1>1 DEF IInv, Orderly, Busy, Halves
  <2>3. /\ at' \in [Runs -> Places] /\ at'[r] = "enabled"
        /\ stage' \in [Runs -> Stages] /\ stage'[r] = "ready"
        /\ probes' \in [Runs -> Differentials]
        /\ probes'[r]["enabled"]["constructor"] = "pass"
        /\ \A key \in ProbeKeys \ {"constructor"} :
             probes'[r]["enabled"][key] = probes[r]["enabled"][key]
        /\ probes'[r]["control"] = probes[r]["control"]
        /\ \A q \in Runs : q # r => at'[q] = at[q] /\ stage'[q] = stage[q]
                                    /\ probes'[q] = probes[q]
    BY <2>1, <2>2, ProbeDoes
  <2>4. MatrixTypeOK'
    BY <1>1, <2>1, <2>2, <2>3 DEF MatrixTypeOK, Steady
  <2>5. Orderly(r)'
    BY <1>1, <2>1, <2>2, <2>3 DEF Orderly, Steady, Busy, Halves
  <2>6. Alone(r)'
    <3> SUFFICES ASSUME r \notin overlapped
                 PROVE  Own(r)' /\ Probed(r)' /\ StopStands(r)' /\ Posts(r)'
      BY <1>1 DEF Alone, Steady
    <3>1. Own(r) /\ StopStands(r) /\ Probed(r)
      BY <2>2 DEF Alone
    <3>2. Own(r)'
      BY <1>1, <2>1, <2>3, <3>1 DEF Own, OwnGlobals, OwnCases, Summary, Steady, Busy, Halves
    <3>3. StopStands(r)' /\ Posts(r)'
      BY <1>1, <2>1, <2>2, <2>3, <3>1 DEF StopStands, Posts, Steady
    <3>4. ASSUME r \notin stoppedLate
          PROVE  SoFar(probes'[r]["enabled"], "ready") /\ Made(probes'[r]["control"])
      <4>1. SoFar(probes[r]["control"], "closed") /\ probes[r]["enabled"] = Unprobed["enabled"]
        BY <1>1, <3>1, <3>4 DEF Probed, Halves
      <4>2. SoFar(probes'[r]["enabled"], "ready")
        BY <2>2, <2>3, <4>1, ProbesOf, Opened
      <4> QED
        BY <2>3, <4>1, <4>2, Closed
    <3>5. Probed(r)'
      BY <1>1, <1>3, <2>3, <3>4 DEF Probed, Steady
    <3> QED
      BY <3>2, <3>3, <3>5
  <2>7. \A q \in Runs : q # r => Still(q)
    BY <1>1, <2>1, <2>3 DEF Still
  <2> QED
    BY <1>1, <2>1, <2>2, <2>3, <2>4, <2>5, <2>6, <2>7, MovesInv DEF UnderWay, Busy, Halves
<1> QED
  BY <1>2, <1>3

LEMMA PostedInv ==
  ASSUME IInv, NEW r \in Runs, Posted(r), UNCHANGED fixed
  PROVE  IInv'
<1>1. /\ at[r] = "posting" /\ at' = [at EXCEPT ![r] = "done"] /\ Steady
      /\ published' = [published EXCEPT ![r] = None]
      /\ UNCHANGED <<next, results, report, stage, probes, target>>
  BY DEF Posted, fixed, observed, differential, Steady
<1>2. at \in [Runs -> Places] /\ Orderly(r) /\ Alone(r) /\ MatrixTypeOK
  BY DEF IInv, MatrixTypeOK
<1>3. PICK S : published \in [Runs -> S]
  BY DEF IInv, MatrixTypeOK
<1>4. /\ at' \in [Runs -> Places] /\ at'[r] = "done"
      /\ \A q \in Runs : q # r => at'[q] = at[q]
  BY <1>1, <1>2 DEF Places
<1>5. /\ published' \in [Runs -> S \cup {None}] /\ published'[r] = None
      /\ \A q \in Runs : q # r => published'[q] = published[q]
  BY <1>1, <1>3
<1>6. MatrixTypeOK'
  BY <1>1, <1>2, <1>4, <1>5 DEF MatrixTypeOK, Steady
<1>7. Orderly(r)'
  BY <1>1, <1>2, <1>4, <1>5 DEF Orderly, Busy, Halves
<1>8. Alone(r)'
  BY <1>1, <1>2, <1>4, <1>5 DEF Alone, Own, Probed, StopStands, Posts, Busy, Halves, Steady
<1>9. \A q \in Runs : q # r => Still(q)
  BY <1>1, <1>4, <1>5 DEF Still
<1> QED
  BY <1>1, <1>4, <1>6, <1>7, <1>8, <1>9, MovesInv DEF UnderWay

LEMMA StopInv ==
  ASSUME IInv, Stop, UNCHANGED fixed
  PROVE  IInv'
<1>1. /\ cancelRequested' = TRUE
      /\ stopped' = stopped \cup {r \in Runs \ overlapped : at[r] \in {"case", "between"}}
      /\ stoppedLate' = stoppedLate \cup {r \in Runs \ overlapped : at[r] \in Halves}
      /\ UNCHANGED <<constructible, takesOptions, datagrams, greaseConfigured, mode, next, at,
                     overlapped, results, report, published, stage, probes, target>>
  BY DEF Stop, fixed, differential
<1>2. MatrixTypeOK'
  BY <1>1 DEF IInv, MatrixTypeOK
<1>3. Beside'
  BY <1>1 DEF IInv, Beside, UnderWay
<1>4. ASSUME NEW r \in Runs PROVE Orderly(r)' /\ Alone(r)'
  <2>1. Orderly(r) /\ Alone(r)
    BY DEF IInv
  <2>2. Orderly(r)'
    BY <1>1, <2>1 DEF Orderly
  <2>3. Own(r)' = Own(r)
    BY <1>1 DEF Own, OwnGlobals, OwnCases, Summary
  <2>4. StopStands(r) => StopStands(r)'
    BY <1>1, <2>1 DEF StopStands, Orderly
  <2>5. Posts(r) => Posts(r)'
    BY <1>1, PostsFrame
  <2>6. r \notin overlapped => Probed(r)'
    BY <1>1 DEF Probed
  <2> QED
    BY <1>1, <2>1, <2>2, <2>3, <2>4, <2>5, <2>6 DEF Alone
<1> QED
  BY <1>2, <1>3, <1>4 DEF IInv

(* A run takes the globals over, and those that were under way are no      *)
(* longer alone.                                                           *)
LEMMA TakeOverInv ==
  ASSUME IInv, NEW r \in Runs, NEW m \in Modes, at[r] \in {"none", "loading"}, TakeOver(r, m),
         UNCHANGED <<fixed, differential>>
  PROVE  IInv'
<1> DEFINE others == {q \in Runs \ {r} : UnderWay(q)}
<1>1. /\ mode' = [mode EXCEPT ![r] = m] /\ cancelRequested' = FALSE /\ results' = <<>>
      /\ overlapped' = IF others = {} THEN overlapped ELSE overlapped \cup others \cup {r}
      /\ stopped' = stopped \ overlapped' /\ stoppedLate' = stoppedLate \ overlapped'
      /\ UNCHANGED <<constructible, takesOptions, datagrams, greaseConfigured, next,
                     stage, probes, target>>
  BY DEF TakeOver, fixed, differential
<1>2. /\ at \in [Runs -> Places] /\ mode \in [Runs -> Modes] /\ next[r] = 1 /\ r \notin stopped
      /\ published[r] = None /\ at[r] \notin Halves
      /\ stage[r] = "none" /\ probes[r] = Unprobed /\ target[r] = r
  BY DEF IInv, MatrixTypeOK, Orderly, Halves
<1>3. PICK S : published \in [Runs -> S]
  BY DEF IInv, MatrixTypeOK
<1> DEFINE Begins(place, range) ==
             /\ at' = [at EXCEPT ![r] = place]
             /\ place = "case" => constructible
             /\ published' \in [Runs -> range]
             /\ \A q \in Runs : q # r => published'[q] = published[q]
             /\ place # "posting" => published'[r] = None
             /\ published'[r] # None =>
                  /\ ~constructible /\ RunAcceptable(published'[r])
                  /\ GreaseAcceptable(published'[r].grease) /\ published'[r].cases = <<>>
             /\ report' \in Reports /\ report'.mode = m /\ report'.of = r
             /\ place = "case" => report'.greaseDifferential = None
<1>4. \E place \in {"case", "posting", "done"} : \E range : Begins(place, range)
  <2> DEFINE summary == [plannedCases |-> Len(Planned(m)), completedCases |-> 0]
             rep == [of |-> r, mode |-> m, cancelled |-> FALSE, summary |-> None,
                     greaseDifferential |-> None]
             grease == IF RunsGrease(rep) THEN Unprobed ELSE None
             whole == [rep EXCEPT !.summary = summary, !.greaseDifferential = grease]
             post == [cases |-> <<>>, mode |-> m, summary |-> whole.summary,
                      cancelled |-> FALSE, grease |-> whole.greaseDifferential]
  <2>1. rep \in Reports /\ rep.mode = m /\ rep.of = r /\ rep.greaseDifferential = None
    BY DEF Reports
  <2>2. /\ whole \in Reports /\ whole.mode = m /\ whole.of = r /\ whole.summary = summary
        /\ whole.greaseDifferential \in {Unprobed, None}
    <3>1. summary \in Summaries
      BY PlanOf DEF Summaries
    <3>2. grease \in {Unprobed, None} /\ grease \in Differentials \cup {None}
      BY ProbesOf
    <3> HIDE DEF summary, grease, rep
    <3> QED
      BY <2>1, <3>1, <3>2 DEF Reports
  <2>3. CASE constructible
    <3>1. report' = rep /\ at' = [at EXCEPT ![r] = "case"] /\ published' = published
      BY <2>3 DEF TakeOver
    <3> HIDE DEF rep
    <3> QED
      BY <1>2, <1>3, <2>1, <2>3, <3>1
  <2>4. CASE ~constructible /\ MayPublish(whole)
    <3>1. /\ report' = whole /\ at' = [at EXCEPT ![r] = "posting"]
          /\ published' = [published EXCEPT ![r] = post]
      BY <2>4 DEF TakeOver
    <3>2. /\ post.cases = <<>> /\ ~post.cancelled /\ post.grease = whole.greaseDifferential
          /\ post.mode = m /\ post.summary = whole.summary
      OBVIOUS
    <3>3. summary.plannedCases # 0 /\ summary.completedCases = Len(<<>>)
      BY PlanOf
    <3> HIDE DEF whole, post, summary
    <3>4. m = "exhaustive" /\ (greaseConfigured => whole.greaseDifferential # None)
      BY <2>2, <2>4 DEF MayPublish
    <3>5. RunAcceptable(post)
      BY <2>2, <2>4, <3>2, <3>3, <3>4 DEF RunAcceptable
    <3>6. \A half \in Halves : ProbeAcceptable(Unprobed[half])
      <4>1. EchoKeys \subseteq ProbeKeys /\ "ready" \in ProbeKeys /\ "constructor" \in ProbeKeys
        BY DEF ProbeKeys
      <4> QED
        BY <4>1, ProbesOf DEF ProbeAcceptable
    <3>7. GreaseAcceptable(post.grease)
      BY <2>2, <3>2, <3>4, <3>6 DEF GreaseAcceptable
    <3>8. /\ published'[r] = post /\ \A q \in Runs : q # r => published'[q] = published[q]
          /\ published' \in [Runs -> S \cup {post}]
      BY <1>3, <3>1
    <3>9. Begins("posting", S \cup {post})
      BY <2>2, <2>4, <3>1, <3>2, <3>5, <3>7, <3>8
    <3> QED
      BY <3>9
  <2>5. CASE ~constructible /\ ~MayPublish(whole)
    <3>1. report' = whole /\ at' = [at EXCEPT ![r] = "done"] /\ published' = published
      BY <2>5 DEF TakeOver
    <3> HIDE DEF whole
    <3> QED
      BY <1>2, <1>3, <2>2, <3>1
  <2> QED
    BY <2>3, <2>4, <2>5
<1>5. PICK place \in {"case", "posting", "done"} : \E range : Begins(place, range)
  BY <1>4
<1>p. PICK range : Begins(place, range)
  BY <1>5
<1>6. /\ at' \in [Runs -> Places] /\ at'[r] = place
      /\ \A q \in Runs : q # r => at'[q] = at[q]
  BY <1>2, <1>p DEF Places
<1>7. /\ mode' \in [Runs -> Modes] /\ mode'[r] = m
      /\ \A q \in Runs : q # r => mode'[q] = mode[q]
  BY <1>1, <1>2
<1>8. \A q \in Runs : q # r /\ UnderWay(q) => q \in overlapped' /\ r \in overlapped'
  BY <1>1
<1>9. overlapped \subseteq overlapped' /\ overlapped' \subseteq Runs
  BY <1>1 DEF IInv, MatrixTypeOK
<1>10. MatrixTypeOK'
  <2>1. results' \in Seq(Outcomes) /\ cancelRequested' \in BOOLEAN
    <3>1. results' = <<>> /\ cancelRequested' = FALSE
      BY <1>1
    <3>2. <<>> \in Seq(Outcomes)
      OBVIOUS
    <3> QED
      BY <3>1, <3>2
  <2>2. stopped' \subseteq Runs \ overlapped' /\ stoppedLate' \subseteq Runs
    BY <1>1 DEF IInv, MatrixTypeOK
  <2> QED
    BY <1>1, <1>p, <1>6, <1>7, <1>9, <2>1, <2>2 DEF IInv, MatrixTypeOK
<1>11. Beside'
  <2> SUFFICES ASSUME NEW p \in Runs, NEW q \in Runs, p # q, UnderWay(p)', UnderWay(q)'
               PROVE  p \in overlapped'
    BY DEF Beside
  <2>1. CASE p = r
    BY <1>6, <1>8, <2>1 DEF UnderWay
  <2>2. CASE p # r /\ q = r
    BY <1>6, <1>8, <2>2 DEF UnderWay
  <2>3. CASE p # r /\ q # r
    BY <1>6, <1>9, <2>3 DEF UnderWay, IInv, Beside
  <2> QED
    BY <2>1, <2>2, <2>3
<1>12. Orderly(r)'
  <2>1. 1 <= Len(Planned(m))
    BY PlanOf
  <2> QED
    BY <1>1, <1>2, <1>p, <1>6, <1>7, <2>1 DEF Orderly, Busy, Halves
<1>13. Alone(r)'
  <2>1. Own(r)'
    <3>1. Len(results') = 0 /\ 1 .. 0 = {} /\ next'[r] - 1 = 0
      BY <1>1, <1>2
    <3> QED
      BY <1>1, <1>2, <1>p, <1>6, <1>7, <3>1 DEF Own, OwnGlobals, OwnCases, Busy, Halves
  <2>2. StopStands(r)' /\ Probed(r)'
    BY <1>1, <1>2, <1>6 DEF StopStands, Probed, Halves
  <2>3. Posts(r)'
    <3> SUFFICES ASSUME published'[r] # None PROVE Posts(r)'
      BY DEF Posts
    <3>1. /\ ~constructible /\ RunAcceptable(published'[r])
          /\ GreaseAcceptable(published'[r].grease) /\ published'[r].cases = <<>>
      BY <1>p
    <3>2. /\ RunAcceptable(published[r])' /\ GreaseAcceptable(published[r].grease)'
          /\ ~constructible'
      BY <1>1, <3>1 DEF RunAcceptable, CoversEvery, GreaseAcceptable, ProbeAcceptable
    <3>3. DOMAIN published'[r].cases = {}
      BY <3>1
    <3> QED
      BY <3>2, <3>3 DEF Posts, Acceptable, Measured
  <2> QED
    BY <2>1, <2>2, <2>3 DEF Alone
<1>14. ASSUME NEW q \in Runs, q # r PROVE Orderly(q)' /\ Alone(q)'
  <2>1. Orderly(q) /\ Alone(q)
    BY DEF IInv
  <2>2. /\ at'[q] = at[q] /\ next'[q] = next[q] /\ published'[q] = published[q]
        /\ mode'[q] = mode[q]
    BY <1>1, <1>p, <1>6, <1>7, <1>14
  <2>3. Orderly(q)'
    BY <1>1, <1>p, <2>1, <2>2 DEF Orderly
  <2>4. ASSUME q \notin overlapped'
        PROVE  Own(q)' /\ Probed(q)' /\ StopStands(q)' /\ Posts(q)'
    <3>1. q \notin overlapped /\ ~UnderWay(q)
      BY <1>8, <1>9, <1>14, <2>4
    <3>2. at[q] \notin Busy /\ at[q] # "posting" /\ at[q] \notin {"case", "between"}
      BY <3>1 DEF UnderWay, Busy, Halves
    <3>3. published[q] = None
      BY <2>1, <3>2 DEF Orderly
    <3> QED
      BY <1>1, <2>1, <2>2, <3>1, <3>2, <3>3 DEF Alone, Own, Probed, StopStands, Posts, Busy
  <2> QED
    BY <2>3, <2>4 DEF Alone
<1> QED
  BY <1>10, <1>11, <1>12, <1>13, <1>14 DEF IInv

(* What leaves the runs as they are, has one wait for the certificate, or  *)
(* ends one that has nothing to run.                                       *)
LEMMA RestInv ==
  ASSUME IInv,
         UNCHANGED <<fixed, cancelRequested, results, report, next, published, differential,
                     observed>>,
         \/ UNCHANGED <<at, mode>>
         \/ \E r \in Runs, m \in Modes, place \in {"loading", "done"} :
              /\ at[r] \in {"none", "loading"}
              /\ at' = [at EXCEPT ![r] = place]
              /\ mode' = [mode EXCEPT ![r] = m]
  PROVE  IInv'
<1>1. at \in [Runs -> Places] /\ mode \in [Runs -> Modes]
  BY DEF IInv, MatrixTypeOK
<1>2. at' \in [Runs -> Places] /\ mode' \in [Runs -> Modes]
  BY <1>1 DEF Places
<1>u. UNCHANGED <<constructible, takesOptions, datagrams, greaseConfigured, cancelRequested,
                  results, report, next, published, stage, probes, target, overlapped, stopped,
                  stoppedLate>>
  BY DEF fixed, differential, observed
<1>3. MatrixTypeOK'
  <2>1. PICK S : published \in [Runs -> S]
    BY DEF IInv, MatrixTypeOK
  <2>2. \E T : published' \in [Runs -> T]
    BY <1>u, <2>1
  <2>3. MatrixTypeOK
    BY DEF IInv
  <2> QED
    BY <1>2, <1>u, <2>2, <2>3 DEF MatrixTypeOK
<1>4. ASSUME NEW q \in Runs
      PROVE  \/ at'[q] = at[q] /\ mode'[q] = mode[q]
             \/ at[q] \in {"none", "loading"} /\ at'[q] \in {"loading", "done"}
  BY <1>1
<1>5. Beside'
  BY <1>4, <1>u DEF IInv, Beside, UnderWay
<1>6. ASSUME NEW q \in Runs PROVE Orderly(q)' /\ Alone(q)'
  <2>1. Orderly(q) /\ Alone(q)
    BY DEF IInv
  <2>2. Posts(q) => Posts(q)'
    BY <1>u, PostsFrame
  <2>3. CASE at'[q] = at[q] /\ mode'[q] = mode[q]
    <3>1. Orderly(q)'
      BY <1>u, <2>1, <2>3 DEF Orderly
    <3>2. Own(q)' = Own(q) /\ Probed(q)' = Probed(q)
      BY <1>u, <2>3 DEF Own, OwnGlobals, OwnCases, Summary, Probed
    <3>3. StopStands(q)' = StopStands(q)
      BY <1>u, <2>3 DEF StopStands
    <3> QED
      BY <1>u, <2>1, <2>2, <3>1, <3>2, <3>3 DEF Alone
  <2>4. CASE at[q] \in {"none", "loading"} /\ at'[q] \in {"loading", "done"}
    <3>1. Orderly(q)'
      BY <1>u, <2>1, <2>4 DEF Orderly, Busy, Halves
    <3>2. Own(q)' /\ Probed(q)'
      BY <2>4 DEF Own, Probed, Busy, Halves
    <3>3. StopStands(q)'
      BY <1>u, <2>1, <2>4 DEF Orderly, StopStands
    <3> QED
      BY <1>u, <2>1, <2>2, <3>1, <3>2, <3>3 DEF Alone
  <2> QED
    BY <1>4, <2>3, <2>4
<1> QED
  BY <1>3, <1>5, <1>6 DEF IInv

LEMMA BeginInv ==
  ASSUME IInv, NEW r \in Runs, NEW m \in Modes, at[r] \in {"none", "loading"}, Begin(r, m),
         UNCHANGED fixed
  PROVE  IInv'
<1>1. CASE NothingToRun(r, m)
  BY <1>1, RestInv DEF NothingToRun, Begin
<1>2. CASE TakeOver(r, m)
  BY <1>2, TakeOverInv DEF Begin
<1> QED
  BY <1>1, <1>2 DEF Begin

LEMMA StartInv ==
  ASSUME IInv, NEW r \in Runs, NEW m \in Modes, at[r] = "none", Start(r, m), UNCHANGED fixed
  PROVE  IInv'
<1>1. CASE certHash
  BY <1>1, BeginInv DEF Start
<1>2. CASE ~certHash
  <2>1. /\ UNCHANGED <<cancelRequested, results, report, next, published, differential, observed>>
        /\ at' = [at EXCEPT ![r] = "loading"] /\ mode' = [mode EXCEPT ![r] = m]
    BY <1>2 DEF Start
  <2> QED
    BY <2>1, RestInv
<1> QED
  BY <1>1, <1>2

-----------------------------------------------------------------------------
LEMMA InitInv == Init => IInv
<1> SUFFICES ASSUME Init PROVE IInv
  OBVIOUS
<1>1. \A r \in Runs : /\ at[r] = "none" /\ next[r] = 1 /\ published[r] = None
                      /\ r \notin stopped
                      /\ stage[r] = "none" /\ probes[r] = Unprobed /\ target[r] = r
  BY DEF Init
<1>2. MatrixTypeOK
  <2>1. published \in [Runs -> {None}]
    BY DEF Init
  <2>2. at \in [Runs -> Places] /\ mode \in [Runs -> Modes] /\ next \in [Runs -> Nat \ {0}]
    BY DEF Init, Places, Modes
  <2>3. results \in Seq(Outcomes)
    <3>1. results = <<>> /\ <<>> \in Seq(Outcomes)
      BY DEF Init
    <3> QED
      BY <3>1
  <2>4. /\ constructible \in BOOLEAN /\ takesOptions \in BOOLEAN /\ datagrams \in BOOLEAN
        /\ greaseConfigured \in BOOLEAN
        /\ cancelRequested \in BOOLEAN /\ report \in Reports \cup {None}
        /\ overlapped \subseteq Runs /\ stopped \subseteq Runs \ overlapped
        /\ stoppedLate \subseteq Runs
    BY DEF Init
  <2>5. /\ stage \in [Runs -> Stages] /\ probes \in [Runs -> Differentials]
        /\ target \in [Runs -> Runs]
    BY ProbesOf DEF Init, Stages
  <2> QED
    BY <2>1, <2>2, <2>3, <2>4, <2>5 DEF MatrixTypeOK
<1>3. Beside
  BY <1>1 DEF Beside, UnderWay
<1>4. \A r \in Runs : Orderly(r) /\ Alone(r)
  BY <1>1 DEF Orderly, Alone, Own, Probed, StopStands, Posts, Busy, Halves
<1> QED
  BY <1>2, <1>3, <1>4 DEF IInv

LEMMA NextInv == IInv /\ [Next]_vars => IInv'
<1> SUFFICES ASSUME IInv, [Next]_vars PROVE IInv'
  OBVIOUS
<1>1. CASE UNCHANGED vars
  BY <1>1, RestInv DEF vars, globals
<1>2. CASE LoadCertificate /\ UNCHANGED fixed
  BY <1>2, RestInv DEF LoadCertificate
<1>3. CASE Autorun /\ UNCHANGED fixed
  BY <1>3, StartInv DEF Autorun, Modes
<1>4. CASE Stop /\ UNCHANGED fixed
  BY <1>4, StopInv
<1>5. ASSUME NEW r \in Runs, Click(r), UNCHANGED fixed PROVE IInv'
  BY <1>5, StartInv DEF Click, Modes
<1>6. ASSUME NEW r \in Runs, GoesOn(r), UNCHANGED fixed PROVE IInv'
  <2>1. CASE Loaded(r)
    <3>1. mode[r] \in Modes
      BY DEF IInv, MatrixTypeOK
    <3> QED
      BY <1>6, <2>1, <3>1, BeginInv DEF Loaded
  <2> QED
    BY <1>6, <2>1, CaseEndsInv, DelayEndsInv, StageEndsInv, ControlEndsInv, EnabledEndsInv,
       PostedInv DEF GoesOn
<1> QED
  BY <1>1, <1>2, <1>3, <1>4, <1>5, <1>6 DEF Next

(* IInv is an inductive invariant of the test page.                        *)
THEOREM MatrixInvariant == Spec => []IInv
<1> QED
  BY InitInv, NextInv, PTL DEF Spec

(* Whatever the number of runs and of combinations, and wherever the Stop  *)
(* button is pressed: what a run that was alone posts (publishReport) are  *)
(* its own cases, every combination once or none at all.  With what its    *)
(* GREASE differential came to it passes sanitizeSubmission of the server, *)
(* sanitizeGreaseProbe included, unless the run was stopped in there.      *)
THEOREM MatrixPostsAcceptable == Spec => []PostedIsAcceptable
<1>1. IInv => PostedIsAcceptable
  BY DEF IInv, Alone, Posts, PostedIsAcceptable
<1> QED
  BY <1>1, MatrixInvariant, PTL

(* A run that was stopped during its cases, and was alone, is never posted *)
(* (README.md:362-363).                                                    *)
THEOREM MatrixStoppedStaysLocal == Spec => []StoppedStaysLocal
<1>1. IInv => StoppedStaysLocal
  BY DEF IInv, MatrixTypeOK, Alone, StopStands, StoppedStaysLocal
<1> QED
  BY <1>1, MatrixInvariant, PTL

-----------------------------------------------------------------------------
(* A run that is stopped goes to its end without a transport or a stage    *)
(* more.                                                                   *)
LEMMA StoppedOpensNone ==
  ASSUME IInv, cancelRequested, cancelRequested', [Next]_vars, NEW r \in Runs
  PROVE  /\ at'[r] \in Transports => at[r] = at'[r]
         /\ stage'[r] \in {stage[r], "closed", "none"}
<1> DEFINE Heeds == /\ at'[r] \in Transports => at[r] = at'[r]
                    /\ stage'[r] \in {stage[r], "closed", "none"}
<1>1. at \in [Runs -> Places] /\ stage \in [Runs -> Stages]
  BY DEF IInv, MatrixTypeOK
<1>2. ASSUME NEW q \in Runs, NEW place, place \notin Transports,
             at' = [at EXCEPT ![q] = place]
      PROVE  at'[r] \in Transports => at[r] = at'[r]
  BY <1>1, <1>2
<1>3. ASSUME UNCHANGED <<at, stage>> PROVE Heeds
  BY <1>3
<1>4. ASSUME NEW q \in Runs, NEW rep, NEW cases, Publish(q, rep, cases)
      PROVE  at'[r] \in Transports => at[r] = at'[r]
  BY <1>2, <1>4 DEF Publish, Transports, Halves
<1>5. ASSUME NEW q \in Runs, NEW cases, AfterCases(q, cases) PROVE Heeds
  BY <1>4, <1>5 DEF AfterCases, Conclude, differential
<1>6. ASSUME NEW q \in Runs, NEW m, Begin(q, m) PROVE Heeds
  <2>1. NothingToRun(q, m) /\ UNCHANGED differential
    BY <1>6 DEF Begin, TakeOver
  <2> QED
    BY <1>2, <2>1 DEF NothingToRun, Transports, Halves, differential
<1>7. ASSUME NEW q \in Runs, NEW m, Start(q, m) PROVE Heeds
  <2>1. CASE certHash
    BY <1>6, <1>7, <2>1 DEF Start
  <2>2. CASE ~certHash
    BY <1>2, <1>7, <2>2 DEF Start, Transports, Halves, differential
  <2> QED
    BY <2>1, <2>2
<1>8. ASSUME NEW q \in Runs, ProbesEnd(q) PROVE Heeds
  <2>1. at'[r] \in Transports => at[r] = at'[r]
    BY <1>4, <1>8 DEF ProbesEnd
  <2>2. stage' = [stage EXCEPT ![q] = "none"]
    BY <1>8 DEF ProbesEnd
  <2> QED
    BY <1>1, <2>1, <2>2
<1>9. ASSUME NEW q \in Runs, GoesOn(q) PROVE Heeds
  <2>1. CASE Loaded(q)
    BY <1>6, <2>1 DEF Loaded
  <2>2. CASE CaseEnds(q)
    BY <1>5, <2>2 DEF CaseEnds
  <2>3. CASE DelayEnds(q)
    BY <1>5, <2>3 DEF DelayEnds, LoopHead
  <2>4. CASE ControlEnds(q) \/ EnabledEnds(q)
    BY <1>8, <2>4 DEF ControlEnds, EnabledEnds
  <2>5. CASE Posted(q)
    BY <1>2, <2>5 DEF Posted, Transports, Halves, differential
  <2>6. CASE StageEnds(q)
    <3>1. at' = at /\ \E awaited : /\ awaited = "closed"
                                   /\ stage' = [stage EXCEPT ![q] = awaited]
      BY <2>6 DEF StageEnds, Following
    <3> QED
      BY <1>1, <3>1
  <2> QED
    BY <1>9, <2>1, <2>2, <2>3, <2>4, <2>5, <2>6 DEF GoesOn
<1>10. ASSUME NEW q \in Runs, Click(q) PROVE Heeds
  BY <1>7, <1>10 DEF Click
<1>11. CASE Autorun
  BY <1>7, <1>11 DEF Autorun
<1>12. CASE LoadCertificate \/ Stop \/ UNCHANGED vars
  BY <1>3, <1>12 DEF LoadCertificate, Stop, vars, differential
<1> QED
  BY <1>9, <1>10, <1>11, <1>12 DEF Next

(* From a stop to the next run no run opens a transport or goes on to a    *)
(* further stage, whatever it was waiting for when it was stopped          *)
(* (matrixLoop, runGreaseDifferential, runOne).                            *)
THEOREM MatrixStopIsHeeded == Spec => StopIsHeeded
<1>1. IInv /\ [Next]_vars =>
        [cancelRequested /\ cancelRequested' =>
           \A r \in Runs : /\ at'[r] \in Transports => at[r] = at'[r]
                           /\ stage'[r] \in {stage[r], "closed", "none"}]_vars
  BY StoppedOpensNone
<1> QED
  BY <1>1, MatrixInvariant, PTL DEF Spec, StopIsHeeded
================================================================================
