------------------------------ MODULE MatrixRun ------------------------------
(***************************************************************************)
(* The test page (public/index.html): how a run of the matrix begins, goes *)
(* through its cases, is stopped, and is offered to the page server.       *)
(*                                                                         *)
(* JavaScript runs one piece of code at a time: an action is what happens  *)
(* between two awaits.  The runs share the page's globals, and a run waits *)
(* for the certificate before it disables the buttons, so that several may *)
(* be under way at once.                                                   *)
(***************************************************************************)
EXTENDS Integers, Sequences, FiniteSets

CONSTANTS
  Runs,           \* the calls of runMatrix; bound: how many there are
  Probing,        \* the runs for which the box of the GREASE A/B is ticked
  Combinations,   \* the cases of an exhaustive run: 1 .. Combinations
  EchoOutcomes    \* bound: what an echo of a GREASE probe may come to

ASSUME MatrixAssumption ==
  /\ Probing \subseteq Runs
  /\ Combinations \in Nat \ {0}
  /\ EchoOutcomes # {} /\ EchoOutcomes \subseteq {"pass", "fail"}

(* The cases of a run, as it takes them one after the other: those of a    *)
(* selected run are other variants, which have no combination number.      *)
Curated == 0
Planned(mode) == IF mode = "exhaustive" THEN [i \in 1 .. Combinations |-> i]
                                        ELSE <<Curated>>

None == [none |-> TRUE]   \* no report yet, nothing published

(* The GREASE differential is two probes, of a control server and of one   *)
(* with GREASE enabled.  A probe is a transport (runOne): its constructor, *)
(* its ready, then three echoes.                                           *)
Halves == {"control", "enabled"}
EchoKeys == {"datagram", "bidirectionalStream", "unidirectionalStream"}
ProbeKeys == {"constructor", "ready"} \cup EchoKeys
Unprobed == [half \in Halves |-> [key \in ProbeKeys |-> "not-run"]]
Thrown == [half \in Halves |-> [Unprobed[half] EXCEPT !["constructor"] = "fail"]]

After == [ready                |-> "datagram",
          datagram             |-> "bidirectionalStream",
          bidirectionalStream  |-> "unidirectionalStream",
          unidirectionalStream |-> "closed"]

VARIABLES
  \* the browser and the configuration, which do not change
  constructible,    \* there is a WebTransport constructor
  takesOptions,     \* which does not throw on the options of the GREASE probes
  datagrams,        \* its transports have the streams of a datagram API
  greaseConfigured, \* there is a pair of servers for the GREASE differential
  \* globals of the page
  certHash,         \* the certificate metadata is loaded
  autorun,          \* initialize() has started a run by itself
  running,          \* what setRunControls last set
  results,          \* the cases that have ended
  report,           \* the report of the run that began last
  cancelRequested,
  \* each run
  at,               \* where it waits
  mode,             \* "exhaustive" or "selected"
  next,             \* the number of its next case
  published,        \* what it is posting to the server
  stage,            \* the stage of a probe it waits for
  probes,           \* the outcomes of its two probes so far
  target,           \* the run whose report its differential is for
  \* observed, not in the code
  overlapped,       \* the runs that had another one under way beside them
  stopped,          \* the others that were stopped while their cases went on
  stoppedLate       \* the others that were stopped in their differential
fixed == <<constructible, takesOptions, datagrams, greaseConfigured>>
globals == <<certHash, autorun, running, results, report, cancelRequested>>
differential == <<stage, probes, target>>
observed == <<overlapped, stopped, stoppedLate>>
vars == <<fixed, globals, at, mode, next, published, differential, observed>>

(* A run waits for the certificate, for a transport, between two cases or  *)
(* for the answer of the server.                                           *)
Transports == {"case"} \cup Halves
UnderWay(r) == at[r] \notin {"none", "loading", "done"}

Init ==
  /\ constructible \in BOOLEAN /\ takesOptions \in BOOLEAN
  /\ datagrams \in BOOLEAN /\ greaseConfigured \in BOOLEAN
  /\ certHash = FALSE /\ autorun = FALSE /\ running = FALSE
  /\ results = <<>> /\ report = None /\ cancelRequested = FALSE
  /\ at = [r \in Runs |-> "none"]
  /\ mode = [r \in Runs |-> "selected"]
  /\ next = [r \in Runs |-> 1]
  /\ published = [r \in Runs |-> None]
  /\ stage = [r \in Runs |-> "none"]
  /\ probes = [r \in Runs |-> Unprobed]
  /\ target = [r \in Runs |-> r]
  /\ overlapped = {} /\ stopped = {} /\ stoppedLate = {}

-----------------------------------------------------------------------------
(* summarizeResults, as far as publication asks for it.                    *)
Summary(r, cases) == [plannedCases   |-> Len(Planned(mode[r])),
                      completedCases |-> Len(cases)]

(* report.run.greaseDifferential: the run of the report is to have one.    *)
RunsGrease(rep) == greaseConfigured /\ rep.of \in Probing

(* publicationBlockReason: only a complete exhaustive run is shared, and   *)
(* only with its GREASE differential where that is configured.             *)
MayPublish(rep) ==
  /\ rep.summary # None /\ ~rep.cancelled /\ rep.mode = "exhaustive"
  /\ greaseConfigured => RunsGrease(rep) /\ rep.greaseDifferential # None
  /\ constructible => rep.summary.completedCases = rep.summary.plannedCases

(* publishReport, and the end of the run when there is nothing to post.    *)
Publish(r, rep, cases) ==
  /\ report' = rep /\ results' = cases
  /\ IF MayPublish(rep)
     THEN /\ at' = [at EXCEPT ![r] = "posting"]
          /\ published' = [published EXCEPT ![r] =
               [cases |-> cases, mode |-> rep.mode, summary |-> rep.summary,
                cancelled |-> rep.cancelled, grease |-> rep.greaseDifferential]]
          /\ UNCHANGED running
     ELSE /\ at' = [at EXCEPT ![r] = "done"]
          /\ running' = FALSE
          /\ UNCHANGED published

(* A probe's transport is constructed, and the page waits for its ready.   *)
Probe(r, half) ==
  /\ at' = [at EXCEPT ![r] = half]
  /\ stage' = [stage EXCEPT ![r] = "ready"]
  /\ probes' = [probes EXCEPT ![r][half]["constructor"] = "pass"]

(* runGreaseDifferential, unless the run is stopped: the first probe or,   *)
(* where the constructor throws, both of them on the spot.                 *)
Conclude(r, rep, cases) ==
  IF cancelRequested \/ ~RunsGrease(rep)
  THEN Publish(r, rep, cases) /\ UNCHANGED differential
  ELSE IF takesOptions
  THEN /\ Probe(r, "control")
       /\ target' = [target EXCEPT ![r] = rep.of]
       /\ report' = rep /\ results' = cases
       /\ UNCHANGED <<running, published>>
  ELSE /\ Publish(r, [rep EXCEPT !.greaseDifferential = Thrown], cases)
       /\ UNCHANGED differential

(* Mutated: whether the run was stopped is not recorded. *)
AfterCasesUnrecorded(r, cases) ==
  Conclude(r, [report EXCEPT !.summary = Summary(r, cases)], cases)

(* The cases are over.  Whether the report counts as cancelled is decided  *)
(* before the GREASE differential runs.                                    *)
AfterCases(r, cases) ==
  Conclude(r, [report EXCEPT !.cancelled = cancelRequested, !.summary = Summary(r, cases)],
           cases)

(* Mutated: a stop is looked for before the delay only. *)
LoopHeadAnyway(r) ==
  IF next[r] > Len(Planned(mode[r])) THEN AfterCases(r, results)
  ELSE /\ at' = [at EXCEPT ![r] = "case"]
       /\ UNCHANGED <<running, results, report, published, differential>>

(* The head of matrixLoop: the next transport, unless the run is stopped.  *)
LoopHead(r) ==
  IF cancelRequested \/ next[r] > Len(Planned(mode[r])) THEN AfterCases(r, results)
  ELSE /\ at' = [at EXCEPT ![r] = "case"]
       /\ UNCHANGED <<running, results, report, published, differential>>

-----------------------------------------------------------------------------
(* runMatrix behind its first awaits, when no path or no variant is        *)
(* selected: the run ends before it touches anything.                      *)
NothingToRun(r, m) ==
  /\ at' = [at EXCEPT ![r] = "done"]
  /\ mode' = [mode EXCEPT ![r] = m]
  /\ UNCHANGED <<running, results, report, cancelRequested, next, published, observed>>

(* Otherwise there is a fresh report, which takes the place of another     *)
(* run's, and the buttons are disabled.  Without a constructor there are   *)
(* no cases, and a differential that did not run.                          *)
TakeOver(r, m) ==
  /\ mode' = [mode EXCEPT ![r] = m]
  /\ cancelRequested' = FALSE
  /\ LET others == {q \in Runs \ {r} : UnderWay(q)}
     IN overlapped' = IF others = {} THEN overlapped ELSE overlapped \cup others \cup {r}
  /\ stopped' = stopped \ overlapped' /\ stoppedLate' = stoppedLate \ overlapped'
  /\ results' = <<>>
  /\ LET rep == [of |-> r, mode |-> m, cancelled |-> FALSE, summary |-> None,
                 greaseDifferential |-> None]
     IN IF constructible
        THEN /\ report' = rep /\ running' = TRUE
             /\ at' = [at EXCEPT ![r] = "case"]
             /\ UNCHANGED published
        ELSE LET whole == [rep EXCEPT !.summary = [plannedCases |-> Len(Planned(m)),
                                                   completedCases |-> 0],
                           !.greaseDifferential = IF RunsGrease(rep) THEN Unprobed ELSE None]
             IN /\ report' = whole
                /\ IF MayPublish(whole)
                   THEN /\ at' = [at EXCEPT ![r] = "posting"]
                        /\ running' = TRUE
                        /\ published' = [published EXCEPT ![r] =
                             [cases |-> <<>>, mode |-> m, summary |-> whole.summary,
                              cancelled |-> FALSE, grease |-> whole.greaseDifferential]]
                   ELSE /\ at' = [at EXCEPT ![r] = "done"]
                        /\ running' = FALSE
                        /\ UNCHANGED published
  /\ UNCHANGED next

Begin(r, m) == (NothingToRun(r, m) \/ TakeOver(r, m)) /\ UNCHANGED differential

Start(r, m) ==
  IF certHash THEN Begin(r, m) /\ UNCHANGED certHash
  ELSE /\ at' = [at EXCEPT ![r] = "loading"]
       /\ mode' = [mode EXCEPT ![r] = m]
       /\ UNCHANGED <<certHash, running, results, report, cancelRequested, next,
                      published, differential, observed>>

(* A click on a button that is not disabled, even before initialize is at  *)
(* its end.                                                                *)
Click(r) ==
  /\ at[r] = "none" /\ ~running
  /\ \E m \in {"exhaustive", "selected"} : Start(r, m)
  /\ UNCHANGED autorun

(* initialize loads the certificate, or fails to, and at its end may start *)
(* a run without a look at the buttons.  When no run is left to begin, it  *)
(* does not matter any more.                                               *)
LoadCertificate ==
  /\ ~autorun /\ ~certHash /\ \E r \in Runs : at[r] = "none"
  /\ certHash' = TRUE
  /\ UNCHANGED <<autorun, running, results, report, cancelRequested, at, mode, next,
                 published, differential, observed>>

Autorun ==
  /\ ~autorun
  /\ autorun' = TRUE
  /\ \E r \in Runs, m \in {"exhaustive", "selected"} : at[r] = "none" /\ Start(r, m)

(* The run goes on with the certificate or, when it cannot be had, without. *)
Loaded(r) ==
  /\ at[r] = "loading"
  /\ Begin(r, mode[r])
  /\ certHash' \in {certHash, TRUE}
  /\ UNCHANGED autorun

(* A case ends: its transport answers, fails, times out or is closed.      *)
CaseEnds(r) ==
  /\ at[r] = "case"
  /\ LET n     == next[r]
         cases == Append(results, [case |-> Planned(mode[r])[n], run |-> r])
     IN /\ next' = [next EXCEPT ![r] = n + 1]
        /\ IF cancelRequested THEN AfterCases(r, cases)
           ELSE /\ results' = cases
                /\ report' = [report EXCEPT !.summary = Summary(r, cases)]
                /\ at' = [at EXCEPT ![r] = "between"]
                /\ UNCHANGED <<running, published, differential>>
  /\ UNCHANGED <<certHash, autorun, cancelRequested, mode, observed>>

(* Mutated: a stop takes the timer of the delay away. *)
DelayEndsUnlessStopped(r) ==
  /\ at[r] = "between" /\ ~cancelRequested
  /\ LoopHead(r)
  /\ UNCHANGED <<certHash, autorun, cancelRequested, mode, next, observed>>

(* The delay between two cases is over; bound: it is not zero.             *)
DelayEnds(r) ==
  /\ at[r] = "between"
  /\ LoopHead(r)
  /\ UNCHANGED <<certHash, autorun, cancelRequested, mode, next, observed>>

(* Mutated: the echoes are tried whatever ready came to. *)
FollowingAnyway(key, outcome) ==
  IF cancelRequested THEN "closed"
  ELSE IF key = "ready" /\ ~datagrams THEN "bidirectionalStream"
  ELSE After[key]

(* The stages behind a failed ready, or behind a stop, are skipped, and    *)
(* without a datagram API testDatagram awaits nothing.                     *)
Following(key, outcome) ==
  IF cancelRequested \/ (key = "ready" /\ outcome = "fail") THEN "closed"
  ELSE IF key = "ready" /\ ~datagrams THEN "bidirectionalStream"
  ELSE After[key]

(* A probe p after its stage key.                                          *)
Noted(p, key, outcome) ==
  IF key = "ready" /\ Following(key, outcome) = "bidirectionalStream"
  THEN [p EXCEPT ![key] = outcome, !["datagram"] = "unavailable"]
  ELSE [p EXCEPT ![key] = outcome]

(* A stage of a probe answers, fails, times out or is closed.              *)
StageEnds(r) ==
  /\ at[r] \in Halves /\ stage[r] # "closed"
  /\ \E outcome \in IF stage[r] = "ready" THEN {"pass", "fail"} ELSE EchoOutcomes :
       /\ probes' = [probes EXCEPT ![r][at[r]] = Noted(@, stage[r], outcome)]
       /\ stage' = [stage EXCEPT ![r] = Following(stage[r], outcome)]
  /\ UNCHANGED <<globals, at, mode, next, published, target, observed>>

(* The differential is over.  It goes into the report that was the page's  *)
(* when it began, which nobody reads when another run has taken its place. *)
ProbesEnd(r) ==
  /\ Publish(r, IF report.of = target[r]
                THEN [report EXCEPT !.greaseDifferential = probes[r]] ELSE report, results)
  /\ stage' = [stage EXCEPT ![r] = "none"]
  /\ probes' = [probes EXCEPT ![r] = Unprobed]
  /\ target' = [target EXCEPT ![r] = r]

(* The transport of a probe is closed.  A stop leaves a differential whose *)
(* second half has not run.                                                *)
ControlEnds(r) ==
  /\ at[r] = "control" /\ stage[r] = "closed"
  /\ IF cancelRequested THEN ProbesEnd(r)
     ELSE /\ Probe(r, "enabled")
          /\ UNCHANGED <<running, results, report, published, target>>
  /\ UNCHANGED <<certHash, autorun, cancelRequested, mode, next, observed>>

EnabledEnds(r) ==
  /\ at[r] = "enabled" /\ stage[r] = "closed"
  /\ ProbesEnd(r)
  /\ UNCHANGED <<certHash, autorun, cancelRequested, mode, next, observed>>

(* The server has answered, or the request has failed. *)
Posted(r) ==
  /\ at[r] = "posting"
  /\ at' = [at EXCEPT ![r] = "done"]
  /\ running' = FALSE
  /\ published' = [published EXCEPT ![r] = None]
  /\ UNCHANGED <<certHash, autorun, results, report, cancelRequested, mode, next,
                 differential, observed>>

(* The Stop button, which closes the transport opened last.                *)
Stop ==
  /\ running /\ ~cancelRequested
  /\ cancelRequested' = TRUE
  /\ stopped' = stopped \cup {r \in Runs \ overlapped : at[r] \in {"case", "between"}}
  /\ stoppedLate' = stoppedLate \cup {r \in Runs \ overlapped : at[r] \in Halves}
  /\ UNCHANGED <<certHash, autorun, running, results, report, at, mode, next,
                 published, differential, overlapped>>

GoesOn(r) == Loaded(r) \/ CaseEnds(r) \/ DelayEnds(r) \/ StageEnds(r)
             \/ ControlEnds(r) \/ EnabledEnds(r) \/ Posted(r)

Next == /\ \/ LoadCertificate \/ Autorun \/ Stop
           \/ \E r \in Runs : Click(r) \/ GoesOn(r)
        /\ UNCHANGED fixed

(* The awaits of a run on a transport have a timeout each (capture), and   *)
(* so has the delay.  The two requests to the page server have none (l.961 *)
(* and l.1821): that the browser answers or rejects them is assumed.  The  *)
(* user owes nothing.                                                      *)
Spec == Init /\ [][Next]_vars /\ \A r \in Runs : WF_vars(GoesOn(r) /\ UNCHANGED fixed)

-----------------------------------------------------------------------------
(* sanitizeRun and sanitizePaths of the server, with one path for all.     *)
(* Left out are the counts of outcomes, which the page computes from the   *)
(* same list that the server counts again.                                 *)
CoversEvery(cases) ==
  /\ Len(cases) = Combinations
  /\ \A c \in 1 .. Combinations : \E i \in DOMAIN cases : cases[i].case = c
RunAcceptable(p) ==
  /\ p.mode = "exhaustive" /\ ~p.cancelled
  /\ p.summary.plannedCases # 0 /\ p.summary.completedCases = Len(p.cases)
  /\ IF constructible
     THEN /\ p.summary.completedCases = p.summary.plannedCases
          /\ CoversEvery(p.cases)
     ELSE p.cases = <<>>

(* sanitizeGreaseProbe: no stage without the one in front of it, and no    *)
(* stop after a ready that passed.                                         *)
ProbeAcceptable(p) ==
  /\ \A key \in ProbeKeys \ {"datagram"} : p[key] # "unavailable"
  /\ p["constructor"] # "pass" => p["ready"] = "not-run"
  /\ \A key \in EchoKeys : p["ready"] = "pass" <=> p[key] # "not-run"

(* sanitizeGrease and requireGrease.                                       *)
GreaseAcceptable(g) ==
  IF g = None THEN ~greaseConfigured
  ELSE /\ \A half \in Halves : ProbeAcceptable(g[half])
       /\ constructible \/ g = Unprobed

Acceptable(p) == RunAcceptable(p) /\ GreaseAcceptable(p.grease)

(* The verdict that the server publishes, "affected" or "control-failed"   *)
(* included, is drawn from two probes that were made.                      *)
Measured(g) == constructible /\ g # None =>
                 \A half \in Halves : g[half]["constructor"] # "not-run"

(* What a run posts on its own the server accepts: the page and the server *)
(* check a submission independently of one another, and must not disagree. *)
(* It holds the run's own cases, whole, even when it was stopped behind    *)
(* them; its differential is good and was measured unless the run was      *)
(* stopped in it.  Then it is posted all the same (l.1957), cut behind any *)
(* stage, and a probe cut after its ready is refused.                      *)
PostedIsAcceptable ==
  \A r \in Runs \ overlapped :
    published[r] # None =>
      /\ RunAcceptable(published[r])
      /\ \A i \in DOMAIN published[r].cases : published[r].cases[i].run = r
      /\ r \notin stoppedLate => /\ Acceptable(published[r])
                                 /\ Measured(published[r].grease)

(* README.md:362-363: cancelled runs stay local.  A run that is stopped    *)
(* while its cases go on is never posted, as long as no other run is mixed *)
(* up with it.                                                             *)
StoppedStaysLocal == \A r \in stopped : published[r] = None

(* Once stopped, the page opens no further transport and begins no further *)
(* stage of a probe, in whatever run, until another run begins.            *)
StopIsHeeded ==
  [][cancelRequested /\ cancelRequested' =>
       \A r \in Runs : /\ at'[r] \in Transports => at[r] = at'[r]
                       /\ stage'[r] \in {stage[r], "closed", "none"}]_vars

(* Every run comes to its end, stopped or not, and then the buttons are    *)
(* disabled only for another one.                                          *)
EveryRunEnds ==
  \A r \in Runs :
    at[r] # "none" ~> at[r] = "done" /\ (running => \E q \in Runs : UnderWay(q))
=============================================================================
