----------------------------- MODULE PageServer ------------------------------
(***************************************************************************)
(* scripts/serve-page.mjs: the handler of /api/browser-results on top of   *)
(* ResultStore, for a page with results enabled.                           *)
(*                                                                         *)
(* Requests are handled concurrently: each handler is suspended while its  *)
(* body arrives and while its record() call is in the chain, and between   *)
(* those points runs without interruption.  The handler of a call that has *)
(* settled resumes before the event loop looks at anything else (a promise *)
(* continuation), which Drained expresses.                                 *)
(***************************************************************************)
EXTENDS ResultStore

CONSTANTS
  Headers,  \* header combinations requests come with
  Window    \* a family may submit once in this many ticks (2000 ms)

ASSUME PageAssumption ==
  /\ Headers \subseteq [post : BOOLEAN, sameOrigin : BOOLEAN, json : BOOLEAN]
  /\ Window \in Nat \ {0}

(* A request is identified with the one call of record() it may make. *)
Requests == Calls

VARIABLES
  status,           \* status[r]: where the handler is, or the response sent
  headers,          \* headers[r]: the header combination r came with
  body,             \* body[r]: the parsed body, what browserKeyForSubmission reads
  stamp,            \* stamp[r]: the handler's local now
  lastSubmissionAt, \* the rate limit table
  answered,         \* history: requests this process answered with 202
  before,           \* history: before[r] is answered when r was rate checked
  shown             \* history: the latest snapshots a GET last returned

pageVars == <<status, headers, body, stamp, lastSubmissionAt, answered, before,
              shown>>
allVars  == <<vars, pageVars>>

Statuses == {"none", "reading", "awaiting", "lost",
             "202", "400", "403", "405", "413", "415", "429", "500"}
Answers  == Statuses \ {"none", "reading", "awaiting", "lost"}

PageTypeOK ==
  /\ TypeOK
  /\ status \in [Requests -> Statuses]
  /\ headers \in [Requests -> Headers \cup {None}]
  /\ body \in [Requests -> Input \cup {None}]
  /\ stamp \in [Requests -> Times]
  /\ lastSubmissionAt \in [Families -> Times \cup {-Window}]
  /\ answered \subseteq Requests
  /\ before \in [Requests -> SUBSET Requests]
  /\ shown \in [Families -> Snapshot]

Never == [f \in Families |-> -Window]

PageInit ==
  /\ Init
  /\ status = [r \in Requests |-> "none"]
  /\ headers = [r \in Requests |-> None]
  /\ body = [r \in Requests |-> None]
  /\ stamp = [r \in Requests |-> 0]
  /\ lastSubmissionAt = Never
  /\ answered = {}
  /\ before = [r \in Requests |-> {}]
  /\ shown = EmptyState.latest

(* No handler of a settled call is waiting to resume. *)
Drained == \A r \in Requests : status[r] = "awaiting" => outcome[r] = "pending"

(* Definitions named "mutated" are plausible bugs that the properties below *)
(* refuse; no specification uses them.                                     *)

(* The early returns on method, origin and content type, in their order.   *)
HeaderVerdict(h) ==
  CASE ~ h.post                              -> "405"
    [] h.post /\ ~ h.sameOrigin              -> "403"
    [] h.post /\ h.sameOrigin /\ ~ h.json    -> "415"
    [] h.post /\ h.sameOrigin /\ h.json      -> "reading"

(* A request with headers h arrives: it is refused or its body is read. *)
Arrive(r, h) ==
  /\ up /\ Drained
  /\ status[r] = "none"
  /\ headers' = [headers EXCEPT ![r] = h]
  /\ status' = [status EXCEPT ![r] = HeaderVerdict(h)]
  /\ UNCHANGED <<vars, body, stamp, lastSubmissionAt, answered, before, shown>>

(* readJsonBody throws: too large, empty or not JSON, or the client is gone. *)
BodyFails(r, answer) ==
  /\ up /\ Drained
  /\ status[r] = "reading"
  /\ answer \in {"400", "413", "500"}
  /\ status' = [status EXCEPT ![r] = answer]
  /\ UNCHANGED <<vars, headers, body, stamp, lastSubmissionAt, answered, before,
                 shown>>

(* Mutated: an off-by-one in the window. *)
RateLimitedTooShort(family) == now - lastSubmissionAt[family] < Window - 1

RateLimited(family) == now - lastSubmissionAt[family] < Window

(* The body has arrived: the rate is checked and the call made at once.    *)
Submit(r, in) ==
  /\ up /\ Drained
  /\ status[r] = "reading"
  /\ body' = [body EXCEPT ![r] = in]
  /\ stamp' = [stamp EXCEPT ![r] = now]
  /\ before' = [before EXCEPT ![r] = answered]
  /\ \/ /\ RateLimited(in.family)
        /\ status' = [status EXCEPT ![r] = "429"]
        /\ UNCHANGED vars
     \/ /\ ~ RateLimited(in.family)
        /\ status' = [status EXCEPT ![r] = "awaiting"]
        /\ Record(r, in)
  /\ UNCHANGED <<headers, lastSubmissionAt, answered, shown>>

(* Mutated: the promise of record() is not awaited. *)
AcceptUnawaited(r) ==
  /\ up
  /\ status[r] = "awaiting"
  /\ outcome[r] \in {"pending", "resolved"}
  /\ lastSubmissionAt' = [lastSubmissionAt EXCEPT ![body[r].family] = stamp[r]]
  /\ status' = [status EXCEPT ![r] = "202"]
  /\ answered' = answered \cup {r}
  /\ UNCHANGED <<vars, headers, body, stamp, before, shown>>

(* record() resolved: the time of the check is entered in the table. *)
Accept(r) ==
  /\ up
  /\ status[r] = "awaiting"
  /\ outcome[r] = "resolved"
  /\ lastSubmissionAt' = [lastSubmissionAt EXCEPT ![body[r].family] = stamp[r]]
  /\ status' = [status EXCEPT ![r] = "202"]
  /\ answered' = answered \cup {r}
  /\ UNCHANGED <<vars, headers, body, stamp, before, shown>>

(* Mutated: a submission that was not recorded counts for the rate, too. *)
RejectStamps(r) ==
  /\ up
  /\ status[r] = "awaiting"
  /\ \/ /\ outcome[r] = "typeError"
        /\ status' = [status EXCEPT ![r] = "400"]
     \/ /\ outcome[r] = "ioError"
        /\ status' = [status EXCEPT ![r] = "500"]
  /\ lastSubmissionAt' = [lastSubmissionAt EXCEPT ![body[r].family] = stamp[r]]
  /\ UNCHANGED <<vars, headers, body, stamp, answered, before, shown>>

(* Mutated: only TypeErrors are caught. *)
RejectTypeErrorsOnly(r) ==
  /\ up
  /\ status[r] = "awaiting"
  /\ outcome[r] = "typeError"
  /\ status' = [status EXCEPT ![r] = "400"]
  /\ UNCHANGED <<vars, headers, body, stamp, lastSubmissionAt, answered, before,
                 shown>>

(* record() rejected with a TypeError, or with any other error. *)
Reject(r) ==
  /\ up
  /\ status[r] = "awaiting"
  /\ \/ /\ outcome[r] = "typeError"
        /\ status' = [status EXCEPT ![r] = "400"]
     \/ /\ outcome[r] = "ioError"
        /\ status' = [status EXCEPT ![r] = "500"]
  /\ UNCHANGED <<vars, headers, body, stamp, lastSubmissionAt, answered, before,
                 shown>>

(* GET: the snapshot of the state in memory. *)
Get ==
  /\ up /\ Drained
  /\ shown' = state.latest
  /\ UNCHANGED <<vars, status, headers, body, stamp, lastSubmissionAt, answered,
                 before>>

(* The process dies with its connections and its rate limit table. *)
PageCrash ==
  /\ Crash
  /\ status' = [r \in Requests |-> IF status[r] \in {"reading", "awaiting"}
                                     THEN "lost" ELSE status[r]]
  /\ lastSubmissionAt' = Never
  /\ answered' = {}
  /\ UNCHANGED <<headers, body, stamp, before, shown>>

StoreStep == Drained /\ (Advance \/ Tick) /\ UNCHANGED pageVars
PageStart == Start /\ UNCHANGED pageVars
Handle(r) == Accept(r) \/ Reject(r)
BodyEnds(r) ==
  \/ \E answer \in Answers : BodyFails(r, answer)
  \/ \E in \in Input : Submit(r, in)

PageNext ==
  \/ \E r \in Requests :
       \/ \E h \in Headers : Arrive(r, h)
       \/ BodyEnds(r)
       \/ Handle(r)
  \/ Get
  \/ StoreStep
  \/ PageCrash
  \/ PageStart

(* The event loop runs every ready continuation, file operations end, the  *)
(* service is restarted, and a connection delivers its body or is closed.  *)
PageFairness ==
  /\ \A r \in Requests : WF_allVars(Handle(r)) /\ WF_allVars(BodyEnds(r))
  /\ WF_allVars(Drained /\ Advance /\ UNCHANGED pageVars)
  /\ WF_allVars(PageStart)

PageSpec == PageInit /\ [][PageNext]_allVars /\ PageFairness

-----------------------------------------------------------------------------
(* A response tells the truth: after 202 the submission is on file and     *)
(* stays known whatever crashes, after any refusal it has left no trace.   *)
AnswersTellTheTruth ==
  \A r \in Requests :
    /\ status[r] = "202" => Committed(r)
    /\ status[r] \in Answers \ {"202"} => ~ Committed(r)

(* The rate limit: a submission that is checked after another one of its   *)
(* family was answered 202 by this process is accepted only a full Window  *)
(* later.  (Submissions that overlap in the chain are not limited.)        *)
AcceptedAtRate ==
  \A r \in Requests : status[r] = "202" =>
    \A q \in before[r] :
      body[q].family = body[r].family => stamp[r] - stamp[q] >= Window

(* 429 has a cause: this process accepted one of the family within the     *)
(* Window.  A submission that was refused or failed can be repeated.       *)
LimitedForCause ==
  \A r \in Requests : status[r] = "429" =>
    \E q \in before[r] :
      body[q].family = body[r].family /\ stamp[r] - stamp[q] < Window

(* What GET shows never goes back: a family that was shown stays shown,    *)
(* with a snapshot at least as recent, across crashes and restarts.        *)
ReadsNeverRegress ==
  [][\A f \in Families :
       /\ shown[f].content # None => shown'[f].content # None
       /\ shown[f].at <= shown'[f].at]_shown

(* Every request is answered, unless its connection died with the process. *)
EveryRequestAnswered ==
  \A r \in Requests :
    status[r] \in {"reading", "awaiting"} ~> status[r] \in Answers \cup {"lost"}
=============================================================================
