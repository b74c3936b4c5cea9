----------------------------- MODULE ResultStore -----------------------------
(***************************************************************************)
(* scripts/result-store.mjs: the store behind /api/browser-results.        *)
(*                                                                         *)
(* State in memory (state, the promise chain writeQueue) is volatile; the  *)
(* result file is durable.  record() calls are chained: an operation       *)
(* starts when the one before it has settled, whether it succeeded or not. *)
(* An operation sanitizes its input, computes the next state from the one  *)
(* in memory, writes it to a temporary file, renames that file over the    *)
(* result file and only then assigns the new state.  The process may die   *)
(* between any two of these steps, and is started again by its service     *)
(* manager, possibly with another configuration.                           *)
(*                                                                         *)
(* A snapshot is reduced to what diffSnapshots compares (content) and to   *)
(* receivedAt (at); the wording of a change event to the two contents it   *)
(* tells apart.                                                            *)
(***************************************************************************)
EXTENDS Integers, Sequences

CONSTANTS
  Families,        \* keys normalizeBrowser can return
  Contents,        \* contents sanitizeSubmission can return
  GreaseContents,  \* those that carry a GREASE control/test pair
  Malformed,       \* a submission that sanitizeSubmission refuses
  None,            \* no snapshot yet
  Calls,           \* the calls of record(), each used once
  Configs,         \* configurations a process can be started with
  MaxCap,          \* the largest log a configuration may ask for (500)
  MaxClock,        \* bound: last value of the clock
  MaxCrashes       \* bound: number of crashes

ASSUME StoreAssumption ==
  /\ None \notin Contents
  /\ Malformed \notin Contents \cup {None}
  /\ GreaseContents \subseteq Contents
  /\ MaxCap \in Nat \ {0}
  /\ Configs \subseteq [maxChanges : 1 .. MaxCap, requireGrease : BOOLEAN]
  /\ MaxClock \in Nat
  /\ MaxCrashes \in Nat

Input      == [family : Families, content : Contents \cup {Malformed}]
Times      == 0 .. MaxClock
Snapshot   == [content : Contents \cup {None}, at : Times]
NoSnapshot == [content |-> None, at |-> 0]
Event      == [family : Families, from : Contents \cup {None}, to : Contents,
               at : Times]
State      == [latest : [Families -> Snapshot], changes : Seq(Event)]
EmptyState == [latest |-> [f \in Families |-> NoSnapshot], changes |-> <<>>]

(* A file is absent, whole, or torn: created or truncated, not yet written *)
(* to its end.                                                             *)
File     == [kind : {"absent", "torn", "whole"}, state : State]
NoFile   == [kind |-> "absent", state |-> EmptyState]
TornFile == [kind |-> "torn", state |-> EmptyState]
Whole(s) == [kind |-> "whole", state |-> s]

VARIABLES
  up,        \* the process is running and has loaded the file
  config,    \* maxChanges and requireGrease of the running process
  state,     \* the state in memory, what snapshot() returns
  queue,     \* the chain writeQueue: calls that have not settled
  step,      \* how far the first call of the queue has come
  next,      \* the nextState of that call
  temporary, \* the temporary file of this process
  file,      \* the result file
  input,     \* input[c]: the argument of call c
  outcome,   \* outcome[c]: what the promise of call c has come to
  now,       \* the clock
  crashes,   \* how often the process has died
  commits    \* history: calls in the order of their renames

processVars == <<up, config, state, queue, step, next, temporary>>
callVars    == <<input, outcome>>
vars == <<processVars, file, callVars, now, crashes, commits>>

Steps    == {"idle", "opening", "writing", "renaming", "renamed"}
Outcomes == {"none", "pending", "resolved", "typeError", "ioError", "lost"}

TypeOK ==
  /\ up \in BOOLEAN
  /\ config \in Configs
  /\ state \in State
  /\ queue \in Seq(Calls)
  /\ step \in Steps
  /\ next \in State
  /\ temporary \in File
  /\ file \in File
  /\ input \in [Calls -> Input \cup {None}]
  /\ outcome \in [Calls -> Outcomes]
  /\ now \in Times
  /\ crashes \in 0 .. MaxCrashes
  /\ commits \in Seq(Calls)

-----------------------------------------------------------------------------
(* Definitions named "mutated" are plausible bugs: no specification uses   *)
(* them, each is what some property of this module is there to refuse.     *)

(* Mutated: an off-by-one keeps an event too many. *)
LastOfTooMany(s, n) ==
  IF Len(s) <= n + 1 THEN s ELSE SubSeq(s, Len(s) - n, Len(s))

(* Mutated: slice(0, n) keeps the oldest events. *)
LastOfOldest(s, n) == IF Len(s) <= n THEN s ELSE SubSeq(s, 1, n)

(* changes.slice(-n) *)
LastOf(s, n) == IF Len(s) <= n THEN s ELSE SubSeq(s, Len(s) - n + 1, Len(s))

(* Mutated: the submission is stored as it came. *)
AcceptableUnchecked(in) == in.content \in Contents \cup {Malformed}

(* Mutated: requireGrease is ignored. *)
AcceptableWithoutGrease(in) == in.content \in Contents

(* sanitizeSubmission does not throw. *)
Acceptable(in) ==
  /\ in.content \in Contents
  /\ config.requireGrease => in.content \in GreaseContents

(* Mutated: only the presence of the GREASE pair is compared. *)
DiffersByGrease(previous, content) ==
  (previous.content \in GreaseContents) # (content \in GreaseContents)

(* diffSnapshots finds a difference, or there is nothing to compare with.  *)
Differs(previous, content) == previous.content # content

(* The nextState that record() builds from an input received at a time. *)
NextState(in, at) ==
  LET previous == state.latest[in.family]
      event    == [family |-> in.family, from |-> previous.content,
                   to |-> in.content, at |-> at]
  IN  [latest  |-> [state.latest EXCEPT
                      ![in.family] = [content |-> in.content, at |-> at]],
       changes |-> IF Differs(previous, in.content)
                     THEN LastOf(Append(state.changes, event), config.maxChanges)
                     ELSE state.changes]

(* What load() makes of the result file. *)
Loaded(f, cfg) == [latest  |-> f.state.latest,
                   changes |-> LastOf(f.state.changes, cfg.maxChanges)]

-----------------------------------------------------------------------------
(* The service is installed and started for the first time: no file yet.   *)
Init ==
  /\ up = TRUE
  /\ config \in Configs
  /\ state = EmptyState
  /\ queue = <<>>
  /\ step = "idle"
  /\ next = EmptyState
  /\ temporary = NoFile
  /\ file = NoFile
  /\ input = [c \in Calls |-> None]
  /\ outcome = [c \in Calls |-> "none"]
  /\ now = 0
  /\ crashes = 0
  /\ commits = <<>>

(* record(input): the operation is chained behind the last one. *)
Record(c, in) ==
  /\ up
  /\ outcome[c] = "none"
  /\ input' = [input EXCEPT ![c] = in]
  /\ outcome' = [outcome EXCEPT ![c] = "pending"]
  /\ queue' = Append(queue, c)
  /\ UNCHANGED <<up, config, state, step, next, temporary, file, now, crashes,
                 commits>>

(* The promise of the first call settles; the next call may start. *)
Settle(result) ==
  /\ outcome' = [outcome EXCEPT ![Head(queue)] = result]
  /\ queue' = Tail(queue)
  /\ step' = "idle"
  /\ next' = EmptyState

(* The operation at the head of the chain is at step s. *)
At(s) == up /\ queue # <<>> /\ step = s

(* Mutated: the new state is assigned before it is persisted. *)
BeginAssignsEarly ==
  /\ At("idle")
  /\ Acceptable(input[Head(queue)])
  /\ next' = NextState(input[Head(queue)], now)
  /\ state' = next'
  /\ step' = "opening"
  /\ UNCHANGED <<up, config, queue, temporary, file, callVars, now, crashes,
                 commits>>

(* The operation runs up to persist: the clock is read, the input          *)
(* sanitized, and the next state computed from the state in memory.        *)
Begin ==
  /\ At("idle")
  /\ Acceptable(input[Head(queue)])
  /\ next' = NextState(input[Head(queue)], now)
  /\ step' = "opening"
  /\ UNCHANGED <<up, config, state, queue, temporary, file, callVars, now,
                 crashes, commits>>

(* Mutated: without writeQueue.catch a rejection settles the whole chain. *)
RefusePoisons ==
  /\ At("idle")
  /\ ~ Acceptable(input[Head(queue)])
  /\ outcome' = [c \in Calls |-> IF \E i \in DOMAIN queue : queue[i] = c
                                   THEN "typeError" ELSE outcome[c]]
  /\ queue' = <<>>
  /\ UNCHANGED <<up, config, state, step, next, temporary, file, input, now,
                 crashes, commits>>

(* sanitizeSubmission throws a TypeError. *)
Refuse ==
  /\ At("idle")
  /\ ~ Acceptable(input[Head(queue)])
  /\ Settle("typeError")
  /\ UNCHANGED <<up, config, state, temporary, file, input, now, crashes,
                 commits>>

(* Mutated: writeFile is given the result file itself. *)
OpenInPlace ==
  /\ At("opening")
  /\ file' = TornFile
  /\ step' = "writing"
  /\ UNCHANGED <<up, config, state, queue, next, temporary, callVars, now,
                 crashes, commits>>

(* persist: mkdir, then writeFile creates or truncates the temporary file. *)
OpenTemporary ==
  /\ At("opening")
  /\ temporary' = TornFile
  /\ step' = "writing"
  /\ UNCHANGED <<up, config, state, queue, next, file, callVars, now, crashes,
                 commits>>

(* persist: writeFile has written the whole text. *)
WriteTemporary ==
  /\ At("writing")
  /\ temporary' = Whole(next)
  /\ step' = "renaming"
  /\ UNCHANGED <<up, config, state, queue, next, file, callVars, now, crashes,
                 commits>>

(* persist: rename replaces the result file. *)
Rename ==
  /\ At("renaming")
  /\ file' = temporary
  /\ temporary' = NoFile
  /\ step' = "renamed"
  /\ commits' = Append(commits, Head(queue))
  /\ UNCHANGED <<up, config, state, queue, next, callVars, now, crashes>>

(* Mutated: the error of persist is caught and logged. *)
FailSwallowed ==
  /\ \E s \in {"opening", "writing", "renaming"} : At(s)
  /\ Settle("resolved")
  /\ UNCHANGED <<up, config, state, temporary, file, input, now, crashes,
                 commits>>

(* Mutated: the state is assigned in a finally block. *)
FailAssigns ==
  /\ \E s \in {"opening", "writing", "renaming"} : At(s)
  /\ state' = next
  /\ Settle("ioError")
  /\ UNCHANGED <<up, config, temporary, file, input, now, crashes, commits>>

(* persist throws: mkdir, writeFile or rename failed.  The state in memory *)
(* and the result file stay as they are.                                   *)
Fail ==
  /\ \E s \in {"opening", "writing", "renaming"} : At(s)
  /\ Settle("ioError")
  /\ UNCHANGED <<up, config, state, temporary, file, input, now, crashes,
                 commits>>

(* persist has returned: the new state is assigned, the promise resolves.  *)
Assign ==
  /\ At("renamed")
  /\ state' = next
  /\ Settle("resolved")
  /\ UNCHANGED <<up, config, temporary, file, input, now, crashes, commits>>

(* The process dies: memory, the chain and every pending promise are gone. *)
(* Its temporary file carries its pid and is never looked at again.        *)
Crash ==
  /\ up
  /\ crashes < MaxCrashes
  /\ crashes' = crashes + 1
  /\ up' = FALSE
  /\ state' = EmptyState
  /\ queue' = <<>>
  /\ step' = "idle"
  /\ next' = EmptyState
  /\ temporary' = NoFile
  /\ outcome' = [c \in Calls |-> IF outcome[c] = "pending" THEN "lost"
                                                           ELSE outcome[c]]
  /\ UNCHANGED <<config, file, input, now, commits>>

(* The process is started and load() reads the file.  A torn file makes    *)
(* JSON.parse throw and the process exit: it never comes up.               *)
Start ==
  /\ ~ up
  /\ file.kind # "torn"
  /\ up' = TRUE
  /\ config' \in Configs
  /\ state' = Loaded(file, config')
  /\ UNCHANGED <<queue, step, next, temporary, file, callVars, now, crashes,
                 commits>>

Tick ==
  /\ now < MaxClock
  /\ now' = now + 1
  /\ UNCHANGED <<processVars, file, callVars, crashes, commits>>

(* What the event loop and the file system do for the first call. *)
Advance ==
  \/ Begin \/ Refuse \/ OpenTemporary \/ WriteTemporary \/ Rename \/ Fail \/ Assign

Next ==
  \/ \E c \in Calls, in \in Input : Record(c, in)
  \/ Advance
  \/ Crash
  \/ Start
  \/ Tick

(* The event loop runs every ready continuation and file operations end;   *)
(* systemd restarts the service (Restart=on-failure).                      *)
Fairness == WF_vars(Advance) /\ WF_vars(Start)

Spec == Init /\ [][Next]_vars /\ Fairness

-----------------------------------------------------------------------------
(* Safety.                                                                 *)

(* The result file is never seen half written, so load() never finds it    *)
(* malformed and a restart always succeeds (persist: temporary + rename).  *)
FileNeverTorn == file.kind # "torn"

(* What snapshot() serves was already durable: memory equals what load()   *)
(* would make of the file, or is exactly the one rename behind that its    *)
(* operation has yet to assign.  A crash never takes back what a reader    *)
(* has seen.                                                               *)
ServedIsDurable ==
  up => IF step = "renamed" THEN file = Whole(next)
                            ELSE state = Loaded(file, config)

(* The call has made it into the result file. *)
Committed(c) == \E i \in DOMAIN commits : commits[i] = c

(* A call whose promise resolved is on file, whatever crashed since; one   *)
(* that was refused or failed left no trace there.                         *)
ResolvedIffCommitted ==
  \A c \in Calls :
    /\ outcome[c] = "resolved" => Committed(c)
    /\ outcome[c] \in {"typeError", "ioError"} => ~ Committed(c)

(* Renames of family f, as indices of commits. *)
CommitsOf(f) == {i \in DOMAIN commits : input[commits[i]].family = f}

(* No update is lost: for each family the file holds the content of the    *)
(* last renamed call of that family, although each operation rewrites the  *)
(* whole file from the state it read when it began.                        *)
FileHoldsLastCommit ==
  \A f \in Families :
    /\ CommitsOf(f) = {} => file.state.latest[f] = NoSnapshot
    /\ \A i \in CommitsOf(f) :
         (\A j \in CommitsOf(f) : j <= i)
           => file.state.latest[f].content = input[commits[i]].content

(* A submission that every configuration accepts is never answered with a  *)
(* TypeError: a refused or failed operation does not poison the chain      *)
(* (writeQueue.catch).                                                     *)
GoodCallNotRefused ==
  \A c \in Calls :
    outcome[c] = "typeError" => input[c].content \notin GreaseContents

(* While GREASE results are required, a snapshot that carries them is      *)
(* never replaced by one that does not.                                    *)
GreaseNotDowngraded ==
  [][\A f \in Families :
       (config.requireGrease /\ file.state.latest[f].content \in GreaseContents)
         => file'.state.latest[f].content \in GreaseContents]_vars

(* The overview on file changes only by publishing one submission on top   *)
(* of all those published before: ResultOverview, of which the log         *)
(* properties are stated.                                                  *)
Overview == INSTANCE ResultOverview
  WITH latest <- file.state.latest, changes <- file.state.changes,
       Limit <- MaxCap

ImplementsOverview == Overview!Spec
LogExplainsLatest  == Overview!LogExplainsLatest

(* The log holds real differences only, in the order they were received    *)
(* in, and no more of them than any process has kept.                      *)
LogIsSound ==
  Overview!EventsAreMaterial /\ Overview!LogInReceiptOrder /\ Overview!LogBounded
=============================================================================
