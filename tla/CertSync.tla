------------------------------ MODULE CertSync ------------------------------
(***************************************************************************)
(* The renewal of the TLS certificate on the node: Caddy renews its own    *)
(* copy, deploy/bin/sync-certificate.sh copies it for the services when    *)
(* the timer fires, and systemd runs the script and the services           *)
(* (deploy/systemd/).  All of them run concurrently on the same files.     *)
(*                                                                         *)
(* A certificate and a key are the version of the pair they belong to;     *)
(* version 0 is a file that does not exist yet.                            *)
(***************************************************************************)
EXTENDS Integers, FiniteSets

CONSTANTS
  Servers,      \* the enabled H3 services
  Checking,     \* those that refuse to start with a key of another pair
  Page,         \* the page service, which reads the certificate only
  Last,         \* bound: Caddy obtains the pairs 1 .. Last
  Unfit,        \* those whose certificate names another host or is expiring
  MaxFailures   \* bound: how often a run of the script ends early

ASSUME CertAssumption ==
  /\ Checking \subseteq Servers
  /\ Page \notin Servers
  /\ Last \in Nat \ {0}
  /\ Unfit \subseteq 1 .. Last
  /\ MaxFailures \in Nat

Units == Servers \cup {Page}
Files == 0 .. Last
Pair  == [cert : Files, key : Files]
NoPair == [cert |-> 0, key |-> 0]

VARIABLES
  source,     \* Caddy's certificate and key
  installed,  \* WT_CERT and WT_KEY
  step,       \* where the script is; "idle" between its runs
  seen,       \* the certificate whose public key the script has hashed
  temp,       \* cert_temp and key_temp
  pending,    \* servers the run has yet to restart
  phase,      \* phase[u]: what systemd makes of unit u
  loaded,     \* loaded[u]: the files that its process has read
  failures,   \* runs that have ended early so far
  missed,     \* history: a run ended early between its first rename and its
              \* last restart, and none has installed a pair since
  raced       \* history: Caddy wrote a file while a run was reading it

scriptVars == <<installed, step, seen, temp, pending, failures, missed>>
unitVars   == <<phase, loaded>>
vars == <<source, scriptVars, unitVars, raced>>

Steps  == {"idle", "hash", "match", "fit", "compare", "copyCert", "copyKey",
           "moveCert", "moveKey", "restart", "page"}
Phases == {"inactive", "starting", "reading", "up", "down"}

TypeOK ==
  /\ source \in Pair
  /\ installed \in Pair
  /\ step \in Steps
  /\ seen \in Files
  /\ temp \in Pair
  /\ pending \subseteq Servers
  /\ phase \in [Units -> Phases]
  /\ loaded \in [Units -> Pair]
  /\ failures \in 0 .. MaxFailures
  /\ missed \in BOOLEAN
  /\ raced \in BOOLEAN

-----------------------------------------------------------------------------
(* The node has just been set up: no certificate, and only the page runs.  *)
Init ==
  /\ source = NoPair
  /\ installed = NoPair
  /\ step = "idle"
  /\ seen = 0
  /\ temp = NoPair
  /\ pending = {}
  /\ phase = [u \in Units |-> IF u = Page THEN "starting" ELSE "inactive"]
  /\ loaded = [u \in Units |-> NoPair]
  /\ failures = 0
  /\ missed = FALSE
  /\ raced = FALSE

Written ==
  raced' = (raced \/ step \in {"match", "fit", "compare", "copyCert", "copyKey"})

(* Caddy writes the two files of a new pair one after the other.           *)
RenewCert ==
  /\ source.cert <= source.key /\ source.cert < Last
  /\ source' = [source EXCEPT !.cert = @ + 1]
  /\ Written
  /\ UNCHANGED <<scriptVars, unitVars>>

RenewKey ==
  /\ source.key <= source.cert /\ source.key < Last
  /\ source' = [source EXCEPT !.key = @ + 1]
  /\ Written
  /\ UNCHANGED <<scriptVars, unitVars>>

-----------------------------------------------------------------------------
(* The script, one action per command that reads or writes a file or asks  *)
(* something of systemd.                                                   *)
Goto(from, to) == step = from /\ step' = to

(* The timer fires, or the installer starts the unit: a oneshot unit has   *)
(* one run at a time.                                                      *)
Fire ==
  /\ Goto("idle", "hash")
  /\ UNCHANGED <<source, installed, seen, temp, pending, failures, missed,
                 unitVars, raced>>

(* A file is missing, or certificate_key_matches reads the certificate.    *)
Hash ==
  /\ step = "hash"
  /\ \/ /\ 0 \in {source.cert, source.key}
        /\ step' = "idle"
        /\ UNCHANGED seen
     \/ /\ 0 \notin {source.cert, source.key}
        /\ step' = "match"
        /\ seen' = source.cert
  /\ UNCHANGED <<source, installed, temp, pending, failures, missed, unitVars,
                 raced>>

(* certificate_key_matches reads the key. *)
Match ==
  /\ step = "match"
  /\ step' = IF source.key = seen THEN "fit" ELSE "idle"
  /\ seen' = 0
  /\ UNCHANGED <<source, installed, temp, pending, failures, missed, unitVars,
                 raced>>

(* Mutated: what the checks say is logged and the script goes on. *)
CheckFitWarns ==
  /\ Goto("fit", "compare")
  /\ UNCHANGED <<source, installed, seen, temp, pending, failures, missed,
                 unitVars, raced>>

(* -checkhost and -checkend *)
CheckFit ==
  /\ Goto("fit", IF source.cert \in Unfit THEN "idle" ELSE "compare")
  /\ UNCHANGED <<source, installed, seen, temp, pending, failures, missed,
                 unitVars, raced>>

(* Mutated: only the certificate is compared. *)
CompareCertOnly ==
  /\ Goto("compare",
          IF installed.cert = source.cert THEN "idle" ELSE "copyCert")
  /\ UNCHANGED <<source, installed, seen, temp, pending, failures, missed,
                 unitVars, raced>>

(* cmp: nothing to do if both files are installed already.                 *)
Compare ==
  /\ Goto("compare", IF installed = source THEN "idle" ELSE "copyCert")
  /\ UNCHANGED <<source, installed, seen, temp, pending, failures, missed,
                 unitVars, raced>>

CopyCert ==
  /\ Goto("copyCert", "copyKey")
  /\ temp' = [temp EXCEPT !.cert = source.cert]
  /\ UNCHANGED <<source, installed, seen, pending, failures, missed, unitVars,
                 raced>>

CopyKey ==
  /\ Goto("copyKey", "moveCert")
  /\ temp' = [temp EXCEPT !.key = source.key]
  /\ UNCHANGED <<source, installed, seen, pending, failures, missed, unitVars,
                 raced>>

MoveCert ==
  /\ Goto("moveCert", "moveKey")
  /\ installed' = [installed EXCEPT !.cert = temp.cert]
  /\ UNCHANGED <<source, seen, temp, pending, failures, missed, unitVars,
                 raced>>

(* The second rename; every enabled server is to be restarted.             *)
MoveKey ==
  /\ Goto("moveKey", "restart")
  /\ installed' = [installed EXCEPT !.key = temp.key]
  /\ temp' = NoPair
  /\ pending' = Servers
  /\ missed' = FALSE
  /\ UNCHANGED <<source, seen, failures, unitVars, raced>>

Restart(u) ==
  /\ phase' = [phase EXCEPT ![u] = "starting"]
  /\ loaded' = [loaded EXCEPT ![u] = NoPair]

(* systemctl restart of one server: it returns when the process is forked, *)
(* before that has read anything.                                          *)
RestartServer(s) ==
  /\ step = "restart" /\ s \in pending
  /\ Restart(s)
  /\ pending' = pending \ {s}
  /\ step' = IF pending' = {} THEN "page" ELSE "restart"
  /\ UNCHANGED <<source, installed, seen, temp, failures, missed, raced>>

(* is-active says no of a unit that waits for its next automatic start.    *)
Active(u) == phase[u] \notin {"inactive", "down"}

(* Mutated: the page is forgotten. *)
RestartPageNever ==
  /\ Goto("page", "idle")
  /\ UNCHANGED <<source, installed, seen, temp, pending, failures, missed,
                 unitVars, raced>>

(* The page is restarted when it is active.                                *)
RestartPage ==
  /\ Goto("page", "idle")
  /\ \/ Active(Page) /\ Restart(Page)
     \/ ~Active(Page) /\ UNCHANGED unitVars
  /\ UNCHANGED <<source, installed, seen, temp, pending, failures, missed,
                 raced>>

(* A command fails (set -e) or the run is killed: what it has done stays,  *)
(* except for the temporary files.                                         *)
EndEarly ==
  /\ step # "idle" /\ failures < MaxFailures
  /\ step' = "idle"
  /\ seen' = 0
  /\ temp' = NoPair
  /\ pending' = {}
  /\ failures' = failures + 1
  /\ missed' = (missed \/ step \in {"moveKey", "restart", "page"})
  /\ UNCHANGED <<source, installed, unitVars, raced>>

Command ==
  \/ Hash \/ Match \/ CheckFit \/ Compare \/ CopyCert \/ CopyKey
  \/ MoveCert \/ MoveKey \/ RestartPage
  \/ \E s \in Servers : RestartServer(s)

-----------------------------------------------------------------------------
(* A unit of systemd and its process.                                      *)

(* The process reads the certificate first.  The page needs nothing else,  *)
(* and copes with its absence.                                             *)
ReadCert(u) ==
  /\ phase[u] = "starting"
  /\ loaded' = [loaded EXCEPT ![u].cert = installed.cert]
  /\ phase' = [phase EXCEPT ![u] = IF u = Page THEN "up" ELSE "reading"]
  /\ UNCHANGED <<source, scriptVars, raced>>

(* It reads the key; some servers exit if that is not of the same pair.    *)
ReadKey(u) ==
  /\ phase[u] = "reading"
  /\ \/ /\ u \in Checking /\ loaded[u].cert # installed.key
        /\ phase' = [phase EXCEPT ![u] = "down"]
        /\ loaded' = [loaded EXCEPT ![u] = NoPair]
     \/ /\ u \notin Checking \/ loaded[u].cert = installed.key
        /\ phase' = [phase EXCEPT ![u] = "up"]
        /\ loaded' = [loaded EXCEPT ![u].key = installed.key]
  /\ UNCHANGED <<source, scriptVars, raced>>

(* The process dies. *)
Die(u) ==
  /\ phase[u] = "up"
  /\ phase' = [phase EXCEPT ![u] = "down"]
  /\ loaded' = [loaded EXCEPT ![u] = NoPair]
  /\ UNCHANGED <<source, scriptVars, raced>>

(* Restart=on-failure: the unit is started again.                          *)
StartAgain(u) ==
  /\ phase[u] = "down"
  /\ phase' = [phase EXCEPT ![u] = "starting"]
  /\ loaded' = [loaded EXCEPT ![u] = NoPair]
  /\ UNCHANGED <<source, scriptVars, raced>>

Starting(u) == StartAgain(u) \/ ReadCert(u) \/ ReadKey(u)

Next ==
  \/ RenewCert \/ RenewKey
  \/ Fire \/ Command \/ EndEarly
  \/ \E u \in Units : Starting(u) \/ Die(u)

(* The timer fires again and again (OnUnitActiveSec), a command ends, and  *)
(* systemd starts what has failed.                                         *)
Fairness ==
  /\ WF_vars(Fire) /\ WF_vars(Command)
  /\ \A u \in Units : WF_vars(Starting(u))

Spec == Init /\ [][Next]_vars /\ Fairness

-----------------------------------------------------------------------------
(* Caddy's files are the two halves of a pair that the checks accept. *)
SourceUsable == source.cert = source.key /\ source.cert \notin Unfit \cup {0}

(* Whatever is interrupted or renewed half way, the files that Caddy ends  *)
(* up with are installed in the end, and both of them.                     *)
InstalledCatchesUp == <>[]SourceUsable => <>[](installed = source)

Current(u) == /\ phase[u] = "up" => /\ loaded[u].cert = source.cert
                                    /\ u = Page \/ loaded[u].key = source.key

(* Every unit serves that pair in the end, whichever mixture of old and    *)
(* new files it may have started with while they were being replaced,      *)
(* unless a run ended early between its first rename and its last restart. *)
ServicesCatchUp ==
  <>[]SourceUsable /\ <>[]~missed =>
    \A u \in Units : <>[]Current(u) /\ []<>(phase[u] = "up")

(* The services are restarted when the files have changed                  *)
(* (docs/wttest-deployment.md:120-122), with no exception.                 *)
ServicesAlwaysCatchUp == <>[]SourceUsable => \A u \in Units : <>[]Current(u)

(* What the checks say of Caddy's files holds of the installed ones, once  *)
(* both are in place, as long as Caddy does not write while a run reads:   *)
(* the files are validated where they are and copied later.                *)
InstalledIsChecked ==
  ~raced => /\ installed.cert \notin Unfit
            /\ failures = 0 /\ step # "moveKey"
                 => installed.cert = installed.key
=============================================================================
