---------------------------- MODULE CertSyncProofs ----------------------------
(***************************************************************************)
(* Proofs about CertSync, for any servers and number of pairs, renewals    *)
(* and interrupted runs.                                                   *)
(***************************************************************************)
EXTENDS CertSync, TLAPS

(* As long as Caddy has written nothing while a run was reading: what one  *)
(* command of the run has found out is still true when the next relies on  *)
(* it, so that what the run copies is one pair that the checks accepted.   *)
HashFresh == step = "match" => seen = source.cert
SourceMatched ==
  step \in {"fit", "compare", "copyCert", "copyKey"} => source.cert = source.key
SourceFit == step \in {"compare", "copyCert", "copyKey"} => source.cert \notin Unfit
CopyChecked ==
  /\ step = "copyKey" => temp.cert = source.cert
  /\ step \in {"moveCert", "moveKey"} => temp.cert = temp.key /\ temp.cert \notin Unfit
  /\ step = "moveKey" => installed.cert = temp.cert
ScriptInv == ~raced => HashFresh /\ SourceMatched /\ SourceFit /\ CopyChecked
IInv == TypeOK /\ ScriptInv /\ InstalledIsChecked

-----------------------------------------------------------------------------
LEMMA InitInv == Init => IInv
<1> SUFFICES ASSUME Init PROVE IInv
  OBVIOUS
<1>1. NoPair \in Pair
  BY CertAssumption DEF NoPair, Pair, Files
<1>2. TypeOK
  <2>1. phase \in [Units -> Phases] /\ loaded \in [Units -> Pair]
    BY <1>1 DEF Init, Phases
  <2>2. seen \in Files /\ failures \in 0 .. MaxFailures
    BY CertAssumption DEF Init, Files
  <2>3. step \in Steps
    BY DEF Init, Steps
  <2> QED
    BY <1>1, <2>1, <2>2, <2>3 DEF Init, TypeOK
<1>3. ScriptInv
  BY DEF Init, ScriptInv, HashFresh, SourceMatched, SourceFit, CopyChecked
<1>4. InstalledIsChecked
  BY CertAssumption DEF Init, InstalledIsChecked, NoPair
<1> QED
  BY <1>2, <1>3, <1>4 DEF IInv

(* Caddy writes: outside of the reading steps of a run nothing is known of *)
(* its files, and inside the run is a raced one.                           *)
LEMMA RenewInv ==
  ASSUME IInv, RenewCert \/ RenewKey
  PROVE  IInv'
<1>1. source' \in Pair
  BY CertAssumption DEF IInv, TypeOK, RenewCert, RenewKey, Pair, Files
<1>2. TypeOK'
  BY <1>1 DEF IInv, TypeOK, RenewCert, RenewKey, Written, scriptVars, unitVars
<1>3. UNCHANGED <<scriptVars, unitVars>> /\ (raced => raced')
      /\ (step \in {"match", "fit", "compare", "copyCert", "copyKey"} => raced')
  BY DEF RenewCert, RenewKey, Written
<1>4. ScriptInv'
  BY <1>3 DEF IInv, ScriptInv, HashFresh, SourceMatched, SourceFit, CopyChecked, scriptVars
<1>5. InstalledIsChecked'
  BY <1>3 DEF IInv, InstalledIsChecked, scriptVars
<1> QED
  BY <1>2, <1>4, <1>5 DEF IInv

(* The units read the installed files and write none.                      *)
LEMMA UnitInv ==
  ASSUME IInv, NEW u \in Units, Starting(u) \/ Die(u)
  PROVE  IInv'
<1>1. UNCHANGED <<source, scriptVars, raced>>
  BY DEF Starting, StartAgain, ReadCert, ReadKey, Die
<1>2. phase' \in [Units -> Phases]
  BY DEF IInv, TypeOK, Starting, StartAgain, ReadCert, ReadKey, Die, Phases
<1>3. loaded' \in [Units -> Pair]
  <2>1. NoPair \in Pair
    BY CertAssumption DEF NoPair, Pair, Files
  <2>2. loaded[u] \in Pair /\ installed \in Pair
    BY DEF IInv, TypeOK
  <2>3. [loaded[u] EXCEPT !.cert = installed.cert] \in Pair
        /\ [loaded[u] EXCEPT !.key = installed.key] \in Pair
    BY <2>2 DEF Pair
  <2> QED
    BY <2>1, <2>3 DEF IInv, TypeOK, Starting, StartAgain, ReadCert, ReadKey, Die
<1>4. TypeOK'
  BY <1>1, <1>2, <1>3 DEF IInv, TypeOK, scriptVars
<1>5. ScriptInv' /\ InstalledIsChecked'
  BY <1>1 DEF IInv, ScriptInv, HashFresh, SourceMatched, SourceFit, CopyChecked,
              InstalledIsChecked, scriptVars
<1> QED
  BY <1>4, <1>5 DEF IInv

(* The commands that read and decide.                                      *)
LEMMA ReadingInv ==
  ASSUME IInv, Fire \/ Hash \/ Match \/ CheckFit \/ Compare
  PROVE  IInv'
<1>1. UNCHANGED <<source, installed, temp, pending, failures, missed, unitVars, raced>>
  BY DEF Fire, Hash, Match, CheckFit, Compare
<1>2. step' \in Steps /\ seen' \in Files
  BY CertAssumption
  DEF IInv, TypeOK, Fire, Hash, Match, CheckFit, Compare, Goto, Steps, Pair, Files
<1>3. TypeOK'
  BY <1>1, <1>2 DEF IInv, TypeOK, unitVars
<1>4. HashFresh'
  BY DEF Fire, Hash, Match, CheckFit, Compare, Goto, HashFresh
<1>5. ~raced => SourceMatched'
  BY DEF IInv, ScriptInv, HashFresh, Fire, Hash, Match, CheckFit, Compare, Goto,
         SourceMatched
<1>6. ~raced => SourceFit'
  BY DEF IInv, ScriptInv, Fire, Hash, Match, CheckFit, Compare, Goto, SourceFit
<1>7. CopyChecked'
  BY DEF Fire, Hash, Match, CheckFit, Compare, Goto, CopyChecked
<1>8. InstalledIsChecked'
  BY <1>1 DEF IInv, InstalledIsChecked, Fire, Hash, Match, CheckFit, Compare, Goto
<1> QED
  BY <1>1, <1>3, <1>4, <1>5, <1>6, <1>7, <1>8 DEF IInv, ScriptInv

(* What is copied is what was checked.                                     *)
LEMMA CopyInv ==
  ASSUME IInv, CopyCert \/ CopyKey
  PROVE  IInv'
<1>1. UNCHANGED <<source, installed, seen, pending, failures, missed, unitVars, raced>>
  BY DEF CopyCert, CopyKey
<1>2. temp' \in Pair
  BY DEF IInv, TypeOK, CopyCert, CopyKey, Pair
<1>3. TypeOK'
  BY <1>1, <1>2 DEF IInv, TypeOK, CopyCert, CopyKey, Goto, Steps, unitVars
<1>4. ~raced => CopyChecked'
  <2>1. temp \in Pair
    BY DEF IInv, TypeOK
  <2> QED
    BY <2>1 DEF IInv, ScriptInv, SourceMatched, SourceFit, CopyChecked, CopyCert, CopyKey,
                Goto, Pair
<1>5. ~raced => HashFresh' /\ SourceMatched' /\ SourceFit'
  BY DEF IInv, ScriptInv, SourceMatched, SourceFit, HashFresh, CopyCert, CopyKey, Goto
<1>6. InstalledIsChecked'
  BY <1>1 DEF IInv, InstalledIsChecked, CopyCert, CopyKey, Goto
<1> QED
  BY <1>1, <1>3, <1>4, <1>5, <1>6 DEF IInv, ScriptInv

(* The first rename makes two halves of the installed files.               *)
LEMMA MoveInv ==
  ASSUME IInv, MoveCert \/ MoveKey
  PROVE  IInv'
<1>1. UNCHANGED <<source, seen, failures, unitVars, raced>>
  BY DEF MoveCert, MoveKey
<1>2. installed' \in Pair /\ temp' \in Pair
  BY CertAssumption DEF IInv, TypeOK, MoveCert, MoveKey, NoPair, Pair, Files
<1>3. TypeOK'
  BY <1>1, <1>2 DEF IInv, TypeOK, MoveCert, MoveKey, Goto, Steps, unitVars
<1>4. HashFresh' /\ SourceMatched' /\ SourceFit'
  BY DEF HashFresh, SourceMatched, SourceFit, MoveCert, MoveKey, Goto
<1>5. installed \in Pair /\ temp \in Pair
  BY DEF IInv, TypeOK
<1>6. ~raced => CopyChecked'
  BY <1>5 DEF IInv, ScriptInv, CopyChecked, MoveCert, MoveKey, Goto, Pair
<1>7. InstalledIsChecked'
  BY <1>1, <1>5 DEF IInv, ScriptInv, CopyChecked, InstalledIsChecked, MoveCert, MoveKey,
                    Goto, Pair
<1> QED
  BY <1>1, <1>3, <1>4, <1>6, <1>7 DEF IInv, ScriptInv

LEMMA RestartInv ==
  ASSUME IInv, RestartPage \/ \E s \in Servers : RestartServer(s)
  PROVE  IInv'
<1>1. /\ UNCHANGED <<source, installed, seen, temp, failures, missed, raced>>
      /\ step \in {"restart", "page"} /\ step' \in {"idle", "restart", "page"}
  BY DEF RestartPage, RestartServer, Goto
<1>2. pending' \subseteq Servers
  BY DEF IInv, TypeOK, RestartPage, RestartServer
<1>3. NoPair \in Pair /\ Servers \subseteq Units /\ Page \in Units
  BY CertAssumption DEF NoPair, Pair, Files, Units
<1>4. phase' \in [Units -> Phases] /\ loaded' \in [Units -> Pair]
  BY <1>3 DEF IInv, TypeOK, RestartPage, RestartServer, Restart, unitVars, Phases
<1>5. TypeOK'
  BY <1>1, <1>2, <1>4 DEF IInv, TypeOK, Steps
<1>6. ScriptInv'
  BY <1>1 DEF ScriptInv, HashFresh, SourceMatched, SourceFit, CopyChecked
<1>7. InstalledIsChecked'
  BY <1>1 DEF IInv, InstalledIsChecked
<1> QED
  BY <1>5, <1>6, <1>7 DEF IInv

(* Wherever a run ends early, the temporary files are gone.                *)
LEMMA EndEarlyInv ==
  ASSUME IInv, EndEarly
  PROVE  IInv'
<1>1. /\ UNCHANGED <<source, installed, unitVars, raced>>
      /\ step' = "idle" /\ failures' = failures + 1 /\ failures' \in 1 .. MaxFailures
  BY CertAssumption DEF IInv, TypeOK, EndEarly
<1>2. temp' \in Pair /\ seen' \in Files
  BY CertAssumption DEF EndEarly, NoPair, Pair, Files
<1>3. TypeOK'
  BY <1>1, <1>2 DEF IInv, TypeOK, EndEarly, Steps, unitVars
<1>4. ScriptInv'
  BY <1>1 DEF ScriptInv, HashFresh, SourceMatched, SourceFit, CopyChecked
<1>5. InstalledIsChecked'
  BY <1>1 DEF IInv, InstalledIsChecked
<1> QED
  BY <1>3, <1>4, <1>5 DEF IInv

LEMMA StutterInv == IInv /\ UNCHANGED vars => IInv'
BY DEF IInv, TypeOK, ScriptInv, HashFresh, SourceMatched, SourceFit, CopyChecked,
       InstalledIsChecked, vars, scriptVars, unitVars

LEMMA NextInvariant == IInv /\ [Next]_vars => IInv'
BY RenewInv, UnitInv, ReadingInv, CopyInv, MoveInv, RestartInv, EndEarlyInv, StutterInv
   DEF Next, Command

LEMMA Invariance == Spec => []IInv
BY InitInv, NextInvariant, PTL DEF Spec

-----------------------------------------------------------------------------
(* Every variable has its type: the temporary files, the units and the     *)
(* count of interrupted runs stay what the module declares them to be      *)
(* (deploy/bin/sync-certificate.sh, deploy/systemd/).                      *)
THEOREM CertTypeCorrect == Spec => []TypeOK
<1>1. IInv => TypeOK
  BY DEF IInv
<1> QED
  BY <1>1, Invariance, PTL

(* What the script installs is what it has checked, although it validates  *)
(* Caddy's files where they are and copies them later, and although it may *)
(* be killed at any command: no certificate that the checks refuse is ever *)
(* installed, and without an interruption both files are of one pair       *)
(* between the runs, unless Caddy writes while a run reads                 *)
(* (sync-certificate.sh).                                                  *)
THEOREM CertInstalledIsChecked == Spec => []InstalledIsChecked
<1>1. IInv => InstalledIsChecked
  BY DEF IInv
<1> QED
  BY <1>1, Invariance, PTL
=============================================================================
