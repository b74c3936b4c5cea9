---------------------------- MODULE MCResultStore ----------------------------
(* An instance of ResultStore for TLC. *)
EXTENDS ResultStore, TLC

(* The site is redeployed with a smaller log and GREASE results required,  *)
(* or the other way round.                                                 *)
MCConfigs == {[maxChanges |-> 1, requireGrease |-> TRUE],
              [maxChanges |-> 2, requireGrease |-> FALSE]}

(* Calls and families are interchangeable, and so are the contents that    *)
(* carry a GREASE pair.                                                    *)
StoreSymmetry ==
  Permutations(Calls) \cup Permutations(Families) \cup Permutations(GreaseContents)
=============================================================================
