----------------------------- MODULE MCPageServer ----------------------------
(* An instance of PageServer for TLC. *)
EXTENDS PageServer

MCConfigs == {[maxChanges |-> 2, requireGrease |-> FALSE]}

(* A request that is fine, and one for each of the three early returns. *)
GoodHeaders == [post |-> TRUE, sameOrigin |-> TRUE, json |-> TRUE]
MCHeaders   == {GoodHeaders,
                [GoodHeaders EXCEPT !.post = FALSE],
                [GoodHeaders EXCEPT !.sameOrigin = FALSE],
                [GoodHeaders EXCEPT !.json = FALSE]}
=============================================================================
