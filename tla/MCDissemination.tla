-------------------------- MODULE MCDissemination --------------------------
(***************************************************************************)
(* Instances of Dissemination for TLC: three nodes, each linked to both    *)
(* others, so that a message can come back around a cycle.  In one the     *)
(* caches differ: n1 has room for everything, n2 and n3 have not.  In the  *)
(* other every cache gets full.                                            *)
(***************************************************************************)
EXTENDS Dissemination

CONSTANTS n1, n2, n3

MCNodes == {n1, n2, n3}
MCLinks == {<<a, b>> \in MCNodes \X MCNodes : a # b}
MCKeepers == {n1}

MCMixed == [n \in MCNodes |-> IF n = n1 THEN 3 ELSE IF n = n2 THEN 2 ELSE 1]
MCFull == [n \in MCNodes |-> 2]

============================================================================
