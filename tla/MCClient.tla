------------------------------ MODULE MCClient ------------------------------
(***************************************************************************)
(* An instance of ClientUi for TLC: a key whose file may be there at first *)
(* (the database does not know it, as after a crash while it was created)  *)
(* and one that can be created; a passport of the latter, and one that     *)
(* only the node has.  The node may send that passport, or the first with  *)
(* a block the client does not have, ask for a passport, and send the      *)
(* message of a topic, or one that a client does not handle.               *)
(***************************************************************************)
EXTENDS ClientUi

CONSTANTS old, fresh, own, more, other

MCBlocks == {own, other}
MCAuthor == own :> fresh @@ other :> old
MCParent == own :> NoParent @@ other :> NoParent @@ more :> own
MCIncoming ==
    {[type |-> "PutPassport", id |-> other, blocks |-> <<other>>],
     [type |-> "PutPassport", id |-> own, blocks |-> <<own, more>>],
     [type |-> "GetPassport", id |-> own],
     [type |-> "Topic", topic |-> other, content |-> more],
     [type |-> "Gossip"]}
=============================================================================
