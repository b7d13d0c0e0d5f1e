----------------------------- MODULE MCSession -----------------------------
(***************************************************************************)
(* An instance of Session for TLC: two addresses, three keys and two       *)
(* releases, one of which the other does not support.  Sizes are scaled    *)
(* down and keep their order: a topic message with three bytes of content  *)
(* fits a message and not a frame.  The largest that is sent otherwise, a  *)
(* query, fills a frame.  Two messages are sent, both ways together, at    *)
(* the second address, where either release may answer.                    *)
(***************************************************************************)
EXTENDS Session

CONSTANTS me, target, other

MCKeys == {me, target, other}
MCOld == [min |-> 1, current |-> 1, max |-> 1]
MCNew == [min |-> 1, current |-> 2, max |-> 2]
MCReleases == <<{MCOld}, {MCOld, MCNew}>>
MCSends == {[type |-> "Topic", size |-> 0], [type |-> "Topic", size |-> 3],
            [type |-> "QueryTopicMessages", size |-> 0]}

MCMaxSent == <<0, 2>>

============================================================================
