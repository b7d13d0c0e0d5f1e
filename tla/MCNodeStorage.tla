--------------------------- MODULE MCNodeStorage ---------------------------
(***************************************************************************)
(* An instance of NodeStorage for TLC: a passport of two blocks, that a    *)
(* user may put whole, in part or without its head, and one more block.    *)
(***************************************************************************)
EXTENDS NodeStorage

CONSTANTS head, child, topic, text

MCBlocks == {head, child}
MCParent == head :> NoParent @@ child :> head
MCChains == {<<head>>, <<head, child>>, <<child>>}
MCTopics == {head, topic}
MCContents == {child, text}
MCTimes ==
    {[day |-> 0, time |-> 0], [day |-> 0, time |-> 1], [day |-> 1, time |-> 0]}

============================================================================
