--------------------------- MODULE MCConnections ---------------------------
(***************************************************************************)
(* Instances of Connections for TLC.  Peers and connection tasks are       *)
(* interchangeable: nothing orders them, so the safety runs use both as    *)
(* symmetry sets.                                                          *)
(***************************************************************************)
EXTENDS Connections

Symmetry == Permutations(Peers) \cup Permutations(Conns)

============================================================================
