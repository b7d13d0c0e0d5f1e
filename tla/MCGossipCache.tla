--------------------------- MODULE MCGossipCache ---------------------------
(* Instances of GossipCache for TLC; the peers are interchangeable.        *)
EXTENDS GossipCache

Symmetry == Permutations(Peers)

============================================================================
