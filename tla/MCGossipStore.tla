---------------------------- MODULE MCGossipStore ----------------------------
EXTENDS GossipStore, TLC

\* The nodes that only relay are interchangeable.
RelaySymmetry == Permutations(Nodes \ Origins)

=============================================================================
