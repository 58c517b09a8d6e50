-------------------------- MODULE MCPeerConnections ---------------------------
EXTENDS PeerConnections

Symmetry == Permutations(Keys)
===============================================================================
