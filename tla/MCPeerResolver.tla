--------------------------- MODULE MCPeerResolver --------------------------
(* PeerResolver for TLC.  Everything but None, Nobody and Unlisted is       *)
(* interchangeable.                                                         *)
EXTENDS PeerResolver, TLC

CONSTANTS i1, i2, c1, c2, w1, w2

IPs == {i1, i2}
Containers == {c1, c2}
OneContainer == {c1}
OneWriter == {w1}
Writers == {w1, w2}

Symmetry ==
    Permutations(IP) \cup Permutations(Container) \cup Permutations(Writer)
=============================================================================
