---------------------------- MODULE MCQuorumWrite ----------------------------
(* Instances of QuorumWrite for TLC. *)
EXTENDS QuorumWrite, TLC

CONSTANTS p1, p2, p3, p4

ThreePeers == {p1, p2, p3}
FourPeers == {p1, p2, p3, p4}

\* The servers are interchangeable when all of them, or none, are registered
\* at the start.
FourSymmetry == Permutations(FourPeers)
ThreeSymmetry == Permutations(ThreePeers)
=============================================================================
