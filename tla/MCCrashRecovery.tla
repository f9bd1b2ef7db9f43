--------------------------- MODULE MCCrashRecovery ---------------------------
(* Instances of CrashRecovery for TLC. *)
EXTENDS CrashRecovery, TLC

CONSTANTS p1, p2, p3

TwoPeers == {p1, p2}
ThreePeers == {p1, p2, p3}

\* Addresses of two characters.
TwoAddr == [p \in TwoPeers |-> <<p, p>>]
ThreeAddr == [p \in ThreePeers |-> <<p, p>>]

TwoSymmetry == Permutations(TwoPeers)
ThreeSymmetry == Permutations(ThreePeers)
=============================================================================
