----------------------------- MODULE MCSessions -----------------------------
(* Instances of Sessions for TLC. *)
EXTENDS Sessions, TLC

CONSTANTS a, b, m1, m2, d1

TwoPaths == {a, b}
TwoMRs == {m1, m2}
OneFd == {d1}
TwoFds == {d1}

SessionsSymmetry == Permutations(TwoPaths) \cup Permutations(TwoMRs)
=============================================================================
