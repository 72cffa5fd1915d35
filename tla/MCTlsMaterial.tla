--------------------------- MODULE MCTlsMaterial ---------------------------
(* TLC instances of TlsMaterial: see the cfgs for the sizes.               *)
EXTENDS TlsMaterial, TLC

CONSTANTS p1, p2, c1, k1, k2, k3, k4, k5, net

OneProc == {p1}
TwoProcs == {p1, p2}
OneClient == {c1}
NoList == {<<>>}
AtMostOne == {<<>>, <<c1>>}
OnceOrTwice == {<<>>, <<c1>>, <<c1, c1>>}
FourKeys == {k1, k2, k3, k4}
FiveKeys == FourKeys \cup {k5}
OneHost == {"laptop.local"}
OneAddress == {net}

FourKeySymmetry == Permutations(FourKeys)
FiveKeySymmetry == Permutations(FiveKeys)
OverlapSymmetry == FourKeySymmetry \cup Permutations(TwoProcs)
=============================================================================
