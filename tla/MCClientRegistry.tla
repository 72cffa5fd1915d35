-------------------------- MODULE MCClientRegistry --------------------------
(* TLC instances of ClientRegistry: see the cfgs for the sizes.            *)
EXTENDS ClientRegistry, TLC

CONSTANTS c1, c2, d1, p1, p2

MCClients == {c1, c2}
MCChildren == {d1}

\* `sensor` grants nothing: an entry without a section in the ACL.
OneRole == {"controller"}
MCRoles == {"sensor"}
MCOverlapping == {p1, p2}
MCSerial == {p1}

Symmetry == Permutations(MCClients) \cup Permutations(MCOverlapping)
=============================================================================
