--------------------------- MODULE MCAccessPolicy ---------------------------
(* TLC instance of AccessPolicy: see the cfg for the sizes.                *)
EXTENDS AccessPolicy

CONSTANTS c1, c2, d1

TwoClients == {c1, c2}
OneChild == {d1}
WritingRoles == {"sensor", "controller", "admin"}
=============================================================================
