---------------------------- MODULE MCSupervisor ----------------------------
(* TLC instances of Supervisor.                                            *)
EXTENDS Supervisor

CONSTANTS r1, r2

OneRunner == {r1}
TwoRunners == {r1, r2}
=============================================================================
