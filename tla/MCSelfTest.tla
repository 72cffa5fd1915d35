----------------------------- MODULE MCSelfTest -----------------------------
(* TLC instance of SelfTest: see the cfg for the sizes.                    *)
EXTENDS SelfTest

CONSTANTS r1, t1, t2, i1, i2

OneRunner == {r1}
TwoTests == {t1, t2}
TwoIds == {i1, i2}

\* Two tests on one topic, on two, and one that may not publish (Handshake(i2)).
\* The tests are alike, so that each pair is taken once.
Loop(id) == [kind |-> "loop", id |-> id]
Handshake(id) == [kind |-> "handshake", id |-> id]
Pair(one, other) == [t \in Tests |-> IF t = t1 THEN one ELSE other]

Pairs == {
  Pair(Loop(i1), Loop(i1)),
  Pair(Loop(i1), Handshake(i1)),
  Pair(Loop(i2), Handshake(i1)),
  Pair(Loop(i1), Handshake(i2)),
  Pair(Handshake(i1), Handshake(i1)),
  Pair(Handshake(i1), Handshake(i2))
}
=============================================================================
