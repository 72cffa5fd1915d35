------------------------------ MODULE Service ------------------------------
(***************************************************************************)
(* What an invocation of the one-command runner promises, without its      *)
(* steps: a broker and the records that lead to it.  Records exist while   *)
(* the invocation is up, a broker is stopped only when they are gone, and  *)
(* an invocation that closes ends when its broker has ended.  Supervisor   *)
(* implements it; SelfTest is composed on it.                              *)
(***************************************************************************)

CONSTANT Runners  \* the invocations of laptop.run

VARIABLES
  phase,   \* how far it is
  broker,  \* its mosquitto process
  record   \* its mDNS records; left: by a killed process, until they expire

vars == <<phase, broker, record>>

Alive == {"starting", "listening", "stopping"}

\* Which brokers hold the ports; at most one does.
Serving == {r \in Runners : broker[r] \in {"listening", "stopping"}}

TypeOK ==
  /\ phase \in [Runners -> {"idle", "up", "closing", "over", "abandoned"}]
  /\ broker \in [Runners -> Alive \cup {"none", "gone"}]
  /\ record \in [Runners -> {"absent", "published", "left"}]

Init ==
  /\ phase = [r \in Runners |-> "idle"]
  /\ broker = [r \in Runners |-> "none"]
  /\ record = [r \in Runners |-> "absent"]

Launch(r) ==
  /\ phase[r] = "idle"
  /\ phase' = [phase EXCEPT ![r] = "up"]
  /\ broker' = [broker EXCEPT ![r] = "starting"]
  /\ UNCHANGED record

Listen(r) ==
  /\ broker[r] = "starting"
  /\ Serving = {}
  /\ broker' = [broker EXCEPT ![r] = "listening"]
  /\ UNCHANGED <<phase, record>>

\* The records are published whether or not the broker listens yet.
Publish(r) ==
  /\ phase[r] = "up"
  /\ record[r] = "absent"
  /\ record' = [record EXCEPT ![r] = "published"]
  /\ UNCHANGED <<phase, broker>>

Close(r) ==
  /\ phase[r] = "up"
  /\ phase' = [phase EXCEPT ![r] = "closing"]
  /\ record' = [record EXCEPT ![r] = "absent"]
  /\ UNCHANGED broker

Stop(r) ==
  /\ phase[r] = "closing"
  /\ broker[r] \in Alive
  /\ broker' = [broker EXCEPT ![r] = "stopping"]
  /\ UNCHANGED <<phase, record>>

\* By itself, by the SIGTERM of Stop or by a SIGKILL.
End(r) ==
  /\ broker[r] \in Alive
  /\ broker' = [broker EXCEPT ![r] = "gone"]
  /\ UNCHANGED <<phase, record>>

Finish(r) ==
  /\ phase[r] = "closing"
  /\ broker[r] \notin Alive
  /\ phase' = [phase EXCEPT ![r] = "over"]
  /\ UNCHANGED <<broker, record>>

\* The invocation is killed, or raises before its `try`.
Abandon(r) ==
  /\ phase[r] \in {"idle", "up", "closing"}
  /\ phase' = [phase EXCEPT ![r] = "abandoned"]
  /\ record' = [record EXCEPT ![r] = IF @ = "published" THEN "left" ELSE @]
  /\ UNCHANGED broker

Expire(r) ==
  /\ record[r] = "left"
  /\ record' = [record EXCEPT ![r] = "absent"]
  /\ UNCHANGED <<phase, broker>>

Next == \E r \in Runners :
  \/ Launch(r) \/ Listen(r) \/ Publish(r) \/ Close(r) \/ Stop(r) \/ End(r)
  \/ Finish(r) \/ Abandon(r) \/ Expire(r)

Spec == Init /\ [][Next]_vars
=============================================================================
