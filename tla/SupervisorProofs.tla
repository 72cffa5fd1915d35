-------------------------- MODULE SupervisorProofs --------------------------
(***************************************************************************)
(* Theorems of Supervisor, for every set of runners.                       *)
(***************************************************************************)
EXTENDS Supervisor, TLAPS

\* Every variable keeps its type: a status is 0 or 1, a runner is at a step that
\* exists, a broker in a state that Mosquitto has.
THEOREM TypeCorrect == Spec => []TypeOK
<1> USE DEF TypeOK, Steps, Alive, Gone
<1>1. Init => TypeOK
  BY DEF Init
<1>2. TypeOK /\ [Next]_vars => TypeOK'
  <2> SUFFICES ASSUME TypeOK, [Next]_vars PROVE TypeOK'
    OBVIOUS
  <2> USE DEF At, Goto, Exit, Fails, Becomes, Says, Handled, Running
  <2>1. ASSUME NEW r \in Runners, Step(r) PROVE TypeOK'
    <3>1. CASE EndsEarly(r) \/ InstallHandlers(r) \/ Spawn(r) \/ SpawnFails(r) \/ Announce(r)
      BY <3>1 DEF EndsEarly, InstallHandlers, Spawn, SpawnFails, Announce
    <3>2. CASE Enter(r) \/ EnterFails(r) \/ SayUp(r) \/ CheckStop(r) \/ PollBroker(r)
      BY <3>2 DEF Enter, EnterFails, SayUp, CheckStop, PollBroker
    <3>3. CASE Withdraw(r) \/ Terminate(r) \/ BrokerWaitedFor(r) \/ WaitTimesOut(r)
      BY <3>3 DEF Withdraw, Terminate, BrokerWaitedFor, WaitTimesOut
    <3>4. CASE KillBroker(r) \/ SayStopped(r)
      BY <3>4 DEF KillBroker, SayStopped
    <3> QED BY <2>1, <3>1, <3>2, <3>3, <3>4 DEF Step
  <2>2. ASSUME NEW r \in Runners, Environment(r) PROVE TypeOK'
    BY <2>2 DEF Environment, Invoke, Signal, HangUp, Killed, RecordsExpire, BrokerListens, BrokerEnds
  <2>3. CASE UNCHANGED vars
    BY <2>3 DEF vars
  <2> QED BY <2>1, <2>2, <2>3 DEF Next
<1> QED BY <1>1, <1>2, PTL DEF Spec

-----------------------------------------------------------------------------
(* The inductive invariant: what holds of a runner at each of its steps.   *)

Teardown == {"wait", "kill", "say_stopped", "exited"}

\* Records are published inside the `with` only, and a broker is stopped after it.
RecordsFit(r) ==
  /\ record[r] = "published" => pc[r] \in {"say_up", "loop", "poll", "withdraw"}
  /\ broker[r] \in {"stopping", "dead"} => pc[r] \in Teardown

\* How a runner ended, and what it left.
EndingFits(r) ==
  /\ ending[r] = "none" <=> pc[r] # "exited"
  /\ record[r] = "left" => ending[r] = "killed"
  /\ pc[r] = "say_stopped" => broker[r] \in Gone
  /\ ending[r] = "done" => broker[r] \in Gone

\* A status of 0 on the way out means that the stop event was set.
StatusFits(r) ==
  pc[r] \in Teardown \cup {"withdraw", "terminate"} /\ code[r] = 0 => stop[r]

IInv == \A r \in Runners : RecordsFit(r) /\ EndingFits(r) /\ StatusFits(r)

\* Every step preserves the invariant: it touches one runner, and each clause
\* speaks of one.
LEMMA IInvHolds == IInv /\ TypeOK /\ [Next]_vars => IInv'
<1> SUFFICES ASSUME IInv, TypeOK, [Next]_vars PROVE IInv'
  OBVIOUS
<1> USE DEF IInv, TypeOK, RecordsFit, EndingFits, StatusFits, Teardown, Gone, Alive, Steps,
            At, Goto, Exit, Fails, Becomes, Says, Running, Handled
<1>1. ASSUME NEW r \in Runners, Step(r) PROVE IInv'
  <2>1. CASE EndsEarly(r) \/ InstallHandlers(r) \/ SpawnFails(r)
    BY <2>1 DEF EndsEarly, InstallHandlers, SpawnFails
  <2>2. CASE Spawn(r)
    BY <2>2 DEF Spawn
  <2>3. CASE Announce(r)
    BY <2>3 DEF Announce
  <2>4. CASE Enter(r) \/ EnterFails(r)
    BY <2>4 DEF Enter, EnterFails
  <2>5. CASE SayUp(r) \/ CheckStop(r)
    BY <2>5 DEF SayUp, CheckStop
  <2>6. CASE PollBroker(r)
    BY <2>6 DEF PollBroker
  <2>7. CASE Withdraw(r)
    BY <2>7 DEF Withdraw
  <2>8. CASE Terminate(r)
    BY <2>8 DEF Terminate
  <2>9. CASE BrokerWaitedFor(r) \/ WaitTimesOut(r)
    BY <2>9 DEF BrokerWaitedFor, WaitTimesOut
  <2>10. CASE KillBroker(r)
    BY <2>10 DEF KillBroker
  <2>11. CASE SayStopped(r)
    BY <2>11 DEF SayStopped
  <2> QED
    BY <1>1, <2>1, <2>2, <2>3, <2>4, <2>5, <2>6, <2>7, <2>8, <2>9, <2>10, <2>11 DEF Step
<1>2. ASSUME NEW r \in Runners, Environment(r) PROVE IInv'
  <2>1. CASE Invoke(r) \/ Signal(r) \/ HangUp(r)
    BY <2>1 DEF Invoke, Signal, HangUp
  <2>2. CASE Killed(r) \/ RecordsExpire(r)
    BY <2>2 DEF Killed, RecordsExpire
  <2>3. CASE BrokerListens(r) \/ BrokerEnds(r)
    BY <2>3 DEF BrokerListens, BrokerEnds
  <2> QED BY <1>2, <2>1, <2>2, <2>3 DEF Environment
<1>3. CASE UNCHANGED vars
  BY <1>3 DEF vars
<1> QED BY <1>1, <1>2, <1>3 DEF Next

\* The inductive invariant holds: it does at the start and every step keeps it.
LEMMA IInvInvariant == Spec => []IInv
<1>1. Init => IInv
  BY DEF Init, IInv, RecordsFit, EndingFits, StatusFits, Teardown
<1> QED BY <1>1, TypeCorrect, IInvHolds, PTL DEF Spec

\* No runner stops a broker that its records still point to (run.py main).
THEOREM OrderedTeardown == Spec => []NeverResolvedWhileStopping
<1>1. IInv => NeverResolvedWhileStopping
  BY DEF IInv, RecordsFit, Teardown, NeverResolvedWhileStopping
<1> QED BY <1>1, IInvInvariant, PTL

\* A runner that reached its `try` and was not killed leaves neither broker nor
\* records behind (run.py main, _terminate).
THEOREM CleanTeardown == Spec => []SupervisedLeavesNothing
<1>1. IInv /\ TypeOK => SupervisedLeavesNothing
  BY DEF IInv, TypeOK, RecordsFit, EndingFits, SupervisedLeavesNothing
<1> QED BY <1>1, IInvInvariant, TypeCorrect, PTL

\* A runner that exits with 0 was asked to stop (run.py main).
THEOREM HonestStatus == Spec => []ZeroMeansStopped
<1>1. IInv => ZeroMeansStopped
  BY DEF IInv, StatusFits, Teardown, At, ZeroMeansStopped
<1> QED BY <1>1, IInvInvariant, PTL

-----------------------------------------------------------------------------
(* The refinement: what each step of a runner is in Service.               *)

\* A runner that exits before its records are published abandons its service.
LEMMA GivesUp ==
  ASSUME NEW r \in Runners, TypeOK, pc[r] # "exited", record[r] # "published",
         Exit(r, "early"), UNCHANGED <<broker, record>>
  PROVE  Svc!Next
<1>1. record' = [record EXCEPT ![r] = IF @ = "published" THEN "left" ELSE @]
  BY DEF TypeOK
<1>2. UNCHANGED [s \in Runners |-> IF broker[s] \in {"dead", "crashed"} THEN "gone" ELSE broker[s]]
  OBVIOUS
<1>3. /\ Phase(pc[r], ending[r]) \in {"idle", "up", "closing"}
      /\ [s \in Runners |-> Phase(pc'[s], ending'[s])]
           = [[s \in Runners |-> Phase(pc[s], ending[s])] EXCEPT ![r] = "abandoned"]
  BY DEF TypeOK, Exit, Goto, Phase, Steps
<1>4. Svc!Abandon(r)
  BY <1>1, <1>2, <1>3 DEF Svc!Abandon
<1> QED BY <1>4 DEF Svc!Next

\* Every step of a runner is a step of its service, or changes nothing there.
LEMMA StepImplements ==
  ASSUME NEW r \in Runners, TypeOK, IInv, Step(r) PROVE Svc!Next \/ UNCHANGED Svc!vars
<1> USE DEF TypeOK, Steps, At, Goto, Exit, Fails, Becomes, Says, Phase, Svc!vars
<1>1. CASE EndsEarly(r) \/ SpawnFails(r)
  BY <1>1, GivesUp DEF EndsEarly, SpawnFails, IInv, RecordsFit
<1>2. CASE Spawn(r)
  <2>1. Svc!Launch(r)
    BY <1>2 DEF Spawn, Svc!Launch
  <2> QED BY <2>1 DEF Svc!Next
<1>3. CASE Announce(r)
  <2>1. CASE tty[r]
    BY <1>3, <2>1 DEF Announce
  <2>2. CASE ~tty[r]
    BY <1>3, <2>2, GivesUp DEF Announce, IInv, RecordsFit
  <2> QED BY <2>1, <2>2
<1>4. CASE Enter(r)
  <2>1. record[r] # "published"
    BY <1>4 DEF Enter, IInv, RecordsFit
  <2>2. record[r] # "left"
    BY <1>4 DEF Enter, IInv, EndingFits
  <2>3. Svc!Publish(r)
    BY <1>4, <2>1, <2>2 DEF Enter, Svc!Publish
  <2> QED BY <2>3 DEF Svc!Next
<1>5. CASE EnterFails(r)
  <2>1. record[r] # "published"
    BY <1>5 DEF EnterFails, IInv, RecordsFit
  <2>2. record[r] # "left"
    BY <1>5 DEF EnterFails, IInv, EndingFits
  <2>3. record' = [record EXCEPT ![r] = "absent"]
    BY <1>5, <2>1, <2>2 DEF EnterFails
  <2>4. Svc!Close(r)
    BY <1>5, <2>3 DEF EnterFails, Svc!Close
  <2> QED BY <2>4 DEF Svc!Next
<1>6. CASE InstallHandlers(r) \/ SayUp(r) \/ CheckStop(r) \/ PollBroker(r)
  BY <1>6 DEF InstallHandlers, SayUp, CheckStop, PollBroker
<1>7. CASE Withdraw(r)
  <2>1. Svc!Close(r)
    BY <1>7 DEF Withdraw, Svc!Close
  <2> QED BY <2>1 DEF Svc!Next
<1>8. CASE Terminate(r)
  <2>1. CASE broker[r] \in Gone
    BY <1>8, <2>1 DEF Terminate
  <2>2. CASE broker[r] \notin Gone
    <3>1. broker[r] \in Alive
      BY <2>2
    <3>2. Svc!Stop(r)
      BY <1>8, <2>2, <3>1 DEF Terminate, Svc!Stop, Svc!Alive, Alive
    <3> QED BY <3>2 DEF Svc!Next
  <2> QED BY <2>1, <2>2
<1>9. CASE BrokerWaitedFor(r) \/ WaitTimesOut(r)
  BY <1>9 DEF BrokerWaitedFor, WaitTimesOut
<1>10. CASE KillBroker(r)
  <2>1. CASE broker[r] \in Alive
    <3>1. Svc!End(r)
      BY <1>10, <2>1 DEF KillBroker, Svc!End, Svc!Alive, Alive
    <3> QED BY <3>1 DEF Svc!Next
  <2>2. CASE broker[r] \notin Alive
    BY <1>10, <2>2 DEF KillBroker
  <2> QED BY <2>1, <2>2
<1>11. CASE SayStopped(r)
  <2>1. Svc!Finish(r)
    BY <1>11 DEF SayStopped, Svc!Finish, Svc!Alive, Alive, Gone, IInv, EndingFits
  <2> QED BY <2>1 DEF Svc!Next
<1> QED
  BY <1>1, <1>2, <1>3, <1>4, <1>5, <1>6, <1>7, <1>8, <1>9, <1>10, <1>11 DEF Step

\* So is everything that happens to it.
LEMMA EnvironmentImplements ==
  ASSUME NEW r \in Runners, TypeOK, IInv, Environment(r) PROVE Svc!Next \/ UNCHANGED Svc!vars
<1> USE DEF TypeOK, Steps, At, Goto, Exit, Fails, Becomes, Phase, Running, Handled, Svc!vars
<1>1. CASE Invoke(r) \/ Signal(r) \/ HangUp(r)
  BY <1>1 DEF Invoke, Signal, HangUp
<1>2. CASE Killed(r)
  <2>1. Svc!Abandon(r)
    BY <1>2 DEF Killed, Svc!Abandon
  <2> QED BY <2>1 DEF Svc!Next
<1>3. CASE RecordsExpire(r)
  <2>1. Svc!Expire(r)
    BY <1>3 DEF RecordsExpire, Svc!Expire
  <2> QED BY <2>1 DEF Svc!Next
<1>4. CASE BrokerListens(r)
  <2>1. Svc!Listen(r)
    BY <1>4 DEF BrokerListens, PortsFree, Svc!Listen, Svc!Serving
  <2> QED BY <2>1 DEF Svc!Next
<1>5. CASE BrokerEnds(r)
  <2>1. Svc!End(r)
    BY <1>5 DEF BrokerEnds, Svc!End, Svc!Alive, Alive
  <2> QED BY <2>1 DEF Svc!Next
<1> QED BY <1>1, <1>2, <1>3, <1>4, <1>5 DEF Environment

\* The runner implements Service: it starts where a service starts, and each of
\* its steps is a step of the service or none (run.py main).
THEOREM Implementation == Spec => ImplementsService
<1>1. Init => Svc!Init
  BY DEF Init, Svc!Init, Phase
<1>2. TypeOK /\ IInv /\ [Next]_vars => [Svc!Next]_(Svc!vars)
  <2>1. ASSUME TypeOK, UNCHANGED vars PROVE UNCHANGED Svc!vars
    BY <2>1 DEF vars, Svc!vars
  <2> QED BY <2>1, StepImplements, EnvironmentImplements DEF Next
<1> QED BY <1>1, <1>2, TypeCorrect, IInvInvariant, PTL DEF Spec, ImplementsService, Svc!Spec
=============================================================================
