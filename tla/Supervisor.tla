----------------------------- MODULE Supervisor -----------------------------
(***************************************************************************)
(* The one-command runner (laptop/run.py): a supervisor that brings up the *)
(* broker as a child in a session of its own and advertises it over mDNS,  *)
(* and tears both down when it is asked to, when the broker dies or when   *)
(* something raises.  Several runners may be about at once: an earlier one *)
(* still tearing down, or gone without its broker (laptop-bench.sh kills a *)
(* session and starts the next).  Mosquitto, the mDNS responder and the    *)
(* terminal are external.                                                  *)
(***************************************************************************)
EXTENDS Naturals

CONSTANT Runners  \* the invocations of laptop.run

VARIABLES
  pc,      \* the next step of each runner
  stop,    \* its stop event
  tty,     \* its terminal is there; when it is not, a print raises
  code,    \* 0, or 1 for an exit status other than zero
  broker,  \* its mosquitto process
  record,  \* its mDNS records: absent | published | left by a killed process
  ending   \* history: how it ended; early: before the `try`

vars == <<pc, stop, tty, code, broker, record, ending>>

Steps == {"off", "prepare", "spawn", "announce", "enter", "say_up", "loop", "poll",
          "withdraw", "terminate", "wait", "kill", "say_stopped", "exited"}
TryBlock == {"enter", "say_up", "loop", "poll", "withdraw", "terminate", "wait", "kill",
             "say_stopped"}
Running == Steps \ {"off", "exited"}

\* stopping: it has got SIGTERM. dead: stopped by its runner. crashed: it ended
\* of itself, ports taken included.
Alive == {"starting", "listening", "stopping"}
Gone == {"none", "dead", "crashed"}

TypeOK ==
  /\ pc \in [Runners -> Steps]
  /\ stop \in [Runners -> BOOLEAN]
  /\ tty \in [Runners -> BOOLEAN]
  /\ code \in [Runners -> {0, 1}]
  /\ broker \in [Runners -> Alive \cup Gone]
  /\ record \in [Runners -> {"absent", "published", "left"}]
  /\ ending \in [Runners -> {"none", "early", "done", "killed"}]

Init ==
  /\ pc = [r \in Runners |-> "off"]
  /\ stop = [r \in Runners |-> FALSE]
  /\ tty = [r \in Runners |-> TRUE]
  /\ code = [r \in Runners |-> 0]
  /\ broker = [r \in Runners |-> "none"]
  /\ record = [r \in Runners |-> "absent"]
  /\ ending = [r \in Runners |-> "none"]

-----------------------------------------------------------------------------
At(r, step) == pc[r] = step
Goto(r, step) == pc' = [pc EXCEPT ![r] = step]
Exit(r, how) ==
  /\ Goto(r, "exited")
  /\ ending' = [ending EXCEPT ![r] = how]
Fails(r) == code' = [code EXCEPT ![r] = 1]
Becomes(r, state) == broker' = [broker EXCEPT ![r] = state]

\* Mutant of Says: statuses are added up.
SaysAddingUp(r) == code' = [code EXCEPT ![r] = IF tty[r] THEN @ ELSE @ + 1]

\* A print: an exception, hence a status of 1, without a terminal.
Says(r) == code' = [code EXCEPT ![r] = IF tty[r] THEN @ ELSE 1]

-----------------------------------------------------------------------------
(* Before the `try`.                                                       *)

Invoke(r) ==
  /\ At(r, "off")
  /\ Goto(r, "prepare")
  /\ UNCHANGED <<stop, tty, code, broker, record, ending>>

\* A port collision, no mosquitto, or prepare raises; or a signal while it still
\* has its default action.
EndsEarly(r) ==
  /\ At(r, "prepare")
  /\ Exit(r, "early")
  /\ Fails(r)
  /\ UNCHANGED <<stop, tty, broker, record>>

InstallHandlers(r) ==
  /\ At(r, "prepare")
  /\ Goto(r, "spawn")
  /\ UNCHANGED <<stop, tty, code, broker, record, ending>>

Spawn(r) ==
  /\ At(r, "spawn")
  /\ Goto(r, "announce")
  /\ Becomes(r, "starting")
  /\ UNCHANGED <<stop, tty, code, record, ending>>

SpawnFails(r) ==
  /\ At(r, "spawn")
  /\ Exit(r, "early")
  /\ Fails(r)
  /\ UNCHANGED <<stop, tty, broker, record>>

\* The start-up lines are printed after the broker is spawned and before the
\* `try` whose `finally` terminates it.
Announce(r) ==
  /\ At(r, "announce")
  /\ Says(r)
  /\ IF tty[r] THEN Goto(r, "enter") /\ UNCHANGED ending
               ELSE Exit(r, "early")
  /\ UNCHANGED <<stop, tty, broker, record>>

-----------------------------------------------------------------------------
(* The `try`.                                                              *)

Enter(r) ==
  /\ At(r, "enter")
  /\ record' = [record EXCEPT ![r] = "published"]
  /\ Goto(r, "say_up")
  /\ UNCHANGED <<stop, tty, code, broker, ending>>

\* The Advertiser raises: no network, or its name is taken.
EnterFails(r) ==
  /\ At(r, "enter")
  /\ Fails(r)
  /\ Goto(r, "terminate")
  /\ UNCHANGED <<stop, tty, broker, record, ending>>

\* Mutant of SayUp: the advertiser is not a context manager, and an exception goes
\* past the withdrawal.
SayUpUnmanaged(r) ==
  /\ At(r, "say_up")
  /\ Says(r)
  /\ Goto(r, IF tty[r] THEN "loop" ELSE "terminate")
  /\ UNCHANGED <<stop, tty, broker, record, ending>>

SayUp(r) ==
  /\ At(r, "say_up")
  /\ Says(r)
  /\ Goto(r, IF tty[r] THEN "loop" ELSE "withdraw")
  /\ UNCHANGED <<stop, tty, broker, record, ending>>

CheckStop(r) ==
  /\ At(r, "loop")
  /\ Goto(r, IF stop[r] THEN "withdraw" ELSE "poll")
  /\ UNCHANGED <<stop, tty, code, broker, record, ending>>

\* Mutants of PollBroker: the return code as it is, 0 included; no look at the broker.
PollBrokerPlainCode(r) ==
  /\ At(r, "poll")
  /\ IF broker[r] \in Gone
     THEN /\ code' = [code EXCEPT ![r] = IF broker[r] = "crashed" THEN 0 ELSE 1]
          /\ Goto(r, "withdraw")
     ELSE Goto(r, "loop") /\ UNCHANGED code
  /\ UNCHANGED <<stop, tty, broker, record, ending>>

PollNothing(r) ==
  /\ At(r, "poll")
  /\ Goto(r, "loop")
  /\ UNCHANGED <<stop, tty, code, broker, record, ending>>

\* A dead broker ends the loop, with its return code or 1.
PollBroker(r) ==
  /\ At(r, "poll")
  /\ IF broker[r] \in Gone THEN Fails(r) /\ Goto(r, "withdraw")
                           ELSE Goto(r, "loop") /\ UNCHANGED code
  /\ UNCHANGED <<stop, tty, broker, record, ending>>

\* Leaving the `with`, normally or by an exception, withdraws the records; the
\* line that says so is printed inside the `try`.
Withdraw(r) ==
  /\ At(r, "withdraw")
  /\ record' = [record EXCEPT ![r] = "absent"]
  /\ Says(r)
  /\ Goto(r, "terminate")
  /\ UNCHANGED <<stop, tty, broker, ending>>

\* Mutant of Terminate: nobody waits for the broker to end.
TerminateUnwaited(r) ==
  /\ At(r, "terminate")
  /\ Becomes(r, IF broker[r] \in Gone THEN broker[r] ELSE "stopping")
  /\ Goto(r, "say_stopped")
  /\ UNCHANGED <<stop, tty, code, record, ending>>

\* _terminate: a broker that is gone is left alone, a live one gets SIGTERM.
Terminate(r) ==
  /\ At(r, "terminate")
  /\ IF broker[r] \in Gone THEN Goto(r, "say_stopped") /\ UNCHANGED broker
                           ELSE Goto(r, "wait") /\ Becomes(r, "stopping")
  /\ UNCHANGED <<stop, tty, code, record, ending>>

BrokerWaitedFor(r) ==
  /\ At(r, "wait")
  /\ broker[r] \in Gone
  /\ Goto(r, "say_stopped")
  /\ UNCHANGED <<stop, tty, code, broker, record, ending>>

\* Mutant of WaitTimesOut: a wait without a timeout.
WaitForever(r) == FALSE /\ UNCHANGED vars

\* _TERM_TIMEOUT is over.
WaitTimesOut(r) ==
  /\ At(r, "wait")
  /\ broker[r] \in Alive
  /\ Goto(r, "kill")
  /\ UNCHANGED <<stop, tty, code, broker, record, ending>>

\* SIGKILL, and the wait that cannot fail to return.
KillBroker(r) ==
  /\ At(r, "kill")
  /\ Becomes(r, IF broker[r] \in Alive THEN "dead" ELSE broker[r])
  /\ Goto(r, "say_stopped")
  /\ UNCHANGED <<stop, tty, code, record, ending>>

SayStopped(r) ==
  /\ At(r, "say_stopped")
  /\ Says(r)
  /\ Exit(r, "done")
  /\ UNCHANGED <<stop, tty, broker, record>>

-----------------------------------------------------------------------------
(* What happens to a runner.                                               *)

Handled == Running \ {"prepare"}

\* Ctrl-C, SIGTERM or SIGHUP: the handler sets the event, at any step, any time.
Signal(r) ==
  /\ pc[r] \in Handled
  /\ stop' = [stop EXCEPT ![r] = TRUE]
  /\ UNCHANGED <<pc, tty, code, broker, record, ending>>

\* `tmux kill-session`: SIGHUP, and the terminal is gone.
HangUp(r) ==
  /\ pc[r] \in Handled
  /\ stop' = [stop EXCEPT ![r] = TRUE]
  /\ tty' = [tty EXCEPT ![r] = FALSE]
  /\ UNCHANGED <<pc, code, broker, record, ending>>

\* SIGKILL: no goodbye for the records, nothing for the broker.
Killed(r) ==
  /\ pc[r] \in Running
  /\ Exit(r, "killed")
  /\ Fails(r)
  /\ record' = [record EXCEPT ![r] = IF @ = "published" THEN "left" ELSE @]
  /\ UNCHANGED <<stop, tty, broker>>

\* Records that were never withdrawn run out.
RecordsExpire(r) ==
  /\ record[r] = "left"
  /\ record' = [record EXCEPT ![r] = "absent"]
  /\ UNCHANGED <<pc, stop, tty, code, broker, ending>>

-----------------------------------------------------------------------------
(* Mosquitto.                                                              *)

PortsFree == \A s \in Runners : broker[s] \notin {"listening", "stopping"}

BrokerListens(r) ==
  /\ broker[r] = "starting"
  /\ PortsFree
  /\ Becomes(r, "listening")
  /\ UNCHANGED <<pc, stop, tty, code, record, ending>>

\* It crashes, cannot load its configuration or finds its ports taken; or it
\* obeys the SIGTERM.
BrokerEnds(r) ==
  /\ broker[r] \in Alive
  /\ Becomes(r, IF broker[r] = "stopping" THEN "dead" ELSE "crashed")
  /\ UNCHANGED <<pc, stop, tty, code, record, ending>>

-----------------------------------------------------------------------------
Step(r) ==
  \/ EndsEarly(r) \/ InstallHandlers(r) \/ Spawn(r) \/ SpawnFails(r) \/ Announce(r)
  \/ Enter(r) \/ EnterFails(r) \/ SayUp(r) \/ CheckStop(r) \/ PollBroker(r)
  \/ Withdraw(r) \/ Terminate(r) \/ BrokerWaitedFor(r) \/ WaitTimesOut(r)
  \/ KillBroker(r) \/ SayStopped(r)

Environment(r) ==
  \/ Invoke(r) \/ Signal(r) \/ HangUp(r) \/ Killed(r) \/ RecordsExpire(r)
  \/ BrokerListens(r) \/ BrokerEnds(r)

Next == \E r \in Runners : Step(r) \/ Environment(r)

Spec == Init /\ [][Next]_vars

\* Mosquitto opens its listeners or exits.
Settles(r) == broker[r] = "starting" /\ (BrokerListens(r) \/ BrokerEnds(r))

\* A runner goes on; a broker settles, and nothing else is assumed of it, not even
\* that it obeys.
FairSpec == Spec /\ \A r \in Runners : WF_vars(Step(r)) /\ WF_vars(Settles(r))

-----------------------------------------------------------------------------
(* What the runner promises: each step is one of Service, or none.         *)

Phase(step, how) ==
  IF step \in {"off", "prepare", "spawn"} THEN "idle"
  ELSE IF step \in {"terminate", "wait", "kill", "say_stopped"} THEN "closing"
  ELSE IF step # "exited" THEN "up"
  ELSE IF how = "done" THEN "over" ELSE "abandoned"

Svc == INSTANCE Service WITH
  phase <- [r \in Runners |-> Phase(pc[r], ending[r])],
  broker <- [r \in Runners |-> IF broker[r] \in {"dead", "crashed"} THEN "gone" ELSE broker[r]]

-----------------------------------------------------------------------------
(* Properties.                                                             *)

\* A runner never stops a broker its own records still point to: "withdrawing
\* the mDNS record before stopping the broker" (run.py docstring), on every way
\* out of the `try`.
NeverResolvedWhileStopping ==
  \A r \in Runners : broker[r] \in {"stopping", "dead"} => record[r] # "published"

\* A runner that got as far as its `try` and was not killed leaves no broker
\* and no records behind, whatever raised on the way.
SupervisedLeavesNothing ==
  \A r \in Runners : ending[r] = "done" => broker[r] \in Gone /\ record[r] = "absent"

\* A zero exit status means that the runner was asked to stop (run.py: a broker
\* that exits by itself is an error even when it exits with 0).
ZeroMeansStopped ==
  \A r \in Runners : At(r, "exited") /\ code[r] = 0 => stop[r]

\* Every stop request that finds the runner in its `try` brings broker and
\* records down, a broker that ignores SIGTERM included (FairSpec).
StopTearsDown ==
  \A r \in Runners :
    (stop[r] /\ pc[r] \in TryBlock) ~>
      (ending[r] = "killed" \/ (ending[r] = "done" /\ broker[r] \in Gone /\ record[r] = "absent"))

\* Records that point to a broker that died of itself do not stay published.
CrashIsWithdrawn ==
  \A r \in Runners :
    (broker[r] = "crashed" /\ record[r] = "published") ~> record[r] # "published"

\* Records that are published before the broker listens (run.py 111-119) do not
\* lead nowhere for ever: it comes up, or they are withdrawn (FairSpec).
RecordsGetABroker ==
  \A r \in Runners :
    record[r] = "published" ~> (broker[r] = "listening" \/ record[r] # "published")

\* The runner does what Service says: nothing is advertised outside its life, no
\* broker is stopped before its records are gone, none is left behind by an
\* invocation that closes, however signals and failures fall between its steps.
ImplementsService == Svc!Spec

\* "A single Ctrl-C (or SIGTERM) tears both down", and so does the hang-up of
\* laptop-bench.sh stop: a runner that was not killed leaves no broker behind.
\* A hang-up before the start-up lines are out breaks it.
NoOrphanedBroker ==
  \A r \in Runners :
    At(r, "exited") /\ ending[r] # "killed" => broker[r] \in Gone
=============================================================================
