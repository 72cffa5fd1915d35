------------------------------ MODULE SelfTest ------------------------------
(***************************************************************************)
(* The self-tests (laptop/verify_loop.py, laptop/verify_handshake.py) and  *)
(* the discovery they start from (laptop/discover.py), run against the     *)
(* broker of Service while it comes and goes.  A test has two threads:     *)
(* main, which connects and waits for an event, and paho's, which runs     *)
(* on_connect and on_message.  Paho and Mosquitto are external.  The ids   *)
(* have no entry in the client registry.                                   *)
(***************************************************************************)
EXTENDS Sequences, Functions

CONSTANTS
  Tests,       \* the invocations of a self-test
  Ids,         \* the client ids they are given with --client-id
  SelfTestId,  \* laptop-selftest, which names the topic of verify_handshake
  Plans,       \* the ways in which the tests may be given their jobs
  Runners      \* the invocations of laptop.run

Jobs == [kind : {"loop", "handshake"}, id : Ids]

ASSUME PlansAssumption == Plans \subseteq [Tests -> Jobs]

VARIABLES
  phase, broker, record,  \* of Service
  job,        \* which test each is and under which client id
  step,       \* where its main thread is, or its verdict
  link,       \* its connection: none | asked | acked | open | cut
  outbox,     \* its requests that the broker has not processed
  inbox,      \* the messages it has not processed
  connected,  \* result["connected"]
  heard,      \* result["readback"] or result["echo"]
  done,       \* the event that main waits for
  retained,   \* what the broker retains on the $state topic of each id
  before,     \* history: the ids whose $state was the expected one at the start
  landed,     \* history: the broker has accepted its publish
  trouble     \* history: it has met something that excuses a failure

Svc == INSTANCE Service

serviceVars == <<phase, broker, record>>
results == <<connected, heard, done>>
testVars == <<job, step, link, outbox, inbox, results, retained, before, landed, trouble>>
vars == <<serviceVars, testVars>>

Payloads == {"expected", "other"}

\* verify_loop uses the $state topic of its id, verify_handshake a fixed topic.
Topic(t) == IF job[t].kind = "loop" THEN job[t] ELSE [job[t] EXCEPT !.id = SelfTestId]

\* `pattern readwrite ebus/5/%u/#` is the only write grant.
MayPublish(t) == job[t].kind = "loop" \/ job[t].id = SelfTestId

TypeOK ==
  /\ Svc!TypeOK
  /\ job \in [Tests -> Jobs]
  /\ step \in [Tests -> {"off", "discover", "connect", "wait", "passed", "failed"}]
  /\ link \in [Tests -> {"none", "asked", "acked", "open", "cut"}]
  /\ outbox \in [Tests -> Seq({"subscribe", "publish"})]
  /\ inbox \in [Tests -> Seq(Payloads)]
  /\ connected \in [Tests -> BOOLEAN] /\ heard \in [Tests -> BOOLEAN]
  /\ done \in [Tests -> BOOLEAN]
  /\ retained \in [Ids -> Payloads \cup {"none"}] /\ before \subseteq Ids
  /\ landed \in [Tests -> BOOLEAN] /\ trouble \in [Tests -> BOOLEAN]

\* The ids whose $state a test reads: what else is retained makes no difference.
Watched == {job[t].id : t \in {u \in Tests : job[u].kind = "loop"}}

\* Devices and tests of the days before may have left any $state: `ready`, which a
\* test expects, is a device's usual one.
Init ==
  /\ Svc!Init
  /\ job \in Plans
  /\ step = [t \in Tests |-> "off"]
  /\ link = [t \in Tests |-> "none"]
  /\ outbox = [t \in Tests |-> <<>>]
  /\ inbox = [t \in Tests |-> <<>>]
  /\ connected = [t \in Tests |-> FALSE]
  /\ heard = [t \in Tests |-> FALSE]
  /\ done = [t \in Tests |-> FALSE]
  /\ retained \in [Ids -> Payloads \cup {"none"}]
  /\ \A i \in Ids \ Watched : retained[i] = "none"
  /\ before = {i \in Ids : retained[i] = "expected"}
  /\ landed = [t \in Tests |-> FALSE]
  /\ trouble = [t \in Tests |-> ~MayPublish(t)]

-----------------------------------------------------------------------------
Goto(t, where) == step' = [step EXCEPT ![t] = where]

\* The verdict; nothing else remains of a test but what the broker did with it.
End(t, verdict) ==
  /\ Goto(t, verdict)
  /\ link' = [link EXCEPT ![t] = "none"]
  /\ outbox' = [outbox EXCEPT ![t] = <<>>]
  /\ inbox' = [inbox EXCEPT ![t] = <<>>]
  /\ connected' = [connected EXCEPT ![t] = FALSE]
  /\ heard' = [heard EXCEPT ![t] = FALSE]
  /\ done' = [done EXCEPT ![t] = FALSE]
  /\ trouble' = [trouble EXCEPT ![t] = FALSE]
  /\ UNCHANGED <<serviceVars, job, retained, before, landed>>

\* The connections in T are gone, and what had been sent to the broker with them.
Cut(T) ==
  /\ link' = [t \in Tests |-> IF t \in T THEN "cut" ELSE link[t]]
  /\ outbox' = [t \in Tests |-> IF t \in T THEN <<>> ELSE outbox[t]]
  /\ trouble' = [t \in Tests |-> t \in T \/ trouble[t]]

Linked == {t \in Tests : link[t] \in {"asked", "acked", "open"}}
Listening == \E r \in Runners : broker[r] = "listening"

-----------------------------------------------------------------------------
(* The main thread.                                                        *)

Start(t) ==
  /\ step[t] = "off"
  /\ Goto(t, IF job[t].kind = "loop" THEN "discover" ELSE "connect")
  /\ UNCHANGED <<serviceVars, job, link, outbox, inbox, results, retained, before, landed, trouble>>

\* Every record leads to the same host and port, one that was left behind too.
Discover(t) ==
  /\ step[t] = "discover"
  /\ \E r \in Runners : record[r] # "absent"
  /\ Goto(t, "connect")
  /\ UNCHANGED <<serviceVars, job, link, outbox, inbox, results, retained, before, landed, trouble>>

\* All the browses of discover_broker found nothing: "no broker discovered".
DiscoverNothing(t) ==
  /\ step[t] = "discover"
  /\ \A r \in Runners : record[r] = "absent"
  /\ End(t, "failed")

\* TCP, TLS and the CONNECT packet; the CONNACK is for paho's thread to see.
Connect(t) ==
  /\ step[t] = "connect"
  /\ Listening
  /\ Goto(t, "wait")
  /\ link' = [link EXCEPT ![t] = "asked"]
  /\ UNCHANGED <<serviceVars, job, outbox, inbox, results, retained, before, landed, trouble>>

\* Nobody listens, or a certificate does not fit: no wait, a failure at once.
ConnectFails(t) ==
  /\ step[t] = "connect"
  /\ End(t, "failed")

\* loop_stop, disconnect and the verdict, on what the callbacks have written.
Leave(t) == End(t, IF connected[t] /\ heard[t] THEN "passed" ELSE "failed")

\* done.wait returns: some time after the event is set, whatever came since.
Wake(t) == step[t] = "wait" /\ done[t] /\ Leave(t)

\* Mutant of TimesOut: done.wait() without the timeout.
NeverTimesOut(t) == FALSE /\ Leave(t)

TimesOut(t) == step[t] = "wait" /\ ~done[t] /\ Leave(t)

-----------------------------------------------------------------------------
(* Paho's thread, which runs while main waits.                             *)

\* Mutant of OnConnect: the publish goes out before the subscription.
OnConnectPublishFirst(t) ==
  /\ step[t] = "wait" /\ link[t] = "acked"
  /\ link' = [link EXCEPT ![t] = "open"]
  /\ connected' = [connected EXCEPT ![t] = TRUE]
  /\ outbox' = [outbox EXCEPT ![t] = <<"publish", "subscribe">>]
  /\ UNCHANGED <<serviceVars, job, step, inbox, heard, done, retained, before, landed, trouble>>

OnConnect(t) ==
  /\ step[t] = "wait" /\ link[t] = "acked"
  /\ link' = [link EXCEPT ![t] = "open"]
  /\ connected' = [connected EXCEPT ![t] = TRUE]
  /\ outbox' = [outbox EXCEPT ![t] = <<"subscribe", "publish">>]
  /\ UNCHANGED <<serviceVars, job, step, inbox, heard, done, retained, before, landed, trouble>>

\* on_connect with a reason code that is a failure.
OnRefusal(t) ==
  /\ step[t] = "wait" /\ link[t] = "asked"
  /\ Cut({t})
  /\ done' = [done EXCEPT ![t] = TRUE]
  /\ UNCHANGED <<serviceVars, job, step, inbox, connected, heard, retained, before, landed>>

\* Mutant of OnMessage: any message will do.
OnAnyMessage(t) ==
  /\ step[t] = "wait" /\ inbox[t] # <<>>
  /\ heard' = [heard EXCEPT ![t] = TRUE]
  /\ done' = [done EXCEPT ![t] = TRUE]
  /\ inbox' = [inbox EXCEPT ![t] = Tail(@)]
  /\ UNCHANGED <<serviceVars, job, step, link, outbox, connected, retained, before, landed, trouble>>

\* on_message overwrites the result with each message, also after the event is
\* set. A value that is not the expected one may be the last that main sees.
OnMessage(t) ==
  /\ step[t] = "wait" /\ inbox[t] # <<>>
  /\ heard' = [heard EXCEPT ![t] = Head(inbox[t]) = "expected"]
  /\ done' = [done EXCEPT ![t] = TRUE]
  /\ inbox' = [inbox EXCEPT ![t] = Tail(@)]
  /\ trouble' = [trouble EXCEPT ![t] = @ \/ Head(inbox[t]) # "expected"]
  /\ UNCHANGED <<serviceVars, job, step, link, outbox, connected, retained, before, landed>>

\* A connection that is lost is opened again, and on_connect starts over.
Reconnect(t) ==
  /\ step[t] = "wait" /\ link[t] = "cut"
  /\ Listening
  /\ link' = [link EXCEPT ![t] = "asked"]
  /\ inbox' = [inbox EXCEPT ![t] = <<>>]
  /\ UNCHANGED <<serviceVars, job, step, outbox, results, retained, before, landed, trouble>>

-----------------------------------------------------------------------------
(* The broker.                                                             *)

\* Another connection with the same client id is closed.
Accept(t) ==
  /\ link[t] = "asked"
  /\ LET taken == {u \in Linked \ {t} : link[u] # "asked" /\ job[u].id = job[t].id}
     IN /\ link' = [u \in Tests |-> IF u = t THEN "acked"
                                    ELSE IF u \in taken THEN "cut" ELSE link[u]]
        /\ outbox' = [u \in Tests |-> IF u \in taken THEN <<>> ELSE outbox[u]]
        /\ trouble' = [u \in Tests |-> u \in taken \/ trouble[u]]
  /\ UNCHANGED <<serviceVars, job, step, inbox, results, retained, before, landed>>

Request(t, what) == link[t] = "open" /\ outbox[t] # <<>> /\ Head(outbox[t]) = what

\* Mutant of Subscribe: answered whether or not anything is retained.
SubscribeAlwaysAnswered(t) ==
  /\ Request(t, "subscribe")
  /\ outbox' = [outbox EXCEPT ![t] = Tail(@)]
  /\ inbox' = [inbox EXCEPT ![t] = Append(@, retained[job[t].id])]
  /\ UNCHANGED <<serviceVars, job, step, link, results, retained, before, landed, trouble>>

\* A subscription is answered with what is retained.
Subscribe(t) ==
  /\ Request(t, "subscribe")
  /\ outbox' = [outbox EXCEPT ![t] = Tail(@)]
  /\ inbox' = [inbox EXCEPT ![t] =
       IF job[t].kind = "loop" /\ retained[job[t].id] # "none"
       THEN Append(@, retained[job[t].id]) ELSE @]
  /\ UNCHANGED <<serviceVars, job, step, link, results, retained, before, landed, trouble>>

Subscribed(u) == link[u] = "open" /\ "subscribe" \notin Range(outbox[u])

\* The publish of verify_loop is retained; a publish that the ACL denies vanishes.
Publish(t) ==
  /\ Request(t, "publish")
  /\ outbox' = [outbox EXCEPT ![t] = Tail(@)]
  /\ IF MayPublish(t)
     THEN /\ landed' = [landed EXCEPT ![t] = TRUE]
          /\ retained' = IF job[t].kind = "loop"
                         THEN [retained EXCEPT ![job[t].id] = "expected"] ELSE retained
          /\ inbox' = [u \in Tests |->
               IF (u = t /\ "subscribe" \notin Range(outbox[t]))
                    \/ (u # t /\ Subscribed(u) /\ Topic(u) = Topic(t))
               THEN Append(inbox[u], "expected") ELSE inbox[u]]
     ELSE UNCHANGED <<landed, retained, inbox>>
  /\ UNCHANGED <<serviceVars, job, step, link, results, before, trouble>>

\* A step of the runner or of its broker. A broker that ends cuts what is connected
\* to it, and may not have saved what it retains.
ServiceMoves ==
  /\ Svc!Next
  /\ IF Svc!Serving # {} /\ Svc!Serving' = {}
     THEN /\ Cut(Linked)
          /\ retained' \in {retained, [i \in Ids |-> "none"]}
     ELSE UNCHANGED <<link, outbox, trouble, retained>>
  /\ UNCHANGED <<job, step, inbox, results, before, landed>>

\* The next invocation of the runner, after one whose broker is gone.
Again(r) ==
  /\ phase[r] \in {"over", "abandoned"} /\ broker[r] \notin Svc!Alive
  /\ phase' = [phase EXCEPT ![r] = "idle"]
  /\ broker' = [broker EXCEPT ![r] = "none"]
  /\ UNCHANGED <<record, testVars>>

-----------------------------------------------------------------------------
Main(t) ==
  \/ Discover(t) \/ DiscoverNothing(t) \/ Connect(t) \/ ConnectFails(t)
  \/ Wake(t) \/ TimesOut(t)

Callbacks(t) == OnConnect(t) \/ OnRefusal(t) \/ OnMessage(t) \/ Reconnect(t)

Broker(t) == Accept(t) \/ Subscribe(t) \/ Publish(t)

Next ==
  \/ \E t \in Tests : Start(t) \/ Main(t) \/ Callbacks(t) \/ Broker(t)
  \/ ServiceMoves
  \/ \E r \in Runners : Again(r)

Spec == Init /\ [][Next]_vars

\* A test that runs goes on.
FairSpec == Spec /\ \A t \in Tests : WF_vars(Main(t))

-----------------------------------------------------------------------------
(* Properties.                                                             *)

\* What a test reads back was published by a test, and accepted by the broker, or
\* was there before all of them.
Made(t) ==
  \/ \E u \in Tests : Topic(u) = Topic(t) /\ landed[u]
  \/ job[t].kind = "loop" /\ job[t].id \in before

\* A self-test passes on the payload it expects and on no other: some test's
\* publish to its topic was accepted, or the $state was `ready` all along
\* (verify_loop.py:71, verify_handshake.py:62-65).
RoundTripWasMade == \A t \in Tests : step[t] = "passed" => Made(t)

\* "publish a retained Homie `$state` and read it back, confirming the round trip"
\* (verify_loop.py:11-12): a pass means that its own publish was accepted.
PassMeansOwnPublish == \A t \in Tests : step[t] = "passed" => landed[t]

\* No false alarm: while nothing has gone wrong for a connected test its answer is
\* there or on its way, and once main is woken it passes. (on_connect, on_message
\* and the verdict run in two threads.)
AnswerIsOnItsWay ==
  \A t \in Tests : ~trouble[t] =>
    /\ step[t] = "wait" /\ link[t] = "open" =>
         heard[t] \/ "expected" \in Range(inbox[t]) \/ "publish" \in Range(outbox[t])
    /\ done[t] => connected[t] /\ heard[t]

\* A self-test that is started ends, whatever the broker does (FairSpec).
EveryTestEnds ==
  \A t \in Tests : step[t] # "off" ~> step[t] \in {"passed", "failed"}
=============================================================================
