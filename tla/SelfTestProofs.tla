--------------------------- MODULE SelfTestProofs ---------------------------
(***************************************************************************)
(* Theorems of SelfTest, for every set of tests, ids and runners.          *)
(***************************************************************************)
EXTENDS SelfTest, Integers, TLAPS

\* What a queue holds after one of its operations.
LEMMA QueueFacts ==
  ASSUME NEW S, NEW s \in Seq(S)
  PROVE  /\ \A x \in S : Append(s, x) \in Seq(S) /\ Range(Append(s, x)) = Range(s) \cup {x}
         /\ s # <<>> => /\ Tail(s) \in Seq(S) /\ Head(s) \in S
                        /\ Range(s) = {Head(s)} \cup Range(Tail(s))
<1>1. ASSUME NEW x \in S PROVE Range(Append(s, x)) = Range(s) \cup {x}
  <2>1. \A i \in 1..Len(s) : Append(s, x)[i] = s[i]
    OBVIOUS
  <2>2. Append(s, x)[Len(s) + 1] = x /\ DOMAIN Append(s, x) = 1..(Len(s) + 1)
    OBVIOUS
  <2> QED BY <2>1, <2>2 DEF Range
<1>2. ASSUME s # <<>> PROVE Range(s) = {Head(s)} \cup Range(Tail(s))
  <2>1. DOMAIN Tail(s) = 1..(Len(s) - 1) /\ \A i \in 1..(Len(s) - 1) : Tail(s)[i] = s[i + 1]
    BY <1>2
  <2>2. DOMAIN s = 1..Len(s) /\ Len(s) \in Nat \ {0} /\ Head(s) = s[1]
    BY <1>2
  <2>3. \A i \in 1..Len(s) : i = 1 \/ i - 1 \in 1..(Len(s) - 1)
    BY <2>2
  <2>4. \A i \in 1..(Len(s) - 1) : i + 1 \in 1..Len(s)
    BY <2>2
  <2>5. Range(s) \subseteq {Head(s)} \cup Range(Tail(s))
    <3> SUFFICES ASSUME NEW y \in Range(s) PROVE y \in {Head(s)} \cup Range(Tail(s))
      OBVIOUS
    <3>1. PICK i \in 1..Len(s) : y = s[i]
      BY <2>2 DEF Range
    <3>2. CASE i = 1
      BY <3>1, <3>2, <2>2
    <3>3. CASE i # 1
      <4>1. i - 1 \in 1..(Len(s) - 1) /\ Tail(s)[i - 1] = s[i]
        BY <3>3, <2>1, <2>2, <2>3
      <4> QED BY <4>1, <3>1, <2>1 DEF Range
    <3> QED BY <3>2, <3>3
  <2>6. {Head(s)} \cup Range(Tail(s)) \subseteq Range(s)
    BY <2>1, <2>2, <2>4 DEF Range
  <2> QED BY <2>5, <2>6
<1>3. \A x \in S : Append(s, x) \in Seq(S)
  OBVIOUS
<1>4. s # <<>> => Tail(s) \in Seq(S) /\ Head(s) \in S
  OBVIOUS
<1> QED BY <1>1, <1>2, <1>3, <1>4

-----------------------------------------------------------------------------
\* A step of the runner keeps the types of the runner.
LEMMA ServiceTyped == Svc!TypeOK /\ Svc!Next => Svc!TypeOK'
<1> USE DEF Svc!TypeOK, Svc!Alive
<1> SUFFICES ASSUME Svc!TypeOK, NEW r \in Runners,
       \/ Svc!Launch(r) \/ Svc!Listen(r) \/ Svc!Publish(r) \/ Svc!Close(r) \/ Svc!Stop(r)
       \/ Svc!End(r) \/ Svc!Finish(r) \/ Svc!Abandon(r) \/ Svc!Expire(r)
     PROVE Svc!TypeOK'
  BY DEF Svc!Next
<1> QED
  BY DEF Svc!Launch, Svc!Listen, Svc!Publish, Svc!Close, Svc!Stop, Svc!End, Svc!Finish,
         Svc!Abandon, Svc!Expire

\* So does a cut of what belongs to the connections.
LEMMA CutTyped ==
  ASSUME TypeOK, NEW T \in SUBSET Tests, Cut(T)
  PROVE  /\ link' \in [Tests -> {"none", "asked", "acked", "open", "cut"}]
         /\ outbox' \in [Tests -> Seq({"subscribe", "publish"})]
         /\ trouble' \in [Tests -> BOOLEAN]
<1>1. <<>> \in Seq({"subscribe", "publish"})
  OBVIOUS
<1> QED BY <1>1 DEF TypeOK, Cut

\* Every variable keeps its type: a queue holds requests or payloads, a broker
\* retains a payload or nothing.
THEOREM TypeCorrect == Spec => []TypeOK
<1>1. Init => TypeOK
  <2>1. Svc!Init => Svc!TypeOK
    BY DEF Svc!Init, Svc!TypeOK
  <2> QED BY <2>1, PlansAssumption DEF Init, TypeOK, Payloads
<1>2. TypeOK /\ [Next]_vars => TypeOK'
  <2> SUFFICES ASSUME TypeOK, [Next]_vars PROVE TypeOK'
    OBVIOUS
  <2> USE DEF TypeOK, serviceVars, results, testVars, Goto, End, Cut, Payloads
  <2>0. UNCHANGED serviceVars => Svc!TypeOK'
    BY DEF Svc!TypeOK
  <2>1. ASSUME NEW t \in Tests, Start(t) \/ Main(t) PROVE TypeOK'
    <3>1. CASE Start(t) \/ Discover(t) \/ Connect(t)
      BY <2>0, <3>1 DEF Start, Discover, Connect
    <3>2. ASSUME NEW verdict \in {"passed", "failed"}, End(t, verdict) PROVE TypeOK'
      BY <2>0, <3>2
    <3>3. CASE DiscoverNothing(t) \/ ConnectFails(t) \/ Wake(t) \/ TimesOut(t)
      BY <3>2, <3>3 DEF DiscoverNothing, ConnectFails, Wake, TimesOut, Leave
    <3> QED BY <2>1, <3>1, <3>3 DEF Main
  <2>2. ASSUME NEW t \in Tests, OnMessage(t) PROVE TypeOK'
    <3>1. Tail(inbox[t]) \in Seq(Payloads)
      BY <2>2 DEF OnMessage
    <3> QED BY <2>0, <2>2, <3>1 DEF OnMessage
  <2>3. ASSUME NEW t \in Tests, Callbacks(t) PROVE TypeOK'
    <3>1. CASE OnConnect(t)
      BY <2>0, <3>1 DEF OnConnect
    <3>2. CASE OnRefusal(t)
      BY <2>0, <3>2, CutTyped DEF OnRefusal
    <3>3. CASE Reconnect(t)
      BY <2>0, <3>3 DEF Reconnect
    <3> QED BY <2>2, <2>3, <3>1, <3>2, <3>3 DEF Callbacks
  <2>4. ASSUME NEW t \in Tests, Accept(t) PROVE TypeOK'
    BY <2>0, <2>4 DEF Accept, Linked
  <2>5. ASSUME NEW t \in Tests, Subscribe(t) PROVE TypeOK'
    <3>1. Tail(outbox[t]) \in Seq({"subscribe", "publish"})
      BY <2>5 DEF Subscribe, Request
    <3>2. job[t].id \in Ids
      BY DEF Jobs
    <3>3. retained[job[t].id] # "none" => Append(inbox[t], retained[job[t].id]) \in Seq(Payloads)
      BY <3>2
    <3> QED BY <2>0, <2>5, <3>1, <3>3 DEF Subscribe
  <2>6. ASSUME NEW t \in Tests, Publish(t) PROVE TypeOK'
    <3>1. Tail(outbox[t]) \in Seq({"subscribe", "publish"})
      BY <2>6 DEF Publish, Request
    <3>2. \A u \in Tests : Append(inbox[u], "expected") \in Seq(Payloads)
      OBVIOUS
    <3>3. inbox' \in [Tests -> Seq(Payloads)]
      <4>1. CASE MayPublish(t)
        <5> DEFINE Gets(u) == \/ u = t /\ "subscribe" \notin Range(outbox[t])
                              \/ u # t /\ Subscribed(u) /\ Topic(u) = Topic(t)
        <5>1. inbox' = [u \in Tests |-> IF Gets(u) THEN Append(inbox[u], "expected") ELSE inbox[u]]
          BY <2>6, <4>1 DEF Publish
        <5> HIDE DEF Gets
        <5> QED BY <5>1, <3>2
      <4> QED BY <2>6, <4>1 DEF Publish
    <3>4. job[t].id \in Ids
      BY DEF Jobs
    <3>5. retained' \in [Ids -> Payloads \cup {"none"}] /\ landed' \in [Tests -> BOOLEAN]
      BY <2>6, <3>4 DEF Publish
    <3> QED BY <2>0, <2>6, <3>1, <3>3, <3>5 DEF Publish
  <2>7. ASSUME ServiceMoves PROVE TypeOK'
    <3>1. Svc!TypeOK'
      BY <2>7, ServiceTyped DEF ServiceMoves
    <3>2. retained' \in [Ids -> Payloads \cup {"none"}]
      BY <2>7 DEF ServiceMoves
    <3>3. CASE Cut(Linked)
      BY <2>7, <3>1, <3>2, <3>3, CutTyped DEF ServiceMoves, Linked
    <3>4. CASE UNCHANGED <<link, outbox, trouble>>
      BY <2>7, <3>1, <3>2, <3>4 DEF ServiceMoves
    <3> QED BY <2>7, <3>3, <3>4 DEF ServiceMoves
  <2>8. ASSUME NEW r \in Runners, Again(r) PROVE TypeOK'
    BY <2>8 DEF Again, Svc!TypeOK
  <2>9. CASE UNCHANGED vars
    BY <2>0, <2>9 DEF vars
  <2> QED
    BY <2>1, <2>3, <2>4, <2>5, <2>6, <2>7, <2>8, <2>9 DEF Next, Broker
<1> QED BY <1>1, <1>2, PTL DEF Spec

-----------------------------------------------------------------------------
(* What a test has heard, and what is on its way to it, somebody published. *)

HeardWasMade(t) ==
  heard[t] \/ "expected" \in Range(inbox[t]) \/ step[t] = "passed" => Made(t)

RetainedWasMade(t) ==
  job[t].kind = "loop" /\ retained[job[t].id] = "expected" => Made(t)

MadeInv == \A t \in Tests : HeardWasMade(t) /\ RetainedWasMade(t)


\* What was made once stays made, so it is enough to look at what a step adds.
LEMMA MadeStays ==
  ASSUME UNCHANGED <<job, before>>, \A u \in Tests : landed[u] => landed'[u],
         NEW t \in Tests, Made(t)
  PROVE  Made(t)'
BY DEF Made, Topic

\* A step that loses no publication and lets nothing be heard unpublished keeps the invariant.
LEMMA MadeKept ==
  ASSUME UNCHANGED <<job, before>>, \A u \in Tests : landed[u] => landed'[u],
         \A t \in Tests : heard'[t] \/ "expected" \in Range(inbox'[t]) \/ step'[t] = "passed"
                            => Made(t) \/ Made(t)',
         \A t \in Tests : job[t].kind = "loop" /\ retained'[job[t].id] = "expected"
                            => Made(t) \/ Made(t)'
  PROVE  MadeInv'
<1>1. \A t \in Tests : Made(t) => Made(t)'
  BY MadeStays
<1> QED BY <1>1 DEF MadeInv, HeardWasMade, RetainedWasMade

\* Every step preserves it: a test hears what is in its queue, its queue takes what
\* is retained or published, and what is retained was published or there before.
LEMMA MadeInvHolds == TypeOK /\ MadeInv /\ [Next]_vars => MadeInv'
<1> SUFFICES ASSUME TypeOK, MadeInv, [Next]_vars PROVE MadeInv'
  OBVIOUS
<1> USE DEF TypeOK, serviceVars, results, testVars, Goto
<1> DEFINE Heard(t) == heard[t] \/ "expected" \in Range(inbox[t]) \/ step[t] = "passed"
           Kept(t) == job[t].kind = "loop" /\ retained[job[t].id] = "expected"
<1>0. \A t \in Tests : (Heard(t) => Made(t)) /\ (Kept(t) => Made(t))
  BY DEF MadeInv, HeardWasMade, RetainedWasMade
<1>a. "expected" \notin Range(<<>>)
  BY DEF Range
<1>1. ASSUME NEW t \in Tests, Start(t) \/ Discover(t) \/ Connect(t) PROVE MadeInv'
  BY <1>0, <1>1, MadeKept DEF Start, Discover, Connect
<1>2. ASSUME NEW t \in Tests, NEW verdict \in {"passed", "failed"}, End(t, verdict),
             verdict = "passed" => heard[t]
      PROVE  MadeInv'
  BY <1>0, <1>2, <1>a, MadeKept DEF End
<1>3. ASSUME NEW t \in Tests, Main(t) PROVE MadeInv'
  BY <1>1, <1>2, <1>3 DEF Main, DiscoverNothing, ConnectFails, Wake, TimesOut, Leave
<1>4. ASSUME NEW t \in Tests, OnConnect(t) \/ OnRefusal(t) PROVE MadeInv'
  BY <1>0, <1>4, MadeKept DEF OnConnect, OnRefusal
<1>5. ASSUME NEW t \in Tests, OnMessage(t) PROVE MadeInv'
  <2>1. Range(inbox[t]) = {Head(inbox[t])} \cup Range(Tail(inbox[t]))
    BY <1>5, QueueFacts DEF OnMessage
  <2> QED BY <1>0, <1>5, <2>1, MadeKept DEF OnMessage
<1>6. ASSUME NEW t \in Tests, Reconnect(t) PROVE MadeInv'
  BY <1>0, <1>6, <1>a, MadeKept DEF Reconnect
<1>7. ASSUME NEW t \in Tests, Accept(t) PROVE MadeInv'
  BY <1>0, <1>7, MadeKept DEF Accept
<1>8. ASSUME NEW t \in Tests, Subscribe(t) PROVE MadeInv'
  <2>1. job[t].id \in Ids
    BY DEF Jobs
  <2>2. CASE job[t].kind = "loop" /\ retained[job[t].id] # "none"
    <3>1. Range(Append(inbox[t], retained[job[t].id])) = Range(inbox[t]) \cup {retained[job[t].id]}
      BY <2>1, <2>2, QueueFacts
    <3> QED BY <1>0, <1>8, <2>2, <3>1, MadeKept DEF Subscribe
  <2>3. CASE ~(job[t].kind = "loop" /\ retained[job[t].id] # "none")
    BY <1>0, <1>8, <2>3, MadeKept DEF Subscribe
  <2> QED BY <2>2, <2>3
<1>9. ASSUME NEW t \in Tests, Publish(t) PROVE MadeInv'
  <2>1. CASE ~MayPublish(t)
    BY <1>0, <1>9, <2>1, MadeKept DEF Publish
  <2>2. CASE MayPublish(t)
    <3>1. landed' = [landed EXCEPT ![t] = TRUE] /\ UNCHANGED <<job, before, heard, step>>
      BY <1>9, <2>2 DEF Publish
    <3>2. \A u \in Tests : Topic(u) = Topic(t) => Made(u)'
      BY <3>1 DEF Made, Topic
    <3>3. ASSUME NEW u \in Tests, job[u].kind = "loop", retained'[job[u].id] = "expected",
                 retained[job[u].id] # "expected"
          PROVE  Topic(u) = Topic(t)
      <4>1. job[t].kind = "loop" /\ job[u].id = job[t].id
        BY <1>9, <2>2, <3>3 DEF Publish, Jobs
      <4>2. \A v \in Tests : job[v] = [kind |-> job[v].kind, id |-> job[v].id]
        BY DEF Jobs
      <4>3. job[u] = job[t]
        BY <4>1, <4>2, <3>3
      <4> QED BY <4>3 DEF Topic
    <3>4. ASSUME NEW u \in Tests, "expected" \in Range(inbox'[u]), "expected" \notin Range(inbox[u])
          PROVE  Topic(u) = Topic(t)
      BY <1>9, <2>2, <3>4 DEF Publish
    <3> QED BY <1>0, <3>1, <3>2, <3>3, <3>4, MadeKept
  <2> QED BY <2>1, <2>2
<1>10. ASSUME ServiceMoves PROVE MadeInv'
  BY <1>0, <1>10, MadeKept DEF ServiceMoves, Jobs
<1>11. ASSUME NEW r \in Runners, Again(r) PROVE MadeInv'
  BY <1>0, <1>11, MadeKept DEF Again
<1>12. CASE UNCHANGED vars
  BY <1>0, <1>12, MadeKept DEF vars
<1> QED
  BY <1>1, <1>3, <1>4, <1>5, <1>6, <1>7, <1>8, <1>9, <1>10, <1>11, <1>12
  DEF Next, Callbacks, Broker

\* A self-test that passes was answered by a publish that the broker accepted, or
\* by what was there before all tests (verify_loop.py publish_and_readback,
\* verify_handshake.py verify).
THEOREM RoundTrip == Spec => []RoundTripWasMade
<1>1. Init => MadeInv
  <2> SUFFICES ASSUME Init, NEW t \in Tests PROVE HeardWasMade(t) /\ RetainedWasMade(t)
    BY DEF MadeInv
  <2>1. job[t].id \in Ids
    BY PlansAssumption DEF Init, Jobs
  <2>2. retained[job[t].id] = "expected" => job[t].id \in before
    BY <2>1 DEF Init
  <2>3. ~heard[t] /\ "expected" \notin Range(inbox[t]) /\ step[t] # "passed"
    BY DEF Init, Range
  <2> QED BY <2>2, <2>3 DEF HeardWasMade, RetainedWasMade, Made
<1>2. MadeInv => RoundTripWasMade
  BY DEF MadeInv, HeardWasMade, RoundTripWasMade
<1> QED BY <1>1, <1>2, MadeInvHolds, TypeCorrect, PTL DEF Spec

-----------------------------------------------------------------------------
(* How far a test is that nothing has gone wrong for.                       *)

OnCourse(t) == ~trouble[t] =>
  /\ link[t] # "cut" /\ (step[t] # "wait" => link[t] = "none")
  /\ link[t] # "open" => ~done[t] /\ ~heard[t] /\ inbox[t] = <<>>
  /\ link[t] = "open" =>
       /\ connected[t]
       /\ outbox[t] \in {<<"subscribe", "publish">>, <<"publish">>, <<>>}
       /\ heard[t] \/ "expected" \in Range(inbox[t]) \/ outbox[t] # <<>>
       /\ done[t] => heard[t]
  /\ step[t] \notin {"passed", "failed"} => MayPublish(t)

OnCourseInv == \A t \in Tests : OnCourse(t)

\* A test that a step leaves alone, or finds in trouble, stays on course.
LEMMA OnCourseKept ==
  ASSUME NEW t \in Tests, OnCourse(t), job' = job,
         trouble'[t] \/ ( /\ trouble'[t] = trouble[t] /\ link'[t] = link[t] /\ step'[t] = step[t]
                          /\ outbox'[t] = outbox[t] /\ inbox'[t] = inbox[t] /\ done'[t] = done[t]
                          /\ heard'[t] = heard[t] /\ connected'[t] = connected[t] )
  PROVE  OnCourse(t)'
<1>1. MayPublish(t)' = MayPublish(t)
  BY DEF MayPublish
<1> QED BY <1>1 DEF OnCourse

\* Every step keeps a test on course: the subscription is processed before the
\* publish, the publish puts the answer in the queue, the answer sets the result.
LEMMA OnCourseInvHolds == TypeOK /\ OnCourseInv /\ [Next]_vars => OnCourseInv'
<1> SUFFICES ASSUME TypeOK, OnCourseInv, [Next]_vars PROVE OnCourseInv'
  OBVIOUS
<1> USE DEF TypeOK, serviceVars, results, testVars, Goto
<1>0. \A t \in Tests : OnCourse(t)
  BY DEF OnCourseInv
<1>a. /\ Head(<<"subscribe", "publish">>) = "subscribe" /\ Head(<<"publish">>) = "publish"
      /\ Tail(<<"subscribe", "publish">>) = <<"publish">>
  OBVIOUS
<1>b. \A t \in Tests : Range(Append(inbox[t], "expected")) = Range(inbox[t]) \cup {"expected"}
  <2> SUFFICES ASSUME NEW t \in Tests
               PROVE  Range(Append(inbox[t], "expected")) = Range(inbox[t]) \cup {"expected"}
    OBVIOUS
  <2>1. inbox[t] \in Seq(Payloads) /\ "expected" \in Payloads
    BY DEF Payloads
  <2> QED BY <2>1, QueueFacts
<1>1. ASSUME NEW t \in Tests, Start(t) \/ Discover(t) \/ Connect(t) PROVE OnCourseInv'
  <2>1. OnCourse(t)'
    <3>1. MayPublish(t)' = MayPublish(t)
      BY <1>1 DEF MayPublish, Start, Discover, Connect
    <3>2. OnCourse(t) /\ step[t] \notin {"wait", "passed", "failed"}
      BY <1>0, <1>1 DEF Start, Discover, Connect
    <3>3. CASE Start(t)
      BY <3>1, <3>2, <3>3 DEF Start, OnCourse
    <3>4. CASE Discover(t)
      BY <3>1, <3>2, <3>4 DEF Discover, OnCourse
    <3>5. CASE Connect(t)
      BY <3>1, <3>2, <3>5 DEF Connect, OnCourse
    <3> QED BY <1>1, <3>3, <3>4, <3>5
  <2> QED BY <1>0, <1>1, <2>1, OnCourseKept DEF Start, Discover, Connect, OnCourseInv
<1>2. ASSUME NEW t \in Tests, NEW verdict \in {"passed", "failed"}, End(t, verdict)
      PROVE  OnCourseInv'
  <2>1. OnCourse(t)'
    BY <1>2 DEF End, OnCourse
  <2> QED BY <1>0, <1>2, <2>1, OnCourseKept DEF End, OnCourseInv
<1>3. ASSUME NEW t \in Tests, Main(t) PROVE OnCourseInv'
  BY <1>1, <1>2, <1>3 DEF Main, DiscoverNothing, ConnectFails, Wake, TimesOut, Leave
<1>4. ASSUME NEW t \in Tests, OnConnect(t) PROVE OnCourseInv'
  <2>1. OnCourse(t)'
    <3>1. MayPublish(t)' = MayPublish(t)
      BY <1>4 DEF MayPublish, OnConnect
    <3>2. <<"subscribe", "publish">> # <<>>
      OBVIOUS
    <3> QED BY <1>0, <1>4, <3>1, <3>2 DEF OnConnect, OnCourse
  <2> QED BY <1>0, <1>4, <2>1, OnCourseKept DEF OnConnect, OnCourseInv
<1>5. ASSUME NEW t \in Tests, OnRefusal(t) PROVE OnCourseInv'
  BY <1>0, <1>5, OnCourseKept DEF OnRefusal, Cut, OnCourseInv
<1>6. ASSUME NEW t \in Tests, OnMessage(t) PROVE OnCourseInv'
  <2>1. Range(inbox[t]) = {Head(inbox[t])} \cup Range(Tail(inbox[t]))
    BY <1>6, QueueFacts DEF OnMessage
  <2>2. OnCourse(t)'
    <3>1. MayPublish(t)' = MayPublish(t)
      BY <1>6 DEF MayPublish, OnMessage
    <3>2. CASE Head(inbox[t]) = "expected" /\ ~trouble[t]
      BY <1>0, <1>6, <3>1, <3>2 DEF OnMessage, OnCourse
    <3>3. CASE Head(inbox[t]) # "expected" \/ trouble[t]
      BY <1>6, <3>3 DEF OnMessage, OnCourse
    <3> QED BY <3>2, <3>3
  <2> QED BY <1>0, <1>6, <2>2, OnCourseKept DEF OnMessage, OnCourseInv
<1>7. ASSUME NEW t \in Tests, Reconnect(t) PROVE OnCourseInv'
  <2>1. trouble[t]
    BY <1>0, <1>7 DEF Reconnect, OnCourse
  <2> QED BY <1>0, <1>7, <2>1, OnCourseKept DEF Reconnect, OnCourseInv
<1>8. ASSUME NEW t \in Tests, Accept(t) PROVE OnCourseInv'
  <2>1. OnCourse(t)'
    <3>1. MayPublish(t)' = MayPublish(t)
      BY <1>8 DEF MayPublish, Accept
    <3>2. link[t] = "asked" /\ link'[t] = "acked" /\ trouble'[t] = trouble[t]
      BY <1>8 DEF Accept
    <3> QED BY <1>0, <1>8, <3>1, <3>2 DEF Accept, OnCourse
  <2> QED BY <1>0, <1>8, <2>1, OnCourseKept DEF Accept, OnCourseInv
<1>9. ASSUME NEW t \in Tests, Subscribe(t) PROVE OnCourseInv'
  <2>1. OnCourse(t)'
    <3>1. MayPublish(t)' = MayPublish(t)
      BY <1>9 DEF MayPublish, Subscribe
    <3>2. ~trouble[t] => outbox[t] = <<"subscribe", "publish">> /\ Tail(outbox[t]) = <<"publish">>
      BY <1>0, <1>9, <1>a DEF Subscribe, Request, OnCourse
    <3>3. /\ link[t] = "open" /\ outbox'[t] = Tail(outbox[t])
          /\ UNCHANGED <<link, trouble, step, connected, heard, done>>
      BY <1>9 DEF Subscribe, Request
    <3>4. <<"publish">> # <<>>
      OBVIOUS
    <3>5. CASE ~trouble[t]
      <4>1. outbox'[t] = <<"publish">>
        BY <3>2, <3>3, <3>5
      <4> QED BY <1>0, <3>1, <3>3, <3>4, <3>5, <4>1 DEF OnCourse
    <3> QED BY <3>3, <3>5 DEF OnCourse
  <2> QED BY <1>0, <1>9, <2>1, OnCourseKept DEF Subscribe, OnCourseInv
<1>10. ASSUME NEW t \in Tests, Publish(t) PROVE OnCourseInv'
  <2>1. OnCourse(t)'
    <3>1. MayPublish(t)' = MayPublish(t)
      BY <1>10 DEF MayPublish, Publish
    <3>2. SUFFICES ASSUME ~trouble[t] PROVE OnCourse(t)'
      BY <1>10 DEF Publish, OnCourse
    <3>3. outbox[t] = <<"publish">> /\ link[t] = "open" /\ MayPublish(t)
      BY <1>0, <1>10, <1>a, <3>2 DEF Publish, Request, OnCourse
    <3>4. "subscribe" \notin Range(outbox[t])
      BY <3>3 DEF Range
    <3>5. inbox'[t] = Append(inbox[t], "expected")
      BY <1>10, <3>3, <3>4 DEF Publish
    <3>6. "expected" \in Range(inbox'[t])
      BY <3>5, <1>b
    <3> QED BY <1>0, <1>10, <3>1, <3>3, <3>6 DEF Publish, Request, OnCourse
  <2>2. ASSUME NEW u \in Tests, u # t PROVE OnCourse(u)'
    <3>1. CASE inbox'[u] = inbox[u]
      BY <1>0, <1>10, <2>2, <3>1, OnCourseKept DEF Publish
    <3>2. CASE inbox'[u] # inbox[u]
      <4>1. link[u] = "open" /\ inbox'[u] = Append(inbox[u], "expected")
        BY <1>10, <2>2, <3>2 DEF Publish, Subscribed
      <4>2. "expected" \in Range(inbox'[u])
        BY <4>1, <1>b
      <4>3. MayPublish(u)' = MayPublish(u)
        BY <1>10 DEF MayPublish, Publish
      <4> QED BY <1>0, <1>10, <2>2, <4>1, <4>2, <4>3 DEF Publish, OnCourse
    <3> QED BY <3>1, <3>2
  <2> QED BY <2>1, <2>2 DEF OnCourseInv
<1>11. ASSUME ServiceMoves PROVE OnCourseInv'
  <2>1. ASSUME NEW t \in Tests PROVE OnCourse(t)'
    <3>1. CASE Cut(Linked) /\ t \in Linked
      BY <1>0, <1>11, <3>1, OnCourseKept DEF ServiceMoves, Cut
    <3>2. CASE Cut(Linked) /\ t \notin Linked
      BY <1>0, <1>11, <3>2, OnCourseKept DEF ServiceMoves, Cut
    <3>3. CASE UNCHANGED <<link, outbox, trouble>>
      BY <1>0, <1>11, <3>3, OnCourseKept DEF ServiceMoves
    <3> QED BY <1>11, <3>1, <3>2, <3>3 DEF ServiceMoves
  <2> QED BY <2>1 DEF OnCourseInv
<1>12. ASSUME NEW r \in Runners, Again(r) PROVE OnCourseInv'
  BY <1>0, <1>12, OnCourseKept DEF Again, OnCourseInv
<1>13. CASE UNCHANGED vars
  BY <1>0, <1>13, OnCourseKept DEF vars, OnCourseInv
<1> QED
  BY <1>1, <1>3, <1>4, <1>5, <1>6, <1>7, <1>8, <1>9, <1>10, <1>11, <1>12, <1>13
  DEF Next, Callbacks, Broker

\* No false alarm: a test that nothing has gone wrong for has its answer or will
\* get it (verify_loop.py on_connect and on_message, and their like).
THEOREM NoFalseAlarm == Spec => []AnswerIsOnItsWay
<1>1. Init => OnCourseInv
  <2> SUFFICES ASSUME Init, NEW t \in Tests PROVE OnCourse(t)
    BY DEF OnCourseInv
  <2> QED BY DEF Init, OnCourse
<1>2. OnCourseInv => AnswerIsOnItsWay
  <2>1. "publish" \in Range(<<"publish">>) /\ "publish" \in Range(<<"subscribe", "publish">>)
    <3>1. DOMAIN <<"publish">> = 1..1 /\ <<"publish">>[1] = "publish"
      OBVIOUS
    <3>2. DOMAIN <<"subscribe", "publish">> = 1..2 /\ <<"subscribe", "publish">>[2] = "publish"
      OBVIOUS
    <3> QED BY <3>1, <3>2 DEF Range
  <2> QED BY <2>1 DEF OnCourseInv, OnCourse, AnswerIsOnItsWay
<1> QED BY <1>1, <1>2, OnCourseInvHolds, TypeCorrect, PTL DEF Spec
=============================================================================
