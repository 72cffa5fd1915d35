--------------------------- MODULE BringUpProofs ---------------------------
(***************************************************************************)
(* Theorems of BringUp, for every set of invocations and options.          *)
(***************************************************************************)
EXTENDS BringUp, TLAPS

\* A step is one of the actions.
LEMMA Cases ==
  ASSUME [Next]_vars, NEW P,
         \A p \in Invocations : Start(p) \/ CheckCa(p) \/ Download(p) => P,
         \A p \in Invocations : OpenCa(p) \/ WriteCa(p) \/ Find(p) => P,
         \A p \in Invocations : OpenConf(p) \/ WriteConf(p) \/ Chmod(p) => P,
         \A p \in Invocations : Launch(p) \/ Advertise(p) \/ Stop(p) \/ Interrupt(p) => P,
         \A p \in Invocations : Load(p) \/ EndsStarting(p) => P,
         Age \/ PanelRenews => P,
         UNCHANGED vars => P
  PROVE  P
BY DEF Next, Step

\* Who has downloaded: nobody before the request, whoever writes what came.
AnswerFits ==
  \A p \in Invocations :
    /\ pc[p] \in {"off", "check", "download"} => answer[p] = "none"
    /\ pc[p] \in {"open_ca", "write_ca"} => answer[p] # "none"

\* What has been downloaded only ages.
LEMMA AnswersStay ==
  ASSUME TypeOK, AnswerFits, [Next]_vars, NEW q \in Invocations
  PROVE  /\ answer[q] # "none" => answer'[q] # "none"
         /\ answer[q] = "broken" => answer'[q] = "broken"
         /\ answer[q] \in {"near", "lapsed"} => answer'[q] \in {"near", "lapsed"}
<1>1. ASSUME NEW p \in Invocations, Download(p)
      PROVE  answer'[q] = answer[q] \/ (q = p /\ answer[q] = "none")
  BY <1>1 DEF Download, TypeOK, AnswerFits
<1>2. ASSUME NEW p \in Invocations, Step(p), ~Download(p) PROVE answer' = answer
  BY <1>2 DEF Step, Start, CheckCa, OpenCa, WriteCa, Find, OpenConf, WriteConf, Chmod, Launch,
     Advertise, Stop, Interrupt, Load, EndsStarting, downloads
<1>3. ASSUME Age PROVE answer'[q] \in {answer[q], Older(answer[q])}
  BY <1>3 DEF Age
<1>4. PanelRenews \/ UNCHANGED vars => answer' = answer
  BY DEF PanelRenews, vars, downloads
<1> QED BY <1>1, <1>2, <1>3, <1>4 DEF Next, Older

\* Every step keeps who has downloaded.
LEMMA AnswerFitsKept == TypeOK /\ AnswerFits /\ [Next]_vars => AnswerFits'
<1> SUFFICES ASSUME TypeOK, AnswerFits, [Next]_vars PROVE AnswerFits'
  OBVIOUS
<1>1. \A q \in Invocations : answer[q] # "none" => answer'[q] # "none"
  BY AnswersStay
<1> USE DEF TypeOK, AnswerFits, Goto, files, histories, downloads
<1>2. ASSUME NEW p \in Invocations, Start(p) \/ CheckCa(p) PROVE AnswerFits'
  BY <1>2 DEF Start, CheckCa, AfterCheck, BridgeMade
<1>3. ASSUME NEW p \in Invocations, Download(p) PROVE AnswerFits'
  BY <1>3 DEF Download, Ages
<1>4. ASSUME NEW p \in Invocations, OpenCa(p) \/ WriteCa(p) \/ Find(p) PROVE AnswerFits'
  BY <1>4 DEF OpenCa, WriteCa, BridgeMade, Find
<1>5. ASSUME NEW p \in Invocations, OpenConf(p) \/ WriteConf(p) \/ Chmod(p) PROVE AnswerFits'
  BY <1>5 DEF OpenConf, WriteConf, Chmod, Prepared
<1>6. ASSUME NEW p \in Invocations, Launch(p) \/ Advertise(p) \/ Stop(p) \/ Interrupt(p)
      PROVE  AnswerFits'
  BY <1>6 DEF Launch, Advertise, Stop, Interrupt
<1>7. ASSUME NEW p \in Invocations, Load(p) \/ EndsStarting(p) PROVE AnswerFits'
  BY <1>7 DEF Load, EndsStarting
<1>8. ASSUME Age \/ PanelRenews PROVE AnswerFits'
  BY <1>1, <1>8 DEF Age, PanelRenews
<1>9. ASSUME UNCHANGED vars PROVE AnswerFits'
  BY <1>9 DEF vars
<1> QED BY <1>2, <1>3, <1>4, <1>5, <1>6, <1>7, <1>8, <1>9, Cases

\* Every variable keeps its type.
LEMMA TypeKept == TypeOK /\ AnswerFits /\ [Next]_vars => TypeOK'
<1> SUFFICES ASSUME TypeOK, AnswerFits, [Next]_vars PROVE TypeOK'
  OBVIOUS
<1> USE DEF TypeOK, Steps, CacheStates, Downloads, Ages, Unrendered, Goto, files, histories, downloads
<1>1. ASSUME NEW p \in Invocations, Start(p) \/ CheckCa(p) \/ Download(p) PROVE TypeOK'
  <2>1. CASE Start(p) \/ CheckCa(p)
    BY <2>1 DEF Start, CheckCa, AfterCheck, BridgeMade
  <2>2. CASE Download(p)
    BY <2>2 DEF Download
  <2> QED BY <1>1, <2>1, <2>2
<1>2. ASSUME NEW p \in Invocations, OpenCa(p) \/ WriteCa(p) \/ Find(p) PROVE TypeOK'
  <2>1. CASE OpenCa(p) \/ Find(p)
    BY <2>1 DEF OpenCa, Find
  <2>2. CASE WriteCa(p)
    <3>1. answer[p] \in Downloads
      BY <2>2 DEF WriteCa, AnswerFits
    <3> QED BY <2>2, <3>1 DEF WriteCa, BridgeMade
  <2> QED BY <1>2, <2>1, <2>2
<1>3. ASSUME NEW p \in Invocations, OpenConf(p) \/ WriteConf(p) \/ Chmod(p) PROVE TypeOK'
  BY <1>3 DEF OpenConf, WriteConf, Chmod, Prepared
<1>4. ASSUME NEW p \in Invocations, Launch(p) \/ Advertise(p) \/ Stop(p) \/ Interrupt(p)
      PROVE  TypeOK'
  <2>1. options[p].profile \in Profiles
    BY PlansAssumption, OptionsAssumption
  <2> QED BY <1>4, <2>1 DEF Launch, Advertise, Stop, Interrupt, BringingUp
<1>5. ASSUME NEW p \in Invocations, Load(p) \/ EndsStarting(p) PROVE TypeOK'
  BY <1>5 DEF Load, EndsStarting
<1>6. ASSUME Age \/ PanelRenews PROVE TypeOK'
  BY <1>6 DEF Age, Older, BringingUp, PanelRenews
<1>7. ASSUME UNCHANGED vars PROVE TypeOK'
  BY <1>7 DEF vars
<1> QED BY <1>1, <1>2, <1>3, <1>4, <1>5, <1>6, <1>7, Cases

\* So they have at first.
LEMMA TypeAtFirst == Init => TypeOK
<1> SUFFICES ASSUME Init PROVE TypeOK
  OBVIOUS
<1> USE DEF Init, CacheStates, Downloads, Ages, Unrendered, Steps
<1>1. options \in Plans /\ pc \in [Invocations -> Steps \cup {"off", "up", "over"}]
  OBVIOUS
<1>2. broker \in [Invocations -> {"none", "starting", "serving", "ended"}]
  OBVIOUS
<1>3. records \in [Invocations -> {RecordsOf(profile) : profile \in Profiles} \cup {{}}]
  OBVIOUS
<1>4. loaded \in [Invocations -> Invocations \cup Unrendered] /\ conf \in Invocations \cup Unrendered
  OBVIOUS
<1>5. trusted \in [Invocations -> CacheStates] /\ cache \in CacheStates /\ private \in BOOLEAN
  OBVIOUS
<1>8. offered \in Ages /\ answer \in [Invocations -> Downloads \cup {"none"}]
  OBVIOUS
<1>6. disturbed \subseteq Invocations /\ aged \subseteq Invocations
  OBVIOUS
<1>7. cut \in [Invocations -> Steps \cup {"none"}]
  OBVIOUS
<1> QED BY <1>1, <1>2, <1>3, <1>4, <1>5, <1>6, <1>7, <1>8 DEF TypeOK

Typed == TypeOK /\ AnswerFits

LEMMA TypedAtFirst == Init => Typed
BY TypeAtFirst DEF Init, AnswerFits, Typed

LEMMA TypedKept == Typed /\ [Next]_vars => Typed'
BY TypeKept, AnswerFitsKept DEF Typed

\* TypeOK, for every instance.
THEOREM TypeCorrect == Spec => []TypeOK
<1>1. Typed => TypeOK
  BY DEF Typed
<1> QED BY <1>1, TypedAtFirst, TypedKept, PTL DEF Spec

-----------------------------------------------------------------------------
\* Only who is over was cut off, and a broker comes after its launch.
Progress ==
  \A p \in Invocations :
    /\ cut[p] # "none" => pc[p] = "over"
    /\ broker[p] # "none" => pc[p] \in {"advertise", "up", "over"}

\* What an invocation has behind it at each program counter survives every step.
LEMMA ProgressKept == TypeOK /\ Progress /\ [Next]_vars => Progress'
<1> SUFFICES ASSUME TypeOK, Progress, [Next]_vars PROVE Progress'
  OBVIOUS
<1> USE DEF TypeOK, Progress, Goto, files, histories, downloads
<1>1. ASSUME NEW p \in Invocations, Start(p) \/ CheckCa(p) \/ Download(p) PROVE Progress'
  BY <1>1 DEF Start, CheckCa, Download
<1>2. ASSUME NEW p \in Invocations, OpenCa(p) \/ WriteCa(p) \/ Find(p) PROVE Progress'
  BY <1>2 DEF OpenCa, WriteCa, Find
<1>3. ASSUME NEW p \in Invocations, OpenConf(p) \/ WriteConf(p) \/ Chmod(p) PROVE Progress'
  BY <1>3 DEF OpenConf, WriteConf, Chmod
<1>4. ASSUME NEW p \in Invocations, Launch(p) \/ Advertise(p) \/ Stop(p) \/ Interrupt(p)
      PROVE  Progress'
  BY <1>4 DEF Launch, Advertise, Stop, Interrupt, BringingUp, Steps
<1>5. ASSUME NEW p \in Invocations, Load(p) \/ EndsStarting(p) PROVE Progress'
  BY <1>5 DEF Load, EndsStarting
<1>6. ASSUME Age \/ PanelRenews PROVE Progress'
  BY <1>6 DEF Age, PanelRenews
<1>7. ASSUME UNCHANGED vars PROVE Progress'
  BY <1>7 DEF vars
<1> QED BY <1>1, <1>2, <1>3, <1>4, <1>5, <1>6, <1>7, Cases

-----------------------------------------------------------------------------
\* Until its broker has read it, the mosquitto.conf of an undisturbed invocation
\* is its own, and nobody else is writing it.
Rendered(p) == pc[p] \in {"chmod", "launch"} \/ broker[p] = "starting"

ConfFits ==
  \A p \in Invocations \ disturbed :
    /\ pc[p] = "write_conf" => conf = "empty"
    /\ Rendered(p) => conf = p
    /\ pc[p] = "write_conf" \/ Rendered(p) =>
         \A q \in Invocations \ {p} : pc[q] # "write_conf"
    /\ broker[p] = "serving" => loaded[p] = p

\* No step of any invocation spoils the configuration another one relies on when it is alone.
LEMMA ConfFitsKept == TypeOK /\ Progress /\ ConfFits /\ [Next]_vars => ConfFits'
<1> SUFFICES ASSUME TypeOK, Progress, ConfFits, [Next]_vars PROVE ConfFits'
  OBVIOUS
<1> USE DEF TypeOK, Progress, ConfFits, Rendered, Goto, files, histories, downloads
<1>1. ASSUME NEW p \in Invocations, Start(p) \/ CheckCa(p) \/ Download(p) PROVE ConfFits'
  BY <1>1 DEF Start, CheckCa, AfterCheck, BridgeMade, Download
<1>2. ASSUME NEW p \in Invocations, OpenCa(p) \/ WriteCa(p) \/ Find(p) PROVE ConfFits'
  BY <1>2 DEF OpenCa, WriteCa, BridgeMade, Find
<1>3. ASSUME NEW p \in Invocations, OpenConf(p) PROVE ConfFits'
  <2> DEFINE Writing == {r \in Invocations : pc[r] = "write_conf"}
  <2>1. p \notin disturbed' => Writing = {}
    BY <1>3 DEF OpenConf
  <2>2. \A q \in Invocations \ disturbed' : q # p =>
          q \notin disturbed /\ pc[q] # "write_conf" /\ ~Rendered(q)
    BY <1>3 DEF OpenConf
  <2>3. /\ pc' = [pc EXCEPT ![p] = "write_conf"] /\ conf' = "empty"
        /\ UNCHANGED <<broker, loaded>> /\ pc[p] = "open_conf" /\ broker[p] = "none"
    BY <1>3 DEF OpenConf
  <2> QED BY <2>1, <2>2, <2>3
<1>4. ASSUME NEW p \in Invocations, WriteConf(p) \/ Chmod(p) PROVE ConfFits'
  BY <1>4 DEF WriteConf, Chmod, Prepared
<1>5. ASSUME NEW p \in Invocations, Launch(p) \/ Advertise(p) \/ Stop(p) \/ Interrupt(p)
      PROVE  ConfFits'
  BY <1>5 DEF Launch, Advertise, Stop, Interrupt
<1>6. ASSUME NEW p \in Invocations, Load(p) \/ EndsStarting(p) PROVE ConfFits'
  BY <1>6 DEF Load, EndsStarting
<1>7. ASSUME Age \/ PanelRenews PROVE ConfFits'
  BY <1>7 DEF Age, PanelRenews
<1>8. ASSUME UNCHANGED vars PROVE ConfFits'
  BY <1>8 DEF vars
<1> QED BY <1>1, <1>2, <1>3, <1>4, <1>5, <1>6, <1>7, <1>8, Cases

\* What is published are the records of the invocation's own profile.
RecordsFit == \A p \in Invocations : records[p] \in {{}, RecordsOf(options[p].profile)}

\* The published records are none or all of the invocation's own profile, whatever step is taken.
LEMMA RecordsFitKept == TypeOK /\ RecordsFit /\ [Next]_vars => RecordsFit'
<1> SUFFICES ASSUME TypeOK, RecordsFit, [Next]_vars PROVE RecordsFit'
  OBVIOUS
<1> USE DEF TypeOK, RecordsFit, files, histories, downloads
<1>1. ASSUME UNCHANGED <<options, records>> PROVE RecordsFit'
  BY <1>1
<1>2. ASSUME NEW p \in Invocations, Advertise(p) \/ Stop(p) PROVE RecordsFit'
  BY <1>2 DEF Advertise, Stop
<1>3. ASSUME NEW p \in Invocations, Step(p) PROVE Advertise(p) \/ Stop(p) \/ UNCHANGED <<options, records>>
  BY <1>3 DEF Step, Start, CheckCa, Download, OpenCa, WriteCa, Find, OpenConf, WriteConf, Chmod,
     Launch, Interrupt, Load, EndsStarting
<1> QED BY <1>1, <1>2, <1>3 DEF Next, Age, PanelRenews, vars

\* The debug tap apart, which is local, a broker listens on what its profile advertises.
LEMMA ListenersForOthers ==
  ASSUME NEW profile, NEW debug
  PROVE  {l \in listeners(profile, debug) : ~l.local} = advertised_listeners(profile)
BY DEF listeners, advertised_listeners, PlaintextListener, Listener, NoPort

\* What the options of an accepted bridge say is rendered, a blank username apart.
LEMMA RenderedInFull ==
  ASSUME NEW o \in Options, ~Refused(o)
  PROVE  Bridge(o) \ ({"insecure"} \cup Lost(o)) \subseteq Section(Bridge(o), Blank(o))
<1>1. Bridge(o) \subseteq BridgeOptions
  BY OptionsAssumption DEF Bridge, PanelBridge, BridgeOptions
<1>2. Complete(Bridge(o))
  BY OptionsAssumption DEF Refused, Complete, Bridge, PanelBridge
<1> QED BY <1>1, <1>2 DEF Complete, Section, Lost, BridgeOptions

ServingInv == Typed /\ Progress /\ ConfFits /\ RecordsFit

\* The four conjuncts hold together in every reachable state.
LEMMA ServingInvHolds == Spec => []ServingInv
<1>1. Init => ServingInv
  BY TypedAtFirst DEF Init, ServingInv, Progress, ConfFits, Rendered, RecordsFit
<1>2. ServingInv /\ [Next]_vars => ServingInv'
  BY TypedKept, ProgressKept, ConfFitsKept, RecordsFitKept DEF ServingInv, Typed
<1> QED BY <1>1, <1>2, PTL DEF Spec

\* ServesWhatItAdvertises, for every instance.
THEOREM NoDrift == Spec => []ServesWhatItAdvertises
<1>1. ServingInv => ServesWhatItAdvertises
  <2> SUFFICES ASSUME ServingInv, NEW p \in Invocations, OnItsOwn(p), records[p] # {}
      PROVE records[p] = {Record(l) : l \in {k \in Opened(loaded[p]) : ~k.local}} \cup {HostRecord}
    BY DEF ServesWhatItAdvertises
  <2>1. records[p] = RecordsOf(options[p].profile)
    BY DEF ServingInv, RecordsFit
  <2>2. Opened(loaded[p]) = listeners(options[p].profile, options[p].debug)
    BY DEF ServingInv, ConfFits, OnItsOwn, Opened
  <2> QED BY <2>1, <2>2, ListenersForOthers DEF RecordsOf
<1> QED BY <1>1, ServingInvHolds, PTL

\* OptionsReachBroker, for every instance.
THEOREM BridgeAsGiven == Spec => []OptionsReachBroker
<1>1. ServingInv => OptionsReachBroker
  <2> SUFFICES ASSUME ServingInv, NEW p \in Invocations, OnItsOwn(p), ~Refused(options[p])
      PROVE /\ loaded[p] = p
            /\ Bridge(options[p]) \ ({"insecure"} \cup Lost(options[p])) \subseteq RenderedBridge(p)
    BY DEF OptionsReachBroker
  <2>1. options[p] \in Options
    BY PlansAssumption DEF ServingInv, Typed, TypeOK
  <2> QED BY <2>1, RenderedInFull DEF ServingInv, ConfFits, OnItsOwn, RenderedBridge
<1> QED BY <1>1, ServingInvHolds, PTL

-----------------------------------------------------------------------------
\* Whoever rendered a password protects it next, unless it is cut off.
SecretFits ==
  conf \in Invocations /\ HasPassword(conf) /\ ~private =>
    pc[conf] = "chmod" \/ cut[conf] = "chmod"

\* The bridge password is exposed only between the write and the chmod, or where a crash fell.
LEMMA SecretFitsKept == TypeOK /\ Progress /\ SecretFits /\ [Next]_vars => SecretFits'
<1> SUFFICES ASSUME TypeOK, Progress, SecretFits, [Next]_vars PROVE SecretFits'
  OBVIOUS
<1>0. options' = options /\ \A p \in Invocations : HasPassword(p)' <=> HasPassword(p)
  <2>1. options' = options
    <3>1. ASSUME NEW p \in Invocations, Step(p) PROVE options' = options
      BY <3>1 DEF Step, Start, CheckCa, Download, OpenCa, WriteCa, Find, OpenConf, WriteConf, Chmod,
         Launch, Advertise, Stop, Interrupt, Load, EndsStarting
    <3> QED BY <3>1 DEF Next, Age, PanelRenews, vars
  <2> QED BY <2>1 DEF HasPassword
<1> USE <1>0 DEF TypeOK, Progress, SecretFits, Goto, files, histories, downloads
<1>1. ASSUME NEW p \in Invocations, Start(p) \/ CheckCa(p) \/ Download(p) PROVE SecretFits'
  BY <1>1 DEF Start, CheckCa, Download
<1>2. ASSUME NEW p \in Invocations, OpenCa(p) \/ WriteCa(p) \/ Find(p) PROVE SecretFits'
  BY <1>2 DEF OpenCa, WriteCa, Find
<1>3. ASSUME NEW p \in Invocations, OpenConf(p) \/ WriteConf(p) \/ Chmod(p) PROVE SecretFits'
  BY <1>3, NamesAssumption DEF OpenConf, WriteConf, Chmod, Unrendered
<1>4. ASSUME NEW p \in Invocations, Launch(p) \/ Advertise(p) \/ Stop(p) \/ Interrupt(p)
      PROVE  SecretFits'
  BY <1>4 DEF Launch, Advertise, Stop, Interrupt, BringingUp, Steps
<1>5. ASSUME NEW p \in Invocations, Load(p) \/ EndsStarting(p) PROVE SecretFits'
  BY <1>5 DEF Load, EndsStarting
<1>6. ASSUME Age \/ PanelRenews PROVE SecretFits'
  BY <1>6 DEF Age, PanelRenews
<1>7. ASSUME UNCHANGED vars PROVE SecretFits'
  BY <1>7 DEF vars
<1> QED BY <1>1, <1>2, <1>3, <1>4, <1>5, <1>6, <1>7, Cases

\* PasswordIsOwnerOnly, for every instance.
THEOREM PasswordProtected == Spec => []PasswordIsOwnerOnly
<1> DEFINE Inv == Typed /\ Progress /\ SecretFits
<1>1. Init => Inv
  BY TypedAtFirst, NamesAssumption DEF Init, Progress, SecretFits, Unrendered
<1>2. Inv /\ [Next]_vars => Inv'
  BY TypedKept, ProgressKept, SecretFitsKept DEF Typed
<1>3. Inv => PasswordIsOwnerOnly
  BY DEF SecretFits, PasswordIsOwnerOnly, Secret, RenderedBridge, Section, HasPassword
<1> QED BY <1>1, <1>2, <1>3, PTL DEF Spec

-----------------------------------------------------------------------------
\* What excuses a cached CA that is no certificate.
Spoilt ==
  \E q \in Invocations :
    \/ pc[q] = "write_ca" \/ cut[q] = "write_ca" \/ answer[q] = "broken"
    \/ \E r \in Invocations \ {q} : answer[q] # "none" /\ answer[r] # "none"

\* Once a bring-up relies on the cache, it is broken only by a download; and whoever
\* writes over another's CA is not the only one who has downloaded.
SpoiltFits ==
  /\ cache = "broken" /\ (\E p \in Invocations : Relies(p)) => Spoilt
  /\ \A p \in Invocations : pc[p] = "write_ca" /\ cache # "broken" =>
       \E r \in Invocations \ {p} : answer[r] # "none"

\* A step that leaves the cache alone, cuts off nobody's write unnoticed and lets
\* nobody rely on a broken cache that did not before keeps this.
LEMMA SpoiltStays ==
  ASSUME TypeOK, AnswerFits, SpoiltFits, [Next]_vars,
         cache' = "broken" <=> cache = "broken",
         \A q \in Invocations : pc[q] = "write_ca" => pc'[q] = "write_ca" \/ cut'[q] = "write_ca",
         \A q \in Invocations : pc'[q] = "write_ca" => pc[q] = "write_ca",
         \A q \in Invocations : cut[q] = "write_ca" => cut'[q] = "write_ca",
         cache = "broken" => \A q \in Invocations : Relies(q)' => Relies(q)
  PROVE  SpoiltFits'
<1>1. \A q \in Invocations : /\ answer[q] # "none" => answer'[q] # "none"
                             /\ answer[q] = "broken" => answer'[q] = "broken"
  BY AnswersStay
<1>2. Spoilt => Spoilt'
  <2> SUFFICES ASSUME NEW q \in Invocations,
                      \/ pc[q] = "write_ca" \/ cut[q] = "write_ca" \/ answer[q] = "broken"
                      \/ \E r \in Invocations \ {q} : answer[q] # "none" /\ answer[r] # "none"
               PROVE  Spoilt'
    BY DEF Spoilt
  <2> QED BY <1>1 DEF Spoilt
<1>3. \A p \in Invocations : pc'[p] = "write_ca" /\ cache' # "broken" =>
        \E r \in Invocations \ {p} : answer'[r] # "none"
  BY <1>1 DEF SpoiltFits
<1> QED BY <1>2, <1>3 DEF SpoiltFits

\* It holds on through every step.
LEMMA SpoiltFitsKept == TypeOK /\ Progress /\ AnswerFits /\ SpoiltFits /\ [Next]_vars => SpoiltFits'
<1> SUFFICES ASSUME TypeOK, Progress, AnswerFits, SpoiltFits, [Next]_vars PROVE SpoiltFits'
  OBVIOUS
<1> USE DEF TypeOK, Progress, Relies, Goto, files, histories, downloads
<1>1. ASSUME NEW p \in Invocations, Start(p) PROVE SpoiltFits'
  <2>1. /\ pc[p] = "off" /\ pc'[p] \in {"advertise", "over", "check", "find"}
        /\ pc'[p] = "find" => options[p].panel = "none"
        /\ \A q \in Invocations \ {p} : pc'[q] = pc[q]
        /\ UNCHANGED <<options, broker, cache, cut>>
    BY <1>1 DEF Start
  <2>2. \A q \in Invocations : Relies(q)' => Relies(q)
    BY <2>1 DEF Steps
  <2> HIDE DEF Relies
  <2> QED BY <2>1, <2>2, SpoiltStays
<1>2. ASSUME NEW p \in Invocations, CheckCa(p) PROVE SpoiltFits'
  <2>1. /\ pc[p] = "check" /\ pc'[p] \in {"download", "find", "over"}
        /\ cache = "broken" => pc'[p] = "over"
        /\ \A q \in Invocations \ {p} : pc'[q] = pc[q]
        /\ UNCHANGED <<options, broker, cache, cut>>
    BY <1>2 DEF CheckCa, AfterCheck, BridgeMade
  <2>2. cache = "broken" => \A q \in Invocations : Relies(q)' => Relies(q)
    BY <2>1 DEF Steps
  <2> HIDE DEF Relies
  <2> QED BY <2>1, <2>2, SpoiltStays
<1>3. ASSUME NEW p \in Invocations, Download(p) PROVE SpoiltFits'
  <2>1. /\ pc[p] = "download" /\ pc'[p] \in {"open_ca", "over"}
        /\ \A q \in Invocations \ {p} : pc'[q] = pc[q]
        /\ UNCHANGED <<options, broker, cache, cut>>
    BY <1>3 DEF Download
  <2>2. \A q \in Invocations : Relies(q)' => Relies(q)
    BY <2>1 DEF Steps
  <2> HIDE DEF Relies
  <2> QED BY <2>1, <2>2, SpoiltStays
<1>4. ASSUME NEW p \in Invocations, OpenCa(p) PROVE SpoiltFits'
  BY <1>4 DEF OpenCa, SpoiltFits, Spoilt
<1>5. ASSUME NEW p \in Invocations, WriteCa(p) PROVE SpoiltFits'
  <2>1. answer' = answer /\ answer[p] # "none" /\ pc' = [pc EXCEPT ![p] = BridgeMade(p)]
    BY <1>5 DEF WriteCa, AnswerFits
  <2>2. BridgeMade(p) # "write_ca"
    BY DEF BridgeMade
  <2>3. \A q \in Invocations \ {p} :
          pc'[q] = "write_ca" => \E r \in Invocations \ {q} : answer'[r] # "none"
    BY <2>1
  <2>4. cache' = "broken" => Spoilt'
    <3>1. CASE cache = "broken"
      BY <1>5, <2>1, <3>1 DEF WriteCa, Spoilt
    <3>2. CASE cache # "broken"
      <4>1. PICK r \in Invocations \ {p} : answer[r] # "none"
        BY <1>5, <3>2 DEF WriteCa, SpoiltFits
      <4> QED BY <2>1, <4>1 DEF Spoilt
    <3> QED BY <3>1, <3>2
  <2> QED BY <2>1, <2>2, <2>3, <2>4 DEF SpoiltFits
<1>6. ASSUME NEW p \in Invocations, Find(p) PROVE SpoiltFits'
  BY <1>6, SpoiltStays DEF Find, Steps
<1>7. ASSUME NEW p \in Invocations, OpenConf(p) \/ WriteConf(p) \/ Chmod(p) PROVE SpoiltFits'
  BY <1>7, SpoiltStays DEF OpenConf, WriteConf, Chmod, Prepared, Steps
<1>8. ASSUME NEW p \in Invocations, Launch(p) \/ Advertise(p) \/ Stop(p) PROVE SpoiltFits'
  BY <1>8, SpoiltStays DEF Launch, Advertise, Stop, Steps
<1>9. ASSUME NEW p \in Invocations, Interrupt(p) PROVE SpoiltFits'
  BY <1>9, SpoiltStays DEF Interrupt, BringingUp, Steps
<1>10. ASSUME NEW p \in Invocations, Load(p) \/ EndsStarting(p) PROVE SpoiltFits'
  BY <1>10, SpoiltStays DEF Load, EndsStarting
<1>11. ASSUME Age \/ PanelRenews PROVE SpoiltFits'
  BY <1>11, SpoiltStays DEF Age, Older, PanelRenews
<1>12. ASSUME UNCHANGED vars PROVE SpoiltFits'
  BY <1>12, SpoiltStays DEF vars
<1> QED BY <1>1, <1>2, <1>3, <1>4, <1>5, <1>6, <1>7, <1>8, <1>9, <1>10, <1>11, <1>12, Cases

-----------------------------------------------------------------------------
\* The panel gave out a CA that was near its end, or anything at all.
Late == \E q \in Invocations : answer[q] \in {"near", "lapsed"}
Came == \E q \in Invocations : answer[q] # "none"

\* With a panel, from the check to the load: the cached CA has neared its end only
\* if it has aged since the invocation started, or if the panel is to blame.
PastCheck(p) ==
  /\ options[p].panel # "none"
  /\ pc[p] \in {"find", "open_conf", "write_conf", "chmod", "launch"} \/ broker[p] = "starting"

Excused(p) ==
  \/ cache = "fresh"
  \/ cache = "near" /\ (p \in aged \/ Late)
  \/ cache = "lapsed" /\ Late
  \/ cache = "broken" /\ Came

CacheFits == StartsWithCurrentCa /\ \A p \in Invocations : PastCheck(p) => Excused(p)

\* A step that neither touches the cache nor loads it keeps this.
LEMMA CacheFitsStays ==
  ASSUME TypeOK, AnswerFits, CacheFits, [Next]_vars, UNCHANGED <<options, cache, aged, trusted>>,
         \A p \in Invocations : broker'[p] = "serving" => broker[p] = "serving",
         \A p \in Invocations : PastCheck(p)' => PastCheck(p) \/ Excused(p)
  PROVE  CacheFits'
<1>1. (Late => Late') /\ (Came => Came')
  BY AnswersStay DEF Late, Came
<1>2. StartsWithCurrentCa'
  BY <1>1 DEF CacheFits, StartsWithCurrentCa, Late, Came
<1> QED BY <1>1, <1>2 DEF CacheFits, Excused

\* The cached panel CA keeps matching what the invocations have checked or downloaded.
LEMMA CacheFitsKept == TypeOK /\ Progress /\ AnswerFits /\ CacheFits /\ [Next]_vars => CacheFits'
<1> SUFFICES ASSUME TypeOK, Progress, AnswerFits, CacheFits, [Next]_vars PROVE CacheFits'
  OBVIOUS
<1>0. (Late => Late') /\ (Came => Came')
  BY AnswersStay DEF Late, Came
<1> USE DEF TypeOK, Progress, PastCheck, Goto, files, histories, downloads
<1>1. ASSUME NEW p \in Invocations, Start(p) PROVE CacheFits'
  <2>1. options[p] \in Options
    BY PlansAssumption
  <2> QED BY <1>1, <2>1, OptionsAssumption, CacheFitsStays DEF Start
<1>2. ASSUME NEW p \in Invocations, CheckCa(p) PROVE CacheFits'
  BY <1>2, CacheFitsStays DEF CheckCa, AfterCheck, BridgeMade, Excused
<1>3. ASSUME NEW p \in Invocations, Download(p) \/ Find(p) PROVE CacheFits'
  BY <1>3, CacheFitsStays DEF Download, Find
<1>4. ASSUME NEW p \in Invocations, OpenCa(p) \/ WriteCa(p) PROVE CacheFits'
  <2>1. /\ answer' = answer /\ answer[p] # "none" /\ cache' \in {answer[p], "broken"}
        /\ UNCHANGED <<options, broker, trusted>>
    BY <1>4 DEF OpenCa, WriteCa, AnswerFits
  <2>2. answer[p] \in Downloads
    BY <2>1
  <2>3. \A q \in Invocations : Excused(q)'
    BY <2>1, <2>2 DEF Excused, Late, Came, Downloads, Ages
  <2>4. StartsWithCurrentCa'
    BY <2>1 DEF CacheFits, StartsWithCurrentCa
  <2> QED BY <2>3, <2>4 DEF CacheFits
<1>5. ASSUME NEW p \in Invocations, OpenConf(p) \/ WriteConf(p) \/ Chmod(p) PROVE CacheFits'
  BY <1>5, CacheFitsStays DEF OpenConf, WriteConf, Chmod, Prepared
<1>6. ASSUME NEW p \in Invocations, Launch(p) \/ Advertise(p) \/ Stop(p) PROVE CacheFits'
  BY <1>6, CacheFitsStays DEF Launch, Advertise, Stop
<1>7. ASSUME NEW p \in Invocations, Interrupt(p) PROVE CacheFits'
  BY <1>7, CacheFitsStays DEF Interrupt, BringingUp, Steps
<1>8. ASSUME NEW p \in Invocations, Load(p) PROVE CacheFits'
  <2>1. options[p].panel # "none" => Excused(p)
    BY <1>8 DEF Load, CacheFits
  <2> QED BY <1>8, <2>1 DEF Load, CacheFits, StartsWithCurrentCa, Excused, Late, Came
<1>9. ASSUME NEW p \in Invocations, EndsStarting(p) PROVE CacheFits'
  BY <1>9, CacheFitsStays DEF EndsStarting
<1>10. ASSUME Age PROVE CacheFits'
  <2>1. \A p \in Invocations : PastCheck(p) => p \notin aged /\ p \in aged'
    BY <1>10 DEF Age, BringingUp, Steps
  <2>2. \A p \in Invocations : PastCheck(p)' => PastCheck(p)
    BY <1>10 DEF Age
  <2>3. cache' = Older(cache) /\ UNCHANGED <<options, broker, trusted>>
    BY <1>10 DEF Age
  <2>4. \A p \in Invocations : PastCheck(p) => Excused(p)'
    BY <1>0, <2>1, <2>3 DEF CacheFits, Excused, Older
  <2>5. StartsWithCurrentCa'
    BY <1>0, <2>3 DEF CacheFits, StartsWithCurrentCa, Late, Came
  <2> QED BY <2>2, <2>4, <2>5 DEF CacheFits
<1>11. ASSUME PanelRenews PROVE CacheFits'
  BY <1>11, CacheFitsStays DEF PanelRenews
<1>12. ASSUME UNCHANGED vars PROVE CacheFits'
  BY <1>12, CacheFitsStays DEF vars
<1> QED BY <1>1, <1>2, <1>3, <1>4, <1>5, <1>6, <1>7, <1>8, <1>9, <1>10, <1>11, <1>12, Cases

CacheInv == Typed /\ Progress /\ SpoiltFits /\ CacheFits

\* Hence all this holds in every reachable state.
LEMMA CacheInvHolds == Spec => []CacheInv
<1>1. Init => CacheInv
  BY TypedAtFirst, NamesAssumption
  DEF Init, CacheInv, Progress, SpoiltFits, Relies, CacheFits, StartsWithCurrentCa, PastCheck, Steps
<1>2. CacheInv /\ [Next]_vars => CacheInv'
  BY TypedKept, ProgressKept, SpoiltFitsKept, CacheFitsKept DEF CacheInv, Typed
<1> QED BY <1>1, <1>2, PTL DEF Spec

\* OnlyDownloadsSpoilCache, for every instance.
THEOREM SpoiltByDownload == Spec => []OnlyDownloadsSpoilCache
<1>1. CacheInv => OnlyDownloadsSpoilCache
  BY DEF CacheInv, SpoiltFits, Spoilt, OnlyDownloadsSpoilCache
<1> QED BY <1>1, CacheInvHolds, PTL

\* StartsWithCurrentCa, for every instance.
THEOREM CurrentCa == Spec => []StartsWithCurrentCa
<1>1. CacheInv => StartsWithCurrentCa
  BY DEF CacheInv, CacheFits
<1> QED BY <1>1, CacheInvHolds, PTL

\* BrokenCacheStays, for every instance.
THEOREM BrokenForGood == Spec => BrokenCacheStays
<1> DEFINE Stays == cache = "broken" /\ Downloading = {} => cache' = "broken" /\ Downloading' = {}
<1>1. TypeOK /\ [Next]_vars => [Stays]_vars
  <2> SUFFICES ASSUME TypeOK, [Next]_vars, cache = "broken", Downloading = {}
               PROVE  cache' = "broken" /\ Downloading' = {}
    OBVIOUS
  <2> USE DEF TypeOK, Downloading, Goto, files, histories, downloads
  <2>1. ASSUME NEW p \in Invocations, Start(p) \/ CheckCa(p) \/ Download(p)
        PROVE  cache' = "broken" /\ Downloading' = {}
    BY <2>1 DEF Start, CheckCa, AfterCheck, Download
  <2>2. ASSUME NEW p \in Invocations, OpenCa(p) \/ WriteCa(p) \/ Find(p)
        PROVE  cache' = "broken" /\ Downloading' = {}
    BY <2>2 DEF OpenCa, WriteCa, Find
  <2>3. ASSUME NEW p \in Invocations, OpenConf(p) \/ WriteConf(p) \/ Chmod(p)
        PROVE  cache' = "broken" /\ Downloading' = {}
    BY <2>3 DEF OpenConf, WriteConf, Chmod, Prepared
  <2>4. ASSUME NEW p \in Invocations, Launch(p) \/ Advertise(p) \/ Stop(p) \/ Interrupt(p)
        PROVE  cache' = "broken" /\ Downloading' = {}
    BY <2>4 DEF Launch, Advertise, Stop, Interrupt
  <2>5. ASSUME NEW p \in Invocations, Load(p) \/ EndsStarting(p)
        PROVE  cache' = "broken" /\ Downloading' = {}
    BY <2>5 DEF Load, EndsStarting
  <2>6. Age \/ PanelRenews => cache' = "broken" /\ Downloading' = {}
    BY DEF Age, Older, PanelRenews
  <2>7. UNCHANGED vars => cache' = "broken" /\ Downloading' = {}
    BY DEF vars
  <2> QED BY <2>1, <2>2, <2>3, <2>4, <2>5, <2>6, <2>7, Cases
<1> QED BY <1>1, TypeCorrect, PTL DEF Spec, BrokenCacheStays
=============================================================================
