------------------------------ MODULE BringUp ------------------------------
(***************************************************************************)
(* From the options of laptop.broker, laptop.run and laptop.advertiser to  *)
(* a broker and its mDNS records: the bridge (laptop/bridge.py,            *)
(* laptop/span.py), the panel's CA in its cache, mosquitto.conf, the       *)
(* launch.  Invocations share the cache and mosquitto.conf.  The TLS       *)
(* material and the ACL are TlsMaterial's and ClientRegistry's, what may   *)
(* happen to a runner once it is up is Supervisor's.                       *)
(***************************************************************************)
EXTENDS Listeners

CONSTANTS
  Invocations,
  Options,  \* what an invocation may be given
  Plans     \* the ways in which Options may be given to Invocations

BridgeOptions == {"cafile", "certfile", "keyfile", "username", "password", "insecure"}

\* address: of --bridge; bridge: its other options; blank: those of them that are
\* given with nothing in them; legible: the password file, if one is given, can be
\* read; panel: of --span-bridge; via: --span-bridge-address; found: there is a
\* mosquitto to run.
ASSUME OptionsAssumption ==
  Options \subseteq
    [command : {"run", "broker", "no-run", "advertise"}, profile : Profiles, debug : {NoPort, 1883, 8883, 1884},
     address : {"none", "bad", "good"}, bridge : SUBSET BridgeOptions,
     blank : SUBSET {"username", "password"}, legible : BOOLEAN,
     panel : {"none", "known", "unknown"}, via : {"none", "bad", "good"}, found : BOOLEAN]

ASSUME PlansAssumption == Plans \subseteq [Invocations -> Options]

\* Contents of mosquitto.conf that no invocation has rendered, and no content.
Unrendered == {"absent", "empty", "mixed"}

ASSUME NamesAssumption == Invocations \cap Unrendered = {}

VARIABLES
  options,    \* what each invocation was given
  pc,         \* where it is
  broker,     \* its mosquitto: none | starting | serving | ended
  records,    \* the mDNS records it publishes
  offered,    \* the CA that the panel gives out: fresh | near | lapsed
  answer,     \* what each invocation has downloaded: a CA, "broken" or "none"
  cache,      \* the cached CA: absent | broken (no certificate) | fresh | near | lapsed
  conf,       \* mosquitto.conf: the invocation that rendered it, or Unrendered
  private,    \* mosquitto.conf has mode 0600
  loaded,     \* the mosquitto.conf that its broker has read
  trusted,    \* the panel's CA that its broker has read
  disturbed,  \* history: mosquitto.conf was not its own from its open to its load
  aged,       \* history: the cached CA has aged since it started
  cut         \* history: where it was interrupted

files == <<cache, conf, private>>
histories == <<disturbed, aged, cut>>
downloads == <<offered, answer>>
vars == <<options, pc, broker, records, downloads, files, loaded, trusted, histories>>

Steps == {"check", "download", "open_ca", "write_ca", "find", "open_conf", "write_conf",
          "chmod", "launch", "advertise"}
Ages == {"fresh", "near", "lapsed"}
Downloads == Ages \cup {"broken"}
CacheStates == Downloads \cup {"absent"}

TypeOK ==
  /\ options \in Plans
  /\ pc \in [Invocations -> Steps \cup {"off", "up", "over"}]
  /\ broker \in [Invocations -> {"none", "starting", "serving", "ended"}]
  /\ records \in [Invocations -> {RecordsOf(profile) : profile \in Profiles} \cup {{}}]
  /\ offered \in Ages /\ answer \in [Invocations -> Downloads \cup {"none"}]
  /\ cache \in CacheStates
  /\ conf \in Invocations \cup Unrendered
  /\ private \in BOOLEAN
  /\ loaded \in [Invocations -> Invocations \cup Unrendered]
  /\ trusted \in [Invocations -> CacheStates]
  /\ disturbed \subseteq Invocations /\ aged \subseteq Invocations
  /\ cut \in [Invocations -> Steps \cup {"none"}]

Init ==
  /\ options \in Plans
  /\ pc = [p \in Invocations |-> "off"]
  /\ broker = [p \in Invocations |-> "none"]
  /\ records = [p \in Invocations |-> {}]
  /\ offered \in Ages /\ answer = [p \in Invocations |-> "none"]
  /\ cache \in CacheStates
  /\ conf = "absent" /\ private = FALSE
  /\ loaded = [p \in Invocations |-> "absent"]
  /\ trusted = [p \in Invocations |-> "absent"]
  /\ disturbed = {} /\ aged = {}
  /\ cut = [p \in Invocations |-> "none"]

-----------------------------------------------------------------------------
(* The bridge: the options that it is made of, and those that are rendered. *)

\* Mutant of Complete: a client certificate does without a CA.
CompleteWithoutCa(given) ==
  /\ ("certfile" \in given) <=> ("keyfile" \in given)
  /\ ("password" \in given) <=> ("username" \in given)

\* `is not None`: an option that is given blank is given.
Complete(given) ==
  /\ ("certfile" \in given) <=> ("keyfile" \in given)
  /\ ("certfile" \in given) => ("cafile" \in given)
  /\ ("password" \in given) <=> ("username" \in given)

\* load_panel: no credential file, no such panel in it, or none of its password.
NoPanel(o) == o.panel = "unknown"

\* parser.error, or the password file raises, before anything is done. That file is
\* read without --bridge too, but not when a panel's bridge is there already.
Refused(o) ==
  \/ ~DebugPortFits(o.profile, o.debug)
  \/ o.panel # "none" /\ o.address # "none"
  \/ NoPanel(o)
  \/ o.address = "bad"
  \/ o.panel = "none" /\ "password" \in o.bridge /\ ~o.legible
  \/ o.address = "good" /\ ~Complete(o.bridge)

\* Reached at another address, a panel's certificate does not name its host.
PanelBridge(o) ==
  {"cafile", "username", "password"} \cup (IF o.via = "none" THEN {} ELSE {"insecure"})

Bridge(o) == IF o.panel # "none" THEN PanelBridge(o)
             ELSE IF o.address # "none" THEN o.bridge ELSE {}

\* What of it is blank; load_panel takes no password that is.
Blank(o) == IF o.panel # "none" THEN {} ELSE Bridge(o) \cap o.blank

\* The bridge section of mosquitto.conf, with its nested conditions, which test
\* whether there is something in an option.
Section(b, blank) ==
  b \cap ({"cafile"}
          \cup (IF "cafile" \in b THEN {"insecure"} ELSE {})
          \cup (IF {"cafile", "certfile"} \subseteq b THEN {"certfile", "keyfile"} ELSE {})
          \cup (IF "username" \in b \ blank THEN {"username", "password"} ELSE {}))

-----------------------------------------------------------------------------
Goto(p, step) == pc' = [pc EXCEPT ![p] = step]

\* Busy with what comes before the launch.
BringingUp == {p \in Invocations : pc[p] \in Steps \ {"advertise"}}

Start(p) ==
  /\ pc[p] = "off"
  /\ Goto(p, IF options[p].command = "advertise" THEN "advertise"
             ELSE IF Refused(options[p]) THEN "over"
             ELSE IF options[p].panel # "none" THEN "check" ELSE "find")
  /\ UNCHANGED <<options, broker, records, downloads, files, loaded, trusted, histories>>

\* With the CA at hand, span_bridge parses --span-bridge-address.
BridgeMade(p) == IF options[p].via = "bad" THEN "over" ELSE "find"

\* Mutant of AfterCheck: no renewal before the CA expires.
AfterCheckWithoutSlack(p) ==
  IF cache = "broken" THEN "over" ELSE IF cache \in {"fresh", "near"} THEN BridgeMade(p) ELSE "download"

\* Mutant of AfterCheck: what does not parse is downloaded again.
AfterCheckRepairing(p) == IF cache = "fresh" THEN BridgeMade(p) ELSE "download"

\* ensure_panel_ca: what does not parse is an error, before any download.
AfterCheck(p) ==
  IF cache = "broken" THEN "over" ELSE IF cache = "fresh" THEN BridgeMade(p) ELSE "download"

CheckCa(p) ==
  /\ pc[p] = "check"
  /\ Goto(p, AfterCheck(p))
  /\ UNCHANGED <<options, broker, records, downloads, files, loaded, trusted, histories>>

\* Mutant of Download: the cached file is opened before the panel has answered.
DownloadIntoFile(p) ==
  /\ pc[p] = "download"
  /\ \/ \E body \in {offered, "broken"} :
          Goto(p, "open_ca") /\ answer' = [answer EXCEPT ![p] = body]
     \/ Goto(p, "over") /\ UNCHANGED answer
  /\ cache' = "broken"
  /\ UNCHANGED <<options, broker, records, offered, conf, private, loaded, trusted, histories>>

\* The panel's CA, or whatever else answers with a body, unparsed; or no answer
\* within the time-out, an error status, a body that is shorter than announced.
Download(p) ==
  /\ pc[p] = "download"
  /\ \/ \E body \in {offered, "broken"} :
          Goto(p, "open_ca") /\ answer' = [answer EXCEPT ![p] = body]
     \/ Goto(p, "over") /\ UNCHANGED answer
  /\ UNCHANGED <<options, broker, records, offered, files, loaded, trusted, histories>>

\* Path.write_bytes truncates the file when it opens it ...
OpenCa(p) ==
  /\ pc[p] = "open_ca"
  /\ Goto(p, "write_ca")
  /\ cache' = "broken"
  /\ UNCHANGED <<options, broker, records, downloads, conf, private, loaded, trusted, histories>>

\* ... and writes when it closes it, be it a certificate or not, and whatever its
\* age. Over a CA that was written since the open, a remainder may stay.
WriteCa(p) ==
  /\ pc[p] = "write_ca"
  /\ Goto(p, BridgeMade(p))
  /\ cache' \in {answer[p]} \cup (IF cache = "broken" THEN {} ELSE {"broken"})
  /\ UNCHANGED <<options, broker, records, downloads, conf, private, loaded, trusted, histories>>

\* Only the runner looks for mosquitto before it prepares anything.
Find(p) ==
  /\ pc[p] = "find"
  /\ Goto(p, IF options[p].command = "run" /\ ~options[p].found THEN "over" ELSE "open_conf")
  /\ UNCHANGED <<options, broker, records, downloads, files, loaded, trusted, histories>>

OpenConf(p) ==
  /\ pc[p] = "open_conf"
  /\ Goto(p, "write_conf")
  /\ conf' = "empty"
  /\ disturbed' = {q \in Invocations :
       IF q = p THEN \E r \in Invocations : pc[r] = "write_conf"
       ELSE q \in disturbed \/ pc[q] \in {"write_conf", "chmod", "launch"} \/ broker[q] = "starting"}
  /\ UNCHANGED <<options, broker, records, downloads, cache, private, loaded, trusted, aged, cut>>

\* broker.main: --no-run, or no mosquitto after all.
Prepared(p) == IF options[p].command # "no-run" /\ options[p].found THEN "launch" ELSE "over"

\* Mutant of HasPassword: a panel's password is forgotten.
HasRemotePassword(p) == options[p].address # "none" /\ "password" \in options[p].bridge

HasPassword(p) == "password" \in Bridge(options[p]) \ Blank(options[p])

\* Over a longer text that was written since the open, a remainder stays.
WriteConf(p) ==
  /\ pc[p] = "write_conf"
  /\ Goto(p, IF HasPassword(p) THEN "chmod" ELSE Prepared(p))
  /\ conf' \in {p} \cup (IF conf = "empty" THEN {} ELSE {"mixed"})
  /\ UNCHANGED <<options, broker, records, downloads, cache, private, loaded, trusted, histories>>

Chmod(p) ==
  /\ pc[p] = "chmod"
  /\ Goto(p, Prepared(p))
  /\ private' = TRUE
  /\ UNCHANGED <<options, broker, records, downloads, cache, conf, loaded, trusted, histories>>

\* broker.main becomes mosquitto, the runner spawns it.
Launch(p) ==
  /\ pc[p] = "launch"
  /\ Goto(p, IF options[p].command = "run" THEN "advertise" ELSE "up")
  /\ broker' = [broker EXCEPT ![p] = "starting"]
  /\ UNCHANGED <<options, records, downloads, files, loaded, trusted, histories>>

\* The runner's records, or those of a laptop.advertiser.
Advertise(p) ==
  /\ pc[p] = "advertise"
  /\ Goto(p, "up")
  /\ records' = [records EXCEPT ![p] = RecordsOf(options[p].profile)]
  /\ UNCHANGED <<options, broker, downloads, files, loaded, trusted, histories>>

\* Mutant of Stop: only the listeners' records are withdrawn.
StopKeepingHost(p) ==
  /\ pc[p] = "up"
  /\ Goto(p, "over")
  /\ records' = [records EXCEPT ![p] = @ \cap {HostRecord}]
  /\ broker' = [broker EXCEPT ![p] = IF @ = "none" THEN @ ELSE "ended"]
  /\ UNCHANGED <<options, downloads, files, loaded, trusted, histories>>

\* SIGINT, SIGTERM or SIGHUP, or the broker's end: what is up comes down.
Stop(p) ==
  /\ pc[p] = "up"
  /\ Goto(p, "over")
  /\ records' = [records EXCEPT ![p] = {}]
  /\ broker' = [broker EXCEPT ![p] = IF @ = "none" THEN @ ELSE "ended"]
  /\ UNCHANGED <<options, downloads, files, loaded, trusted, histories>>

\* Killed, or its next file operation raises, before there is a broker.
Interrupt(p) ==
  /\ p \in BringingUp
  /\ Goto(p, "over")
  /\ cut' = [cut EXCEPT ![p] = pc[p]]
  /\ UNCHANGED <<options, broker, records, downloads, files, loaded, trusted, disturbed, aged>>

-----------------------------------------------------------------------------
(* Mosquitto and time.                                                     *)

\* What a broker listens on; without a configuration, locally only.
Opened(text) ==
  IF text \in Invocations THEN listeners(options[text].profile, options[text].debug)
  ELSE {PlaintextListener(1883, FALSE, TRUE)}

Ports(text) == {l.port : l \in Opened(text)}
Held == UNION {Ports(loaded[p]) : p \in {q \in Invocations : broker[q] = "serving"}}

\* A mixture may be refused; a port that another broker holds ends this one.
Load(p) ==
  /\ broker[p] = "starting"
  /\ conf # "absent"
  /\ Ports(conf) \cap Held = {}
  /\ broker' = [broker EXCEPT ![p] = "serving"]
  /\ loaded' = [loaded EXCEPT ![p] = conf]
  /\ trusted' = [trusted EXCEPT ![p] = cache]
  /\ UNCHANGED <<options, pc, records, downloads, files, histories>>

EndsStarting(p) ==
  /\ broker[p] = "starting"
  /\ broker' = [broker EXCEPT ![p] = "ended"]
  /\ UNCHANGED <<options, pc, records, downloads, files, loaded, trusted, histories>>

Older(ca) == IF ca = "fresh" THEN "near" ELSE IF ca = "near" THEN "lapsed" ELSE ca

\* No bring-up takes a day, by which the CA is near its end before it lapses.
Age ==
  /\ BringingUp \cap aged = {}
  /\ \A p \in Invocations : broker[p] = "starting" => p \notin aged
  /\ cache' = Older(cache) /\ offered' = Older(offered)
  /\ answer' = [p \in Invocations |-> IF pc[p] \in {"open_ca", "write_ca"} THEN Older(answer[p]) ELSE answer[p]]
  /\ aged' = aged \cup BringingUp \cup {p \in Invocations : broker[p] = "starting"}
  /\ UNCHANGED <<options, pc, broker, records, conf, private, loaded, trusted, disturbed, cut>>

\* The panel has a new CA.
PanelRenews ==
  /\ offered # "fresh"
  /\ offered' = "fresh"
  /\ UNCHANGED <<options, pc, broker, records, answer, files, loaded, trusted, histories>>

Step(p) ==
  \/ Start(p) \/ CheckCa(p) \/ Download(p) \/ OpenCa(p) \/ WriteCa(p) \/ Find(p)
  \/ OpenConf(p) \/ WriteConf(p) \/ Chmod(p) \/ Launch(p) \/ Advertise(p)
  \/ Stop(p) \/ Interrupt(p) \/ Load(p) \/ EndsStarting(p)

Next == (\E p \in Invocations : Step(p)) \/ Age \/ PanelRenews

Spec == Init /\ [][Next]_vars

-----------------------------------------------------------------------------
(* The properties.                                                         *)

\* Is this broker serving from a mosquitto.conf that was its own throughout?
OnItsOwn(p) == broker[p] = "serving" /\ p \notin disturbed

\* What a runner advertises is what its broker listens on for others, whatever
\* has become of mosquitto.conf since (profiles.py:4-8, broker.py:119).
ServesWhatItAdvertises ==
  \A p \in Invocations : OnItsOwn(p) /\ records[p] # {} =>
    records[p] = {Record(l) : l \in {k \in Opened(loaded[p]) : ~k.local}} \cup {HostRecord}

\* What becomes of p's bridge in its mosquitto.conf, and what a blank username
\* costs it (mosquitto.conf.j2:93).
RenderedBridge(p) == Section(Bridge(options[p]), Blank(options[p]))
Lost(o) == IF "username" \in Blank(o) THEN {"username", "password"} ELSE {}

\* A broker runs with every credential that its bridge was given, and over TLS if
\* it was given a CA or a client certificate, unless the username is blank: then
\* both credentials are gone, and nothing else (bridge.py:103-112). The password
\* of such a bridge is lost without a word, although the two were "given together".
OptionsReachBroker ==
  \A p \in Invocations : OnItsOwn(p) /\ ~Refused(options[p]) =>
    /\ loaded[p] = p
    /\ Bridge(options[p]) \ ({"insecure"} \cup Lost(options[p])) \subseteq RenderedBridge(p)

\* What p renders has the password of its bridge in it.
Secret(p) == "password" \in RenderedBridge(p) \ Blank(options[p])

\* A mosquitto.conf with a password is its owner's only, save between the write
\* and the chmod (broker.py:123-125); whoever was interrupted there leaves it so.
PasswordIsOwnerOnly ==
  conf \in Invocations /\ Secret(conf) /\ ~private =>
    \E p \in Invocations : Secret(p) /\ (pc[p] = "chmod" \/ cut[p] = "chmod")

\* Has p found a certificate in the cache, or begun to download one, that its
\* broker has yet to read?
Relies(p) ==
  /\ options[p].panel # "none"
  /\ \/ pc[p] \in Steps \ {"check", "advertise"}
     \/ broker[p] = "starting"

\* What a bring-up relies on stays a certificate while no panel answers. What can
\* spoil it is a download: one that is being written or was cut off there, one that
\* brought something else and was not looked at, two that fell together
\* (span.py:103-106).
OnlyDownloadsSpoilCache ==
  cache = "broken" /\ (\E p \in Invocations : Relies(p)) =>
    \E q \in Invocations :
      \/ pc[q] = "write_ca" \/ cut[q] = "write_ca" \/ answer[q] = "broken"
      \/ \E r \in Invocations \ {q} : answer[q] # "none" /\ answer[r] # "none"

\* The downloads that have begun.
Downloading == {p \in Invocations : pc[p] \in {"download", "open_ca", "write_ca"}}

\* A cached CA that does not parse is there for good: every later bring-up with
\* the panel stops at it, and none downloads it again (span.py:95).
BrokenCacheStays ==
  [][cache = "broken" /\ Downloading = {} => cache' = "broken" /\ Downloading' = {}]_vars

\* A panel's bridge that starts with an expired CA, or with none that parses, owes
\* it to the panel: a day's slack outlasts the bring-up, and only a download that
\* came near its end or expired is used all the same (span.py:79-107).
StartsWithCurrentCa ==
  \A p \in Invocations : broker[p] = "serving" /\ options[p].panel # "none" =>
    \/ trusted[p] \in {"fresh", "near"}
    \/ trusted[p] = "lapsed" /\ \E q \in Invocations : answer[q] \in {"near", "lapsed"}
    \/ trusted[p] = "broken" /\ \E q \in Invocations : answer[q] # "none"
=============================================================================
