------------------------- MODULE AccessPolicyProofs -------------------------
(***************************************************************************)
(* Theorems of AccessPolicy, for every set of clients, children and roles  *)
(* and every registry over them.                                           *)
(***************************************************************************)
EXTENDS AccessPolicy, GrantsProofs

\* A change of one client's slot leaves a registry a registry.
LEMMA ChangeTyped ==
  ASSUME NEW r \in Registry, NEW cn \in Clients, NEW entry \in Slot
  PROVE  [r EXCEPT ![cn] = entry] \in Registry
BY DEF Registry

\* Every variable keeps its type: a broker runs a configuration that can be
\* rendered, a session is one of a listener of such a configuration.
THEOREM TypeCorrect == Spec => []TypeOK
<1>1. Init => TypeOK
  BY DEF Init, TypeOK, EmptyRegistry, Registry, Slot
<1>2. TypeOK /\ [Next]_vars => TypeOK'
  <2> SUFFICES ASSUME TypeOK, [Next]_vars PROVE TypeOK'
    OBVIOUS
  <2> USE DEF TypeOK
  <2>1. ASSUME NEW profile \in Profiles, NEW debugPort \in DebugPorts \cup {NoPort},
               BringUp(profile, debugPort)
        PROVE  TypeOK'
    BY <2>1 DEF BringUp, Configs
  <2>2. CASE StopBroker
    BY <2>2 DEF StopBroker
  <2>3. CASE Reinstall
    BY <2>3 DEF Reinstall
  <2>4. ASSUME NEW cn \in Clients, NEW entry \in Slot, Change(cn, entry) PROVE TypeOK'
    BY <2>4, ChangeTyped DEF Change
  <2>5. ASSUME broker # Off, NEW l \in broker.listeners, NEW cred \in Credentials,
               Connect(l, cred)
        PROVE  TypeOK'
    <3>1. l \in UNION {c.listeners : c \in Configs}
      BY <2>5
    <3> QED BY <2>5, <3>1 DEF Connect, Session
  <2>6. CASE Disconnect
    BY <2>6 DEF Disconnect
  <2>7. ASSUME NEW topic \in Topics, Publish(topic) PROVE TypeOK'
    BY <2>7 DEF Publish, Message
  <2>8. CASE UNCHANGED vars
    BY <2>8 DEF vars
  <2> QED BY <2>1, <2>2, <2>3, <2>4, <2>5, <2>6, <2>7, <2>8 DEF Next
<1> QED BY <1>1, <1>2, PTL DEF Spec

-----------------------------------------------------------------------------
(* The inductive invariant: a session was admitted by the broker it is     *)
(* connected to, and an accepted message is the session's and may still be *)
(* written, because whatever changes the policy forgets it.                *)

SessionAdmitted ==
  session # Off =>
    /\ broker # Off
    /\ session.listener \in broker.listeners
    /\ session.cred \in Credentials
    /\ Admits(broker, session.listener, session.cred)

AcceptedMayBeWritten ==
  accepted # Off =>
    /\ session # Off
    /\ accepted.by = session
    /\ accepted.topic \in Topics
    /\ May("write", broker, session.listener, User, accepted.topic)

IInv ==
  /\ broker # Off => DebugPortFits(broker.profile, broker.debugPort)
  /\ SessionAdmitted
  /\ AcceptedMayBeWritten

\* Every step preserves the invariant.
LEMMA IInvHolds == IInv /\ TypeOK /\ [Next]_vars => IInv'
<1> SUFFICES ASSUME IInv, TypeOK, [Next]_vars PROVE IInv'
  OBVIOUS
<1> USE DEF IInv, SessionAdmitted, AcceptedMayBeWritten
<1>1. ASSUME NEW profile \in Profiles, NEW debugPort \in DebugPorts \cup {NoPort},
             BringUp(profile, debugPort)
      PROVE  IInv'
  BY <1>1 DEF BringUp, RenderConfig
<1>2. CASE StopBroker
  BY <1>2 DEF StopBroker
<1>3. CASE Reinstall
  BY <1>3 DEF Reinstall
<1>4. ASSUME NEW cn \in Clients, NEW entry \in Slot, Change(cn, entry) PROVE IInv'
  BY <1>4 DEF Change
<1>5. ASSUME broker # Off, NEW l \in broker.listeners, NEW cred \in Credentials,
             Connect(l, cred)
      PROVE  IInv'
  BY <1>5 DEF Connect
<1>6. CASE Disconnect
  BY <1>6 DEF Disconnect
<1>7. ASSUME NEW topic \in Topics, Publish(topic) PROVE IInv'
  BY <1>7 DEF Publish, May, User
<1>8. CASE UNCHANGED vars
  BY <1>8 DEF vars, May, User
<1> QED BY <1>1, <1>2, <1>3, <1>4, <1>5, <1>6, <1>7, <1>8 DEF Next

\* The inductive invariant holds: it does at the start and every step keeps it.
LEMMA IInvInvariant == Spec => []IInv
<1>1. Init => IInv
  BY DEF Init, IInv, SessionAdmitted, AcceptedMayBeWritten
<1> QED BY <1>1, TypeCorrect, IInvHolds, PTL DEF Spec

-----------------------------------------------------------------------------
(* Configurations.                                                         *)

\* What a configuration was rendered from, and its parts.
LEMMA ConfigParts ==
  ASSUME NEW conf \in Configs
  PROVE  /\ conf.profile \in Profiles
         /\ conf.debugPort \in DebugPorts \cup {NoPort}
         /\ conf.listeners = listeners(conf.profile, conf.debugPort)
         /\ PerListener(conf.listeners) => conf.scoped
<1>1. PICK profile \in Profiles, debugPort \in DebugPorts \cup {NoPort}, withPlugins \in BOOLEAN :
        conf = RenderConfig(profile, debugPort, withPlugins)
  BY DEF Configs
<1> QED BY <1>1 DEF RenderConfig

\* Of the listeners of a configuration those with TLS have the ACL; outside `open`
\* those without the ACL are the debug tap of this host; `strict` has no others.
LEMMA ListenerKinds ==
  ASSUME NEW conf \in Configs, NEW l \in conf.listeners
  PROVE  /\ l.tls \in BOOLEAN /\ l.acl \in BOOLEAN /\ l.local \in BOOLEAN
         /\ l.tls => l.acl
         /\ conf.profile # "open" => l.acl \/ l.local
         /\ conf.profile = "strict" => l.tls \/ l.local
<1>1. l \in listeners(conf.profile, conf.debugPort) /\ conf.profile \in Profiles
  BY ConfigParts
<1>2. \/ l = MtlsListener
      \/ l = PlaintextListener(1883, TRUE, FALSE) /\ conf.profile = "discovery"
      \/ l = PlaintextListener(conf.debugPort, FALSE, TRUE)
      \/ l = PlaintextListener(1883, FALSE, FALSE) /\ conf.profile = "open"
  BY <1>1 DEF listeners, ProfileListeners, Profiles, MtlsListener, PlaintextListener, Listener
<1>3. CASE l = MtlsListener
  BY <1>3 DEF MtlsListener, Listener
<1>4. CASE l = PlaintextListener(1883, TRUE, FALSE) /\ conf.profile = "discovery"
  BY <1>4 DEF PlaintextListener, Listener
<1>5. CASE l = PlaintextListener(conf.debugPort, FALSE, TRUE)
  BY <1>5 DEF PlaintextListener, Listener
<1>6. CASE l = PlaintextListener(1883, FALSE, FALSE) /\ conf.profile = "open"
  BY <1>6 DEF PlaintextListener, Listener
<1> QED
  BY <1>2, <1>3, <1>4, <1>5, <1>6 DEF MtlsListener, PlaintextListener, Listener

\* The listeners of a profile are on ports of their own.
LEMMA OwnPorts ==
  ASSUME NEW profile, NEW l \in ProfileListeners(profile), NEW m \in ProfileListeners(profile),
         l.port = m.port
  PROVE  l = m
<1>1. CASE profile = "open"
  <2> DEFINE only == PlaintextListener(1883, FALSE, FALSE)
  <2>1. l = only /\ m = only
    BY <1>1 DEF ProfileListeners, PlaintextListener, Listener
  <2> HIDE DEF only
  <2> QED BY <2>1
<1>2. CASE profile # "open"
  <2> DEFINE window == PlaintextListener(1883, TRUE, FALSE)
  <2>1. l \in {MtlsListener, window} /\ m \in {MtlsListener, window}
    BY <1>2 DEF ProfileListeners, MtlsListener, PlaintextListener, Listener
  <2>2. MtlsListener.port # window.port
    BY DEF MtlsListener, PlaintextListener, Listener
  <2> HIDE DEF window
  <2> QED BY <2>1, <2>2
<1> QED BY <1>1, <1>2

\* A listener's own rules are in force on it in either form.
LEMMA OwnRulesInForce ==
  ASSUME NEW conf, NEW l \in conf.listeners
  PROVE  Rules(l) \subseteq RulesInForce(conf, l)
BY DEF RulesInForce

\* In an unscoped configuration every listener has the same rules.
LEMMA UnscopedIsUniform ==
  ASSUME NEW conf \in Configs, ~conf.scoped, NEW l \in conf.listeners
  PROVE  RulesInForce(conf, l) = Rules(l)
<1>1. ~PerListener(conf.listeners)
  BY ConfigParts
<1>2. \A m \in conf.listeners : Rules(m) = Rules(l)
  <2> SUFFICES ASSUME NEW m \in conf.listeners PROVE Rules(m) = Rules(l)
    OBVIOUS
  <2>1. l.acl \in BOOLEAN /\ m.acl \in BOOLEAN
    BY ListenerKinds
  <2>2. m.acl = l.acl /\ (l.acl => l.tls /\ m.tls)
    BY <1>1, <2>1 DEF PerListener
  <2> QED BY <2>2 DEF Rules
<1> QED BY <1>2 DEF RulesInForce

-----------------------------------------------------------------------------
(* Grants.                                                                 *)

\* What a client with a username may write is what is documented.
LEMMA UserWritesDocumented ==
  ASSUME TypeOK, NEW cn \in Clients, NEW topic \in Topics
  PROVE  Allows(GrantedTo(RenderAcl(registry), cn), "write", cn, topic) <=> DocumentedWrite(cn, topic)
<1>1. cn # NoOne /\ registry \in Registry
  BY SentinelAssumption DEF TypeOK
<1>2. GrantedTo(RenderAcl(registry), cn) = FiltersFor(RenderAcl(registry), cn)
  BY <1>1 DEF GrantedTo
<1> QED BY <1>1, <1>2, AclIsDocumented DEF DocumentedWrite

\* No filter lets a client without a username write.
LEMMA AnonymousWritesNothing ==
  ASSUME NEW topic \in Topics
  PROVE  ~Allows(GrantedTo(RenderAcl(registry), NoOne), "write", NoOne, topic)
<1>1. \A filter \in GrantedTo(RenderAcl(registry), NoOne) :
        filter[1] \in {"write", "readwrite"} => filter = <<"readwrite", "own">>
  BY DEF GrantedTo, RenderAcl, DefaultAcl
<1>2. topic \in Tree => topic.at # NoOne
  BY SentinelAssumption DEF Tree, DeviceTopics, BroadcastTopic, Devices
<1> QED BY <1>1, <1>2 DEF Allows, Matches

-----------------------------------------------------------------------------
(* The theorems.                                                           *)

\* Outside `open`, whatever the registry, a message that is accepted comes from
\* this host's debug tap or from a client that proved a CN the documentation
\* lets write it (auth.py, profiles.py, broker.py render_config).
THEOREM WritesAreDocumented == Spec => []OnlyDocumentedWrites
<1>1. IInv /\ TypeOK => OnlyDocumentedWrites
  <2> SUFFICES ASSUME IInv, TypeOK, accepted # Off, broker.profile # "open"
               PROVE  \/ session.listener.local /\ session.cred.here
                      \/ session.listener.tls /\ DocumentedWrite(session.cred.cn, accepted.topic)
    BY DEF OnlyDocumentedWrites, IInv, AcceptedMayBeWritten
  <2> DEFINE l == session.listener
             cred == session.cred
             topic == accepted.topic
  <2>1. /\ session # Off /\ broker \in Configs /\ l \in broker.listeners
        /\ cred \in Credentials /\ Admits(broker, l, cred)
        /\ topic \in Topics /\ May("write", broker, l, Username(l, cred), topic)
    BY DEF IInv, AcceptedMayBeWritten, SessionAdmitted, TypeOK, User
  <2>2. CASE l.tls
    <3>1. l.tls /\ l.acl
      BY <2>1, <2>2, ListenerKinds
    <3>2. cred.cn \in Clients /\ Username(l, cred) = cred.cn
      BY <2>1, <3>1 DEF Admits, Credentials, Username
    <3>3. "acl" \in RulesInForce(broker, l)
      BY <2>1, <3>1, OwnRulesInForce DEF Rules
    <3>4. Allows(GrantedTo(RenderAcl(registry), cred.cn), "write", cred.cn, topic)
      BY <2>1, <3>2, <3>3 DEF May
    <3> QED BY <2>1, <3>1, <3>2, <3>4, UserWritesDocumented
  <2>3. CASE ~l.tls /\ l.acl
    <3>2. {"acl", "nousers"} \subseteq RulesInForce(broker, l)
      BY <2>1, <2>3, OwnRulesInForce DEF Rules
    <3>3. Username(l, cred) = NoOne
      BY <2>1, <2>3, <3>2 DEF Admits, Username
    <3>4. Allows(GrantedTo(RenderAcl(registry), NoOne), "write", NoOne, topic)
      BY <2>1, <3>2, <3>3 DEF May
    <3> QED BY <2>1, <3>4, AnonymousWritesNothing
  <2>4. CASE l.local
    BY <2>1, <2>4 DEF Admits
  <2> QED BY <2>1, <2>2, <2>3, <2>4, ListenerKinds
<1> QED BY <1>1, IInvInvariant, TypeCorrect, PTL

\* Whatever the registry and the form of the configuration, a client on the mTLS
\* listener can write all that the documentation lets it (clients.py acl_sections).
THEOREM GrantsWork == Spec => []DocumentedWritesWork
<1>1. IInv /\ TypeOK => DocumentedWritesWork
  <2> SUFFICES ASSUME IInv, TypeOK, session # Off, session.listener.tls, NEW topic \in Topics,
                      DocumentedWrite(session.cred.cn, topic)
               PROVE  May("write", broker, session.listener, User, topic)
    BY DEF DocumentedWritesWork
  <2>1. session.cred.cn \in Clients /\ User = session.cred.cn
    BY DEF IInv, SessionAdmitted, Credentials, Admits, User, Username
  <2> QED BY <2>1, UserWritesDocumented DEF May
<1> QED BY <1>1, IInvInvariant, TypeCorrect, PTL

\* Every session can read the whole tree (auth.py DEFAULT_ACL).
THEOREM ReadingIsOpen == Spec => []TreeIsReadable
<1>1. TreeIsReadable
  <2> SUFFICES ASSUME session # Off, NEW topic \in Tree
               PROVE  May("read", broker, session.listener, User, topic)
    BY DEF TreeIsReadable
  <2>1. <<"read", "tree">> \in GrantedTo(RenderAcl(registry), User)
    BY DEF GrantedTo, FiltersFor, RenderAcl, DefaultAcl
  <2> QED BY <2>1 DEF May, Allows, Matches
<1> QED BY <1>1, PTL

\* Both forms of mosquitto.conf admit the same clients and grant them the same
\* (broker.py render_config, mosquitto.conf.j2).
THEOREM FormsAreEquivalent == Spec => []FormsAgree
<1>1. TypeOK => FormsAgree
  <2> SUFFICES ASSUME TypeOK, broker # Off, ~broker.scoped, NEW l \in broker.listeners,
                      NEW other, other = [broker EXCEPT !.scoped = TRUE]
               PROVE  RulesInForce(broker, l) = RulesInForce(other, l)
    BY DEF FormsAgree, Admits, May
  <2>1. broker \in Configs
    BY DEF TypeOK
  <2>2. other.scoped
    BY <2>1 DEF Configs, RenderConfig
  <2> QED BY <2>1, <2>2, UnscopedIsUniform DEF RulesInForce
<1> QED BY <1>1, TypeCorrect, PTL

\* In `strict` nobody is connected but over mTLS or, from this host, to the debug
\* tap; and no broker has two listeners on one port (profiles.py, broker.py).
THEOREM StrictHasNoWindow == Spec => []StrictIsClosed
<1>1. IInv /\ TypeOK => StrictIsClosed
  <2> SUFFICES ASSUME IInv, TypeOK, broker # Off PROVE StrictIsClosed
    BY DEF StrictIsClosed
  <2>1. broker \in Configs
    BY DEF TypeOK
  <2>2. ASSUME NEW l \in broker.listeners, NEW m \in broker.listeners, l.port = m.port
        PROVE  l = m
    <3> DEFINE own == ProfileListeners(broker.profile)
               tap == PlaintextListener(broker.debugPort, FALSE, TRUE)
    <3>1. broker.profile \in Profiles /\ \A n \in broker.listeners : n \in own \/ n = tap
      BY <2>1, ConfigParts DEF listeners, PlaintextListener, Listener
    <3>2. \A n \in own : n.port # tap.port
      BY DEF IInv, DebugPortFits, profile_ports, listeners, PlaintextListener, Listener
    <3>3. ASSUME l \in own, m \in own PROVE l = m
      BY <2>2, <3>3, OwnPorts
    <3> QED BY <2>2, <3>1, <3>2, <3>3
  <2>3. ASSUME session # Off, broker.profile = "strict"
        PROVE  session.listener.tls \/ session.cred.here
    BY <2>1, <2>3, ListenerKinds DEF IInv, SessionAdmitted, Admits
  <2> QED BY <2>2, <2>3 DEF StrictIsClosed
<1> QED BY <1>1, IInvInvariant, TypeCorrect, PTL
=============================================================================
