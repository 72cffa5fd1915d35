---------------------------- MODULE AccessPolicy ----------------------------
(***************************************************************************)
(* What a client of the running broker may do: the listeners of a security *)
(* profile (laptop/profiles.py), the mosquitto.conf rendered from them in  *)
(* its 2.0 or 2.1 form (laptop/broker.py, mosquitto.conf.j2), the ACL      *)
(* rendered from the client registry (Grants), and how Mosquitto, which is *)
(* external, admits a client and decides on a topic with them.             *)
(*                                                                         *)
(* Commands run one at a time here and are in force when they end: what    *)
(* overlapping and interrupted ones do is ClientRegistry's subject.        *)
(***************************************************************************)
EXTENDS Grants, Listeners

CONSTANTS NoOne,  \* no username, no certificate
          Off     \* no broker; no session; no message

DebugPorts == {1883, 1884, 8883}  \* two that may collide and one that does not

ASSUME SentinelAssumption == NoOne \notin Clients \cup Children \cup {"broadcast"}

VARIABLES
  plugins,   \* the installed mosquitto is 2.1 or later, with both its plugins
  broker,    \* the configuration the running broker has loaded
  registry,  \* the client registry; the broker's ACL is what it renders to
  session,   \* the client that is connected
  accepted   \* the message the last step made the broker accept

vars == <<plugins, broker, registry, session, accepted>>

-----------------------------------------------------------------------------
(* broker.py, mosquitto.conf.j2                                            *)

\* Mutant: the anonymous window gets no password file.
RulesWithoutNoUsers(l) == IF l.acl THEN {"acl"} ELSE {}

\* What a listener's block refers to: the ACL and, for the anonymous window, the
\* empty password file. Both forms of the file have the same references.
Rules(l) == {r \in {"acl", "nousers"} : l.acl /\ (r = "nousers" => ~l.tls)}

\* Mutant: only the anonymous window asks for per_listener_settings.
PerListenerForWindow(ls) == \E l \in ls : l.acl /\ ~l.tls

\* The 2.0 form scopes its settings only where the listeners disagree on them.
PerListener(ls) ==
  \/ \E l \in ls : l.acl /\ ~l.tls
  \/ (\E l \in ls : l.acl) /\ (\E l \in ls : ~l.acl)

\* With the plugins the references are plugin_use lines of their listener;
\* without them they are global settings unless per_listener_settings is on.
RenderConfig(profile, debugPort, withPlugins) ==
  LET ls == listeners(profile, debugPort) IN
  [profile |-> profile, debugPort |-> debugPort, listeners |-> ls,
   scoped |-> withPlugins \/ PerListener(ls)]

Configs ==
  {RenderConfig(profile, debugPort, withPlugins) :
     profile \in Profiles, debugPort \in DebugPorts \cup {NoPort}, withPlugins \in BOOLEAN}

-----------------------------------------------------------------------------
(* Mosquitto.                                                              *)

RulesInForce(conf, l) ==
  IF conf.scoped THEN Rules(l) ELSE UNION {Rules(m) : m \in conf.listeners}

\* What a client shows: the CN of a certificate of the dev CA, a username, and
\* whether it runs on this host.
Credentials == [cn : Clients \cup {NoOne}, claims : Clients \cup {NoOne}, here : BOOLEAN]

Username(l, cred) == IF l.tls THEN cred.cn ELSE cred.claims

Admits(conf, l, cred) ==
  /\ l.tls => cred.cn # NoOne
  /\ l.local => cred.here
  /\ "nousers" \in RulesInForce(conf, l) /\ ~l.tls => cred.claims = NoOne

\* An anonymous client has the patterns only.
GrantedTo(acl, user) == IF user = NoOne THEN acl.patterns ELSE FiltersFor(acl, user)

May(access, conf, l, user, topic) ==
  "acl" \in RulesInForce(conf, l) =>
    Allows(GrantedTo(RenderAcl(registry), user), access, user, topic)

-----------------------------------------------------------------------------
Session == [listener : UNION {c.listeners : c \in Configs}, cred : Credentials]
Message == [topic : Topics, by : Session]

TypeOK ==
  /\ plugins \in BOOLEAN
  /\ broker \in Configs \cup {Off}
  /\ registry \in Registry
  /\ session \in Session \cup {Off}
  /\ accepted \in Message \cup {Off}

Init ==
  /\ plugins \in BOOLEAN
  /\ broker = Off
  /\ registry = EmptyRegistry
  /\ session = Off
  /\ accepted = Off

BringUp(profile, debugPort) ==
  /\ broker = Off
  /\ DebugPortFits(profile, debugPort)
  /\ broker' = RenderConfig(profile, debugPort, plugins)
  /\ accepted' = Off
  /\ UNCHANGED <<plugins, registry, session>>

StopBroker ==
  /\ broker # Off
  /\ broker' = Off
  /\ session' = Off
  /\ accepted' = Off
  /\ UNCHANGED <<plugins, registry>>

\* Another mosquitto is installed, with or without the plugins.
Reinstall ==
  /\ plugins' = ~plugins
  /\ accepted' = Off
  /\ UNCHANGED <<broker, registry, session>>

\* Mutant: `remove` leaves a null behind.
ChangeToNull(cn, entry) ==
  /\ registry' = [registry EXCEPT ![cn] = IF entry = NoEntry THEN Off ELSE entry]
  /\ accepted' = Off
  /\ UNCHANGED <<plugins, broker, session>>

\* clients.py set, or remove with NoEntry: sessions go on under the new ACL.
Change(cn, entry) ==
  /\ registry' = [registry EXCEPT ![cn] = entry]
  /\ accepted' = Off
  /\ UNCHANGED <<plugins, broker, session>>

Connect(l, cred) ==
  /\ session = Off
  /\ Admits(broker, l, cred)
  /\ session' = [listener |-> l, cred |-> cred]
  /\ accepted' = Off
  /\ UNCHANGED <<plugins, broker, registry>>

Disconnect ==
  /\ session # Off
  /\ session' = Off
  /\ accepted' = Off
  /\ UNCHANGED <<plugins, broker, registry>>

User == Username(session.listener, session.cred)

Publish(topic) ==
  /\ session # Off
  /\ May("write", broker, session.listener, User, topic)
  /\ accepted' = [topic |-> topic, by |-> session]
  /\ UNCHANGED <<plugins, broker, registry, session>>

Next ==
  \/ \E profile \in Profiles, debugPort \in DebugPorts \cup {NoPort} : BringUp(profile, debugPort)
  \/ StopBroker
  \/ Reinstall
  \/ \E cn \in Clients, entry \in Slot : Change(cn, entry)
  \/ broker # Off /\ \E l \in broker.listeners, cred \in Credentials : Connect(l, cred)
  \/ Disconnect
  \/ \E topic \in Topics : Publish(topic)

Spec == Init /\ [][Next]_vars

-----------------------------------------------------------------------------
(* Properties.                                                             *)

\* What the documentation lets a client write; an anonymous one nothing.
DocumentedWrite(cn, topic) == cn # NoOne /\ Documented(registry, cn, topic)

\* Outside `open`, a message the broker accepts comes from this host's debug tap
\* or from a client whose certificate proves a CN that the documentation lets
\* write that topic, whatever username it claims (auth.py, broker.py).
OnlyDocumentedWrites ==
  accepted # Off /\ broker.profile # "open" =>
    \/ accepted.by.listener.local /\ accepted.by.cred.here
    \/ accepted.by.listener.tls /\ DocumentedWrite(accepted.by.cred.cn, accepted.topic)

\* ... and all that the documentation lets it write it can write: no registry
\* change or form of the configuration withholds a grant from its client.
DocumentedWritesWork ==
  session # Off /\ session.listener.tls =>
    \A topic \in Topics : DocumentedWrite(session.cred.cn, topic) =>
      May("write", broker, session.listener, User, topic)

\* Whoever is connected can read the whole tree: an authenticated client on the
\* mTLS listener as well as an anonymous one on the window (auth.py:10-12,
\* docs/security-profiles.md:33). Of the window other texts promise less:
\* "lifecycle topics, nothing else" (mosquitto.conf.j2:25, profiles.py:25-26,
\* docs/laptop-quickstart.md:88), which is not so.
TreeIsReadable ==
  session # Off => \A topic \in Tree : May("read", broker, session.listener, User, topic)

\* Both forms of mosquitto.conf admit the same clients and let them do the same:
\* "per_listener_settings is needed only when listeners disagree" (broker.py).
FormsAgree ==
  broker # Off /\ ~broker.scoped =>
    LET other == [broker EXCEPT !.scoped = TRUE] IN
    \A l \in broker.listeners, cred \in Credentials :
      /\ Admits(broker, l, cred) <=> Admits(other, l, cred)
      /\ Admits(broker, l, cred) =>
           \A topic \in Topics, access \in {"read", "write"} :
             May(access, broker, l, Username(l, cred), topic)
               <=> May(access, other, l, Username(l, cred), topic)

\* In `strict` a client that is not on the mTLS listener is on the debug tap and
\* runs on this host, and no two listeners of a broker share a port (profiles.py).
StrictIsClosed ==
  broker # Off =>
    /\ \A l, m \in broker.listeners : l.port = m.port => l = m
    /\ session # Off /\ broker.profile = "strict" =>
         session.listener.tls \/ session.cred.here
=============================================================================
