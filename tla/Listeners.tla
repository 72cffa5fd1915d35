----------------------------- MODULE Listeners -----------------------------
(***************************************************************************)
(* The security profiles (laptop/profiles.py): a profile resolves to a set *)
(* of listeners, and that one set drives both the rendered configuration   *)
(* and the mDNS records (laptop/advertiser.py).                            *)
(***************************************************************************)

Profiles == {"open", "discovery", "strict"}
NoPort == 0

Listener(port, tls, acl, local) ==
  [port |-> port, tls |-> tls, acl |-> acl, local |-> local]

\* The mTLS listener requires a certificate and takes its CN for the username.
MtlsListener == Listener(8883, TRUE, TRUE, FALSE)
PlaintextListener(port, acl, local) == Listener(port, FALSE, acl, local)

ProfileListeners(profile) ==
  (IF profile = "open" THEN {PlaintextListener(1883, FALSE, FALSE)} ELSE {MtlsListener})
  \cup (IF profile = "discovery" THEN {PlaintextListener(1883, TRUE, FALSE)} ELSE {})

\* Mutant: the debug tap is bound to every interface.
ListenersWithOpenTap(profile, debugPort) ==
  ProfileListeners(profile)
  \cup (IF debugPort = NoPort THEN {} ELSE {PlaintextListener(debugPort, FALSE, FALSE)})

listeners(profile, debugPort) ==
  ProfileListeners(profile)
  \cup (IF debugPort = NoPort THEN {} ELSE {PlaintextListener(debugPort, FALSE, TRUE)})

profile_ports(profile) == {l.port : l \in listeners(profile, NoPort)}

\* --debug-port may not be one of the profile's own ports.
DebugPortFits(profile, debugPort) == debugPort \notin profile_ports(profile)

\* Mutant of advertised_listeners: what `discovery` advertises.
AdvertisedByDefault(profile) == {l \in listeners("discovery", NoPort) : ~l.local}

advertised_listeners(profile) == {l \in listeners(profile, NoPort) : ~l.local}

\* The record of a listener: the service type says how it is to be reached.
Record(l) == [type |-> IF l.tls THEN "_secure-mqtt" ELSE "_mqtt", port |-> l.port]

\* advertiser_config: a record for each advertised listener, and the host's own.
HostRecord == [type |-> "_ebus", port |-> NoPort]
RecordsOf(profile) == {Record(l) : l \in advertised_listeners(profile)} \cup {HostRecord}
=============================================================================
