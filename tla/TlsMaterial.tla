---------------------------- MODULE TlsMaterial ----------------------------
(***************************************************************************)
(* The dev TLS material of laptop/certs.py: a CA, the broker's server      *)
(* certificate and client certificates, kept as key and certificate files  *)
(* in the state directory.  `laptop.certs`, every bring-up of the broker   *)
(* (prepare) and the verify_* tools (mint_client_cert) read and mint them, *)
(* and none of them takes a lock.  A process is one invocation.            *)
(*                                                                         *)
(* A certificate is the record of what the code and its peers look at. It  *)
(* is identified by its key, which is generated with it. write_bytes       *)
(* truncates the file and writes it when it closes it: two steps.          *)
(***************************************************************************)
EXTENDS Naturals, Sequences

CONSTANTS Procs,     \* the invocations that may be in flight at once
          Clients,   \* client ids that are minted
          ClientLists,  \* the lists of them that --client, repeated, may give
          Keys,      \* key pairs; at most |Keys| of them are in use at once
          Hosts,     \* values of --hostname (default: the Bonjour name)
          Addresses, \* routable addresses this host may have
          Absent,    \* no file; no broker; nothing in memory
          Torn,      \* a file truncated, or two overlapping writes mixed
          Nobody     \* the signer of a certificate nobody can validate

VARIABLES
  caKey,     \* ca.key: the key
  caCert,    \* ca.crt: the key it is self-signed with
  leafKey,   \* server.key and each client.key
  leafCert,  \* server.crt and each client.crt
  addrs,     \* this host's routable addresses now
  held,      \* what the running broker has loaded; Absent: no broker
  pc,        \* the next step of each process
  job,       \* what each process still has to do
  mem,       \* what it holds in memory: CA, signer, new key, addresses
  \* History, read by no guard.
  alone,     \* no two of the invocations in flight have overlapped
  clean      \* a --regenerate-ca has completed undisturbed since the last
             \* overlap or interruption

files == <<caKey, caCert, leafKey, leafCert>>
vars == <<files, addrs, held, pc, job, mem, alone, clean>>

Server == "server"
Leaves == Clients \cup {Server}
Cert == [key : Keys, signer : Keys \cup {Nobody}, valid : BOOLEAN,
         host : Hosts \cup {Absent}, ips : SUBSET Addresses]
Content == Keys \cup {Absent, Torn}

ASSUME SentinelAssumption ==
  /\ Absent # Torn /\ Absent # Nobody /\ Torn # Nobody
  /\ {Absent, Torn, Nobody} \cap Keys = {}
  /\ {Absent, Torn} \cap Cert = {}
  /\ "ca" \notin Leaves /\ Server \notin Clients

ASSUME HostsAssumption == Hosts # {}

ASSUME ListsAssumption == ClientLists \subseteq Seq(Clients)

\* An invocation's work: the pairs it ensures in order, and whether it starts
\* the broker at the end.
Job == [todo : Seq(Leaves \cup {"ca"}), regen : BOOLEAN, regenCa : BOOLEAN,
        host : Hosts, serve : BOOLEAN]
NoWork == [todo |-> <<>>, regen |-> FALSE, regenCa |-> FALSE,
           host |-> CHOOSE h \in Hosts : TRUE, serve |-> FALSE]

\* Mutant: --regenerate-ca keeps the leaves it makes worthless.
CertsJobsKeepingLeaves ==
  {[todo |-> <<"ca", Server>> \o minted, regen |-> regen, regenCa |-> regenCa,
    host |-> h, serve |-> FALSE] :
     minted \in ClientLists, regen \in BOOLEAN, regenCa \in BOOLEAN, h \in Hosts}

\* laptop.certs: --regenerate-ca implies new leaves (certs.py:416).
CertsJobs ==
  {[todo |-> <<"ca", Server>> \o minted, regen |-> regen \/ regenCa, regenCa |-> regenCa,
    host |-> h, serve |-> FALSE] :
     minted \in ClientLists, regen \in BOOLEAN, regenCa \in BOOLEAN, h \in Hosts}

\* A bring-up in a TLS profile: ensure_server_cert, then mosquitto.
BringUpJobs == {[NoWork EXCEPT !.todo = <<Server>>, !.host = h, !.serve = TRUE] : h \in Hosts}

\* verify_handshake and verify_loop mint one client.
MintJobs == {[NoWork EXCEPT !.todo = <<c>>] : c \in Clients}

Jobs == CertsJobs \cup BringUpJobs \cup MintJobs

NoMem == [ca |-> Absent, signer |-> Absent, key |-> Absent, ips |-> {}]
Steps == {"idle", "task", "ca_key_open", "ca_key_close", "ca_cert_open", "ca_cert_close",
          "load_key", "server_check", "key_open", "key_close", "cert_open", "cert_close",
          "launch"}

Busy == {p \in Procs : pc[p] # "idle"}

TypeOK ==
  /\ caKey \in Content /\ caCert \in Content
  /\ leafKey \in [Leaves -> Content]
  /\ leafCert \in [Leaves -> Cert \cup {Absent, Torn}]
  /\ addrs \subseteq Addresses
  /\ held \in [ca : Keys, cert : Cert] \cup {Absent}
  /\ pc \in [Procs -> Steps]
  /\ job \in [Procs -> Job]
  /\ mem \in [Procs -> [ca : Keys \cup {Absent}, signer : Keys \cup {Nobody, Absent},
                        key : Keys \cup {Absent}, ips : SUBSET Addresses]]
  /\ alone \in BOOLEAN
  /\ clean \in BOOLEAN

Init ==
  /\ caKey = Absent /\ caCert = Absent
  /\ leafKey = [l \in Leaves |-> Absent]
  /\ leafCert = [l \in Leaves |-> Absent]
  /\ addrs \in SUBSET Addresses
  /\ held = Absent
  /\ pc = [p \in Procs |-> "idle"]
  /\ job = [p \in Procs |-> NoWork]
  /\ mem = [p \in Procs |-> NoMem]
  /\ alone = TRUE
  /\ clean = TRUE

-----------------------------------------------------------------------------
Goto(p, step) == pc' = [pc EXCEPT ![p] = step]
Task(p) == Head(job[p].todo)

Exit(p) ==
  /\ Goto(p, "idle")
  /\ job' = [job EXCEPT ![p] = NoWork]
  /\ mem' = [mem EXCEPT ![p] = NoMem]
  /\ UNCHANGED alone

\* Nothing is written at these steps: an invocation that ends at one of them,
\* and replaces no CA, leaves whole pairs behind.
ReadOnlySteps == {"idle", "task", "load_key", "server_check", "launch"}
Harmless(p) == pc[p] \in ReadOnlySteps /\ ~job[p].regenCa

\* What a file has after a writer that opened it closes it: its text, or a mix
\* where another writer's text got in between.
Closed(content, text) == IF content \in {Torn, text} THEN {text} ELSE {text, Torn}

Certs == {leafCert[l] : l \in Leaves} \cap Cert
InUse ==
  {caKey, caCert} \cup {leafKey[l] : l \in Leaves}
    \cup (UNION {{c.key, c.signer} : c \in Certs})
    \cup (UNION {{mem[p].ca, mem[p].signer, mem[p].key} : p \in Procs})
    \cup (IF held = Absent THEN {} ELSE {held.ca, held.cert.key, held.cert.signer})

\* The pair of the first task is done; the next one, the broker, or the end.
NextTask(p) ==
  LET rest == Tail(job[p].todo) IN
  IF rest # <<>>
  THEN /\ Goto(p, "task")
       /\ job' = [job EXCEPT ![p].todo = rest]
       /\ mem' = [mem EXCEPT ![p] = NoMem]
       /\ UNCHANGED <<alone, clean>>
  ELSE IF job[p].serve
  THEN /\ Goto(p, "launch")
       /\ UNCHANGED <<job, mem, alone, clean>>
  ELSE /\ Exit(p)
       /\ clean' = (clean \/ (alone /\ job[p].regenCa))

-----------------------------------------------------------------------------
(* Starting, and reading what there is.                                    *)

Start(p, j) ==
  /\ pc[p] = "idle"
  /\ Goto(p, "task")
  /\ job' = [job EXCEPT ![p] = j]
  /\ alone' = (Busy = {})
  /\ clean' = (clean /\ Busy = {})
  /\ UNCHANGED <<files, addrs, held, mem>>

\* Mutant: a mismatched pair counts as a missing CA.
HasMatchingCa == caKey # Absent /\ caKey = caCert

HasCa == caKey # Absent /\ caCert # Absent
HasPair(l) == leafKey[l] # Absent /\ leafCert[l] # Absent

\* Mutant: --regenerate replaces the CA too.
RegeneratesCaWithLeaves(p) == Task(p) = "ca" /\ job[p].regen

\* mint_client_cert returns an existing pair before it looks at the CA.
ReusesClient(p) == Task(p) \in Clients /\ HasPair(Task(p)) /\ ~job[p].regen
RegeneratesCa(p) == Task(p) = "ca" /\ job[p].regenCa

ReuseClient(p) ==
  /\ pc[p] = "task"
  /\ ReusesClient(p)
  /\ NextTask(p)
  /\ UNCHANGED <<files, addrs, held>>

\* ensure_ca, both files there: the certificate is loaded, the key is not.
ReuseCa(p) ==
  /\ pc[p] = "task"
  /\ ~ReusesClient(p)
  /\ HasCa /\ ~RegeneratesCa(p)
  /\ caCert # Torn
  /\ IF Task(p) = "ca"
     THEN NextTask(p)
     ELSE /\ mem' = [mem EXCEPT ![p].ca = caCert]
          /\ Goto(p, "load_key")
          /\ UNCHANGED <<job, alone, clean>>
  /\ UNCHANGED <<files, addrs, held>>

\* ensure_ca, a file missing or --regenerate-ca: a new CA, key file first.
GenerateCa(p, k) ==
  /\ pc[p] = "task"
  /\ ~ReusesClient(p)
  /\ RegeneratesCa(p) \/ ~HasCa
  /\ k \in Keys \ InUse
  /\ mem' = [mem EXCEPT ![p].ca = k]
  /\ Goto(p, "ca_key_open")
  /\ UNCHANGED <<files, addrs, held, job, alone, clean>>

WriteCa(p) ==
  /\ \/ /\ pc[p] = "ca_key_open"
        /\ caKey' = Torn
        /\ Goto(p, "ca_key_close")
        /\ UNCHANGED caCert
     \/ /\ pc[p] = "ca_key_close"
        /\ caKey' \in Closed(caKey, mem[p].ca)
        /\ Goto(p, "ca_cert_open")
        /\ UNCHANGED caCert
     \/ /\ pc[p] = "ca_cert_open"
        /\ caCert' = Torn
        /\ Goto(p, "ca_cert_close")
        /\ UNCHANGED caKey
  /\ UNCHANGED <<leafKey, leafCert, addrs, held, job, mem, alone, clean>>

FinishCa(p) ==
  /\ pc[p] = "ca_cert_close"
  /\ caCert' \in Closed(caCert, mem[p].ca)
  /\ IF Task(p) = "ca"
     THEN NextTask(p)
     ELSE Goto(p, "load_key") /\ UNCHANGED <<job, mem, alone, clean>>
  /\ UNCHANGED <<caKey, leafKey, leafCert, addrs, held>>

\* Mutant: the CA key file is used without being parsed.
LoadCaKeyUnparsed(p) ==
  /\ pc[p] = "load_key"
  /\ mem' = [mem EXCEPT ![p].signer = caKey,
                        ![p].ips = IF Task(p) = Server THEN addrs ELSE {}]
  /\ Goto(p, IF Task(p) = Server THEN "server_check" ELSE "key_open")
  /\ UNCHANGED <<files, addrs, held, job, alone, clean>>

\* The CA key is loaded and, for the server, the addresses are looked up. A leaf
\* names the CA certificate's key as its issuer's and is signed with the loaded
\* key: where they differ no verifier accepts it.
LoadCaKey(p) ==
  /\ pc[p] = "load_key"
  /\ caKey \in Keys
  /\ mem' = [mem EXCEPT ![p].signer = IF caKey = mem[p].ca THEN caKey ELSE Nobody,
                        ![p].ips = IF Task(p) = Server THEN addrs ELSE {}]
  /\ Goto(p, IF Task(p) = Server THEN "server_check" ELSE "key_open")
  /\ UNCHANGED <<files, addrs, held, job, alone, clean>>

\* The existing server certificate is judged by its names alone; `localhost`
\* is always one of them. Its expiry, signer and key are not looked at.
Covers(cert, host, ips) == host \in {cert.host, "localhost"} /\ ips \subseteq cert.ips

\* Mutant: an existing server pair is reused whatever its names.
ReusableIfPresent(p) ==
  /\ HasPair(Server) /\ ~job[p].regen
  /\ leafCert[Server] # Torn

\* Mutant: an expired server certificate is not reused.
ReusableUntilExpiry(p) ==
  /\ HasPair(Server) /\ ~job[p].regen
  /\ leafCert[Server] # Torn
  /\ Covers(leafCert[Server], job[p].host, mem[p].ips)
  /\ leafCert[Server].valid

Reusable(p) ==
  /\ HasPair(Server) /\ ~job[p].regen
  /\ leafCert[Server] # Torn
  /\ Covers(leafCert[Server], job[p].host, mem[p].ips)

ReuseServer(p) ==
  /\ pc[p] = "server_check"
  /\ Reusable(p)
  /\ NextTask(p)
  /\ UNCHANGED <<files, addrs, held>>

StaleServer(p) ==
  /\ pc[p] = "server_check"
  /\ ~Reusable(p)
  /\ leafCert[Server] = Torn => job[p].regen \/ leafKey[Server] = Absent
  /\ Goto(p, "key_open")
  /\ UNCHANGED <<files, addrs, held, job, mem, alone, clean>>

\* A key or certificate that does not parse raises. So does a key file that is
\* not there when it is read.
LoadFails(p) ==
  /\ \/ /\ pc[p] = "task"
        /\ ~ReusesClient(p)
        /\ HasCa /\ ~RegeneratesCa(p)
        /\ caCert = Torn
     \/ pc[p] = "load_key" /\ caKey \notin Keys
     \/ /\ pc[p] = "server_check"
        /\ HasPair(Server) /\ ~job[p].regen
        /\ leafCert[Server] = Torn
  /\ Exit(p)
  /\ clean' = (clean /\ Harmless(p))
  /\ UNCHANGED <<files, addrs, held>>

-----------------------------------------------------------------------------
(* Minting a leaf: key file, then certificate file.                        *)

OpenKey(p, k) ==
  /\ pc[p] = "key_open"
  /\ k \in Keys \ InUse
  /\ leafKey' = [leafKey EXCEPT ![Task(p)] = Torn]
  /\ mem' = [mem EXCEPT ![p].key = k]
  /\ Goto(p, "key_close")
  /\ UNCHANGED <<caKey, caCert, leafCert, addrs, held, job, alone, clean>>

CloseKey(p) ==
  /\ pc[p] = "key_close"
  /\ \E text \in Closed(leafKey[Task(p)], mem[p].key) :
       leafKey' = [leafKey EXCEPT ![Task(p)] = text]
  /\ Goto(p, "cert_open")
  /\ UNCHANGED <<caKey, caCert, leafCert, addrs, held, job, mem, alone, clean>>

OpenCert(p) ==
  /\ pc[p] = "cert_open"
  /\ leafCert' = [leafCert EXCEPT ![Task(p)] = Torn]
  /\ Goto(p, "cert_close")
  /\ UNCHANGED <<caKey, caCert, leafKey, addrs, held, job, mem, alone, clean>>

Minted(p) ==
  [key |-> mem[p].key, signer |-> mem[p].signer, valid |-> TRUE,
   host |-> IF Task(p) = Server THEN job[p].host ELSE Absent, ips |-> mem[p].ips]

CloseCert(p) ==
  /\ pc[p] = "cert_close"
  /\ \E text \in Closed(leafCert[Task(p)], Minted(p)) :
       leafCert' = [leafCert EXCEPT ![Task(p)] = text]
  /\ NextTask(p)
  /\ UNCHANGED <<caKey, caCert, leafKey, addrs, held>>

-----------------------------------------------------------------------------
(* The broker, and the world.                                              *)

\* Mosquitto (external) loads what it is given: a key that is not the
\* certificate's stops it, a signer other than cafile's does not.
Launch(p) ==
  /\ pc[p] = "launch"
  /\ held = Absent
  /\ caCert \in Keys
  /\ leafCert[Server] \in Cert
  /\ leafKey[Server] = leafCert[Server].key
  /\ held' = [ca |-> caCert, cert |-> leafCert[Server]]
  /\ Exit(p)
  /\ UNCHANGED <<files, addrs, clean>>

\* --no-run, no mosquitto binary, ports taken, or material it does not load.
DoesNotServe(p) ==
  /\ pc[p] = "launch"
  /\ Exit(p)
  /\ UNCHANGED <<files, addrs, held, clean>>

\* The process is killed, or its next file operation raises.
Interrupt(p) ==
  /\ pc[p] # "idle"
  /\ Exit(p)
  /\ clean' = (clean /\ Harmless(p))
  /\ UNCHANGED <<files, addrs, held>>

BrokerStops ==
  /\ held # Absent
  /\ held' = Absent
  /\ UNCHANGED <<files, addrs, pc, job, mem, alone, clean>>

\* The laptop joins another network.
Relocate(ips) ==
  /\ addrs' = ips
  /\ UNCHANGED <<files, held, pc, job, mem, alone, clean>>

\* The server certificate's days are over. (The clients' are not followed.)
ServerCertExpires ==
  /\ leafCert[Server] \in Cert
  /\ leafCert' = [leafCert EXCEPT ![Server].valid = FALSE]
  /\ held' = IF held # Absent /\ held.cert = leafCert[Server]
             THEN [held EXCEPT !.cert.valid = FALSE] ELSE held
  /\ UNCHANGED <<caKey, caCert, leafKey, addrs, pc, job, mem, alone, clean>>

-----------------------------------------------------------------------------
Step(p) ==
  \/ ReuseClient(p) \/ ReuseCa(p) \/ ReuseServer(p) \/ StaleServer(p)
  \/ \E k \in Keys : GenerateCa(p, k) \/ OpenKey(p, k)
  \/ WriteCa(p) \/ FinishCa(p) \/ LoadCaKey(p) \/ LoadFails(p)
  \/ CloseKey(p) \/ OpenCert(p) \/ CloseCert(p)
  \/ Launch(p) \/ DoesNotServe(p)

Next ==
  \/ \E p \in Procs : Step(p) \/ Interrupt(p) \/ \E j \in Jobs : Start(p, j)
  \/ BrokerStops
  \/ \E ips \in SUBSET Addresses : Relocate(ips)
  \/ ServerCertExpires

Spec == Init /\ [][Next]_vars

-----------------------------------------------------------------------------
(* Properties.                                                             *)

Settled == \A p \in Busy : Harmless(p)

\* Once a --regenerate-ca has run undisturbed, the key files belong to the
\* certificates and the server certificate chains to the CA, as long as no
\* command is midway, whatever was mixed up or torn before (certs.py main).
MaterialBelongsTogether ==
  clean /\ Settled =>
    /\ caKey = caCert
    /\ leafCert[Server] \in Cert =>
         /\ leafKey[Server] = leafCert[Server].key
         /\ leafCert[Server].signer = caCert

\* A broker that a bring-up starts serves a certificate for the name and for
\* every address the bring-up saw, whatever earlier commands left behind, unless
\* another one overlaps it; and one signed by the CA its peers are given, once a
\* --regenerate-ca has run undisturbed (certs.py ensure_server_cert, broker.py
\* prepare).
LaunchesWhatItPrepared ==
  [][\A p \in Procs : Launch(p) =>
       /\ alone => Covers(held'.cert, job[p].host, mem[p].ips)
       /\ clean => held'.cert.signer = held'.ca]_vars

\* A client's pair that peers with today's ca.crt accept.
Trusted(c) ==
  /\ leafCert[c] \in Cert
  /\ leafKey[c] = leafCert[c].key
  /\ leafCert[c].signer = caCert

\* Nothing but a --regenerate-ca, or a re-mint of that client, takes a client's
\* trust away (certs.py ensure_ca, mint_client_cert).
OnlyRegenerationOrphans ==
  [][\A c \in Clients : clean /\ Trusted(c) /\ ~Trusted(c)' =>
       \E p \in Busy : job[p].regenCa \/ (job[p].regen /\ Task(p) = c)]_vars

\* A broker that runs with today's CA keeps it: only a --regenerate-ca makes it
\* one that serves the old certificate to peers that are given the new CA, until
\* it is restarted (certs.py ensure_ca, broker.py:195).
Current == held # Absent /\ held.ca = caCert

OnlyRegenerationOutdatesBroker ==
  [][clean /\ Current /\ ~Current' => held' = Absent \/ \E p \in Busy : job[p].regenCa]_vars

\* A CA key that is not the CA certificate's goes unnoticed: no command but
\* --regenerate-ca replaces either (certs.py ensure_ca tests for existence).
Mismatched ==
  /\ caKey \in Keys /\ caCert \in Keys /\ caKey # caCert
  /\ \A p \in Busy : ~job[p].regenCa /\
       pc[p] \notin {"ca_key_open", "ca_key_close", "ca_cert_open", "ca_cert_close"}

MismatchedCaStays ==
  [][Mismatched => Mismatched' \/ \E p \in Procs : pc[p] = "idle" /\ job'[p].regenCa]_vars

\* An invocation that overlaps no other replaces the server's certificate for a
\* name or an address that it lacks, or when told to, and for nothing else: an
\* expired one is served again, although "the broker never serves a cert the
\* publisher will reject" (certs.py:233-234; the test is at 241-248).
ExpiryRenewsNothing ==
  [][alone /\ leafCert[Server] \in Cert /\ leafCert'[Server] = Torn =>
       \E p \in Busy :
         /\ Task(p) = Server
         /\ job[p].regen \/ ~Covers(leafCert[Server], job[p].host, mem[p].ips)]_vars

\* "Re-mint your client certs (python -m laptop.certs --client <id>)": once that
\* has run undisturbed the client is trusted. It is not: after --regenerate-ca
\* the orphaned pair is there and is reused.
RemintedIsTrusted ==
  [][\A p \in Procs, c \in Clients :
       alone /\ clean /\ (ReuseClient(p) \/ CloseCert(p)) /\ Task(p) = c => Trusted(c)']_vars
=============================================================================
