------------------------- MODULE TlsRotationProofs -------------------------
(***************************************************************************)
(* The action properties of TlsMaterial about what a rotation of the CA    *)
(* does to those who use the material, for every value of its constants:   *)
(* who parts clients or a running broker from the CA, and what a bring-up  *)
(* launches.                                                               *)
(***************************************************************************)
EXTENDS TlsMaterialProofs

\* The steps of minting a pair.
MintSteps == CaSteps \cup {"load_key"} \cup ServerSteps \cup LeafSteps

\* The steps of replacing a pair, up to the one that opens its certificate.
RenewalSteps == {"key_open", "key_close", "cert_open"}

\* c's key file holds the key of c's certificate.
Paired(c) == leafCert[c] \in Cert /\ leafKey[c] = leafCert[c].key

\* What an invocation that overlaps no other knows at each of its steps: it makes
\* a new CA unbidden only where there was no certificate of one, mints a client
\* unbidden only where that had no pair of its own (and with a key that is new to
\* it), and launches what covers its names and addresses.
Careful(p) ==
  /\ Counts(p) /\ ~job[p].regenCa /\ pc[p] \in CaSteps => caCert \notin Keys
  /\ alone /\ Task(p) \in Clients /\ ~job[p].regen /\ pc[p] \in MintSteps =>
       /\ ~Paired(Task(p))
       /\ pc[p] \in {"key_close", "cert_open"} /\ leafCert[Task(p)] \in Cert =>
            leafCert[Task(p)].key # mem[p].key
       /\ pc[p] = "cert_close" => leafCert[Task(p)] = Torn
  /\ alone /\ pc[p] = "launch" /\ leafCert[Server] \in Cert =>
       Covers(leafCert[Server], job[p].host, mem[p].ips)
  /\ alone /\ Task(p) = Server =>
       /\ ~job[p].regen /\ pc[p] \in RenewalSteps /\ leafCert[Server] \in Cert =>
            ~Covers(leafCert[Server], job[p].host, mem[p].ips)
       /\ pc[p] = "cert_close" => leafCert[Server] = Torn

\* A bring-up ensures the server's pair and nothing else.
ServesOnly(p) == job[p].serve => job[p].todo = <<Server>>

Caution == \A p \in Busy : ServesOnly(p) /\ Careful(p)

\* A pair's key file comes before its certificate and is never removed.
KeyFirst ==
  /\ \A l \in Leaves : leafCert[l] # Absent => leafKey[l] # Absent
  /\ \A p \in Procs : pc[p] \in LeafSteps /\ Task(p) \in Leaves => leafKey[Task(p)] # Absent

\* A bring-up's job is the server's pair; no other job serves.
LEMMA JobsServeOnly == \A j \in Jobs : j.serve => j.todo = <<Server>>
<1>1. ASSUME NEW j \in CertsJobs PROVE ~j.serve
  BY <1>1 DEF CertsJobs
<1>2. ASSUME NEW j \in MintJobs PROVE ~j.serve
  BY <1>2 DEF MintJobs, NoWork
<1>3. ASSUME NEW j \in BringUpJobs PROVE j.todo = <<Server>>
  BY <1>3 DEF BringUpJobs, NoWork
<1> QED BY <1>1, <1>2, <1>3 DEF Jobs

\* So the task of an invocation that serves is the server's pair.
LEMMA ServerTask ==
  ASSUME NEW p \in Procs, ServesOnly(p), job[p].serve
  PROVE  Task(p) = Server /\ Task(p) \notin Clients /\ Task(p) # "ca"
<1>1. Task(p) = Server
  BY DEF ServesOnly, Task
<1> QED BY <1>1, SentinelAssumption DEF Leaves

\* A step within one task: the others overlap p, or there are none.
LEMMA StepCares ==
  ASSUME Typed, Together, Caution, NEW p \in Procs, pc[p] # "idle", NEW step, step # "idle",
         pc' = [pc EXCEPT ![p] = step], UNCHANGED <<job, alone, clean>>,
         alone => Careful(p)'
  PROVE  Caution'
<1>1. Busy' = Busy /\ p \in Busy
  BY DEF Busy, Typed, TypeOK
<1>2. \A q \in Busy : alone => q = p
  BY <1>1 DEF Together
<1>3. \A q \in Busy : ServesOnly(q)'
  BY DEF Caution, ServesOnly
<1>4. \A q \in Busy : ~alone => Careful(q)'
  BY DEF Careful, Counts
<1> QED BY <1>1, <1>2, <1>3, <1>4 DEF Caution

\* The end of an invocation.
LEMMA ExitCares ==
  ASSUME Typed, Together, Caution, NEW p \in Procs, pc[p] # "idle", Exit(p)
  PROVE  Caution'
<1>1. /\ Busy' = Busy \ {p} /\ p \in Busy /\ UNCHANGED alone
      /\ \A q \in Procs \ {p} : job'[q] = job[q]
  BY DEF Busy, Exit, Goto, Typed, TypeOK
<1>2. alone => Busy' = {}
  BY <1>1 DEF Together
<1>3. \A q \in Busy' : ServesOnly(q)'
  BY <1>1 DEF Caution, ServesOnly, Busy
<1>4. \A q \in Busy' : Careful(q)'
  BY <1>1, <1>2 DEF Careful, Counts
<1> QED BY <1>3, <1>4 DEF Caution

\* The end of a task: what a bring-up launches next must cover what it saw.
LEMMA NextTaskCares ==
  ASSUME Typed, Together, Caution, NEW p \in Procs, pc[p] # "idle", NextTask(p),
         alone /\ job[p].serve /\ leafCert'[Server] \in Cert =>
           Covers(leafCert'[Server], job[p].host, mem[p].ips)
  PROVE  Caution'
<1> DEFINE rest == Tail(job[p].todo)
<1>0. p \in Busy /\ ServesOnly(p)
  BY DEF Busy, Caution
<1>1. CASE rest # <<>>
  <2>1. ~job[p].serve
    <3>1. Tail(<<Server>>) = <<>>
      OBVIOUS
    <3> QED BY <1>0, <1>1, <3>1 DEF ServesOnly
  <2>2. /\ pc' = [pc EXCEPT ![p] = "task"] /\ job' = [job EXCEPT ![p].todo = rest]
        /\ UNCHANGED <<alone, clean>>
    BY <1>1 DEF NextTask, Goto
  <2> HIDE DEF rest
  <2>3. /\ \A q \in Procs \ {p} : job'[q] = job[q]
        /\ job'[p].serve = job[p].serve /\ pc'[p] = "task"
    BY <2>2 DEF Typed, TypeOK, Job
  <2>4. Busy' = Busy
    BY <1>0, <2>2 DEF Busy, Typed, TypeOK
  <2>5. \A q \in Busy : ServesOnly(q)'
    BY <2>1, <2>3 DEF Caution, ServesOnly, Busy
  <2>6. Careful(p)'
    BY <2>3 DEF Careful, MintSteps, RenewalSteps, CaSteps, ServerSteps, LeafSteps
  <2>7. \A q \in Busy \ {p} : ~alone'
    BY <1>0, <2>2 DEF Together
  <2>8. \A q \in Busy \ {p} : Careful(q)'
    BY <2>7 DEF Careful, Counts
  <2> QED BY <2>4, <2>5, <2>6, <2>8 DEF Caution
<1>2. CASE rest = <<>> /\ job[p].serve
  <2>1. pc' = [pc EXCEPT ![p] = "launch"] /\ UNCHANGED <<job, mem, alone, clean>>
    BY <1>2 DEF NextTask, Goto
  <2>2. pc'[p] = "launch"
    BY <2>1 DEF Typed, TypeOK
  <2>3. alone => Careful(p)'
    BY <1>2, <2>1, <2>2 DEF Careful, MintSteps, RenewalSteps, CaSteps, ServerSteps, LeafSteps
  <2> QED BY <2>1, <2>3, StepCares
<1>3. CASE rest = <<>> /\ ~job[p].serve
  BY <1>3, ExitCares DEF NextTask
<1> QED BY <1>1, <1>2, <1>3

\* Every step of every invocation keeps to it, and what happens around them does.
LEMMA CautionKept == Typed /\ Together /\ KeyFirst /\ Caution /\ [Next]_vars => Caution'
<1> SUFFICES ASSUME Typed, Together, KeyFirst, Caution, [Next]_vars PROVE Caution'
  OBVIOUS
<1> USE DEF Goto, files, CaSteps, ServerSteps, LeafSteps, MintSteps, RenewalSteps
<1>0. \A p \in Procs : pc[p] # "idle" =>
        /\ p \in Busy /\ ServesOnly(p) /\ Careful(p)
        /\ Counts(p) => Fits(p)
        /\ job[p].serve => Task(p) = Server /\ Task(p) \notin Clients /\ Task(p) # "ca"
  BY ServerTask DEF Caution, Together, Busy
<1>1. ASSUME NEW p \in Procs, NEW j \in Jobs, Start(p, j) PROVE Caution'
  <2>1. /\ pc[p] = "idle" /\ pc' = [pc EXCEPT ![p] = "task"] /\ job' = [job EXCEPT ![p] = j]
        /\ alone' = (Busy = {})
    BY <1>1 DEF Start
  <2>2. /\ Busy' = Busy \cup {p} /\ pc'[p] = "task" /\ job'[p] = j
        /\ \A q \in Procs \ {p} : job'[q] = job[q]
    BY <2>1 DEF Busy, Typed, TypeOK
  <2>3. ServesOnly(p)' /\ Careful(p)'
    BY <2>2, JobsServeOnly DEF ServesOnly, Careful
  <2>4. ASSUME NEW q \in Busy, q # p PROVE ServesOnly(q)' /\ Careful(q)'
    BY <2>1, <2>2, <2>4 DEF Caution, ServesOnly, Careful, Counts, Busy
  <2> QED BY <2>2, <2>3, <2>4 DEF Caution
<1>2. ASSUME NEW p \in Procs, ReuseClient(p) PROVE Caution'
  BY <1>0, <1>2, NextTaskCares DEF ReuseClient, ReusesClient
<1>3. ASSUME NEW p \in Procs, ReuseServer(p) PROVE Caution'
  <2>1. pc[p] # "idle" /\ NextTask(p) /\ UNCHANGED leafCert
        /\ Covers(leafCert[Server], job[p].host, mem[p].ips)
    BY <1>3 DEF ReuseServer, Reusable
  <2> QED BY <2>1, NextTaskCares
<1>4. ASSUME NEW p \in Procs, ReuseCa(p) PROVE Caution'
  <2>1. CASE Task(p) = "ca"
    BY <1>0, <1>4, <2>1, NextTaskCares DEF ReuseCa
  <2>2. CASE Task(p) # "ca"
    <3>1. /\ pc[p] = "task" /\ ~ReusesClient(p)
          /\ pc' = [pc EXCEPT ![p] = "load_key"] /\ pc'[p] = "load_key"
          /\ UNCHANGED <<leafKey, leafCert, job, alone, clean>>
      BY <1>4, <2>2 DEF ReuseCa, Typed, TypeOK
    <3>2. Task(p) \in Clients /\ ~job[p].regen => ~Paired(Task(p))
      BY <3>1, SentinelAssumption DEF ReusesClient, HasPair, Paired, Cert
    <3>3. Task(p)' = Task(p)
      BY <3>1 DEF Task
    <3>4. Careful(p)'
      BY <3>1, <3>2, <3>3 DEF Careful, Paired
    <3> QED BY <3>1, <3>4, StepCares
  <2> QED BY <2>1, <2>2
<1>5. ASSUME NEW p \in Procs, NEW k \in Keys, GenerateCa(p, k) PROVE Caution'
  <2>1. /\ pc[p] = "task" /\ ~ReusesClient(p) /\ (RegeneratesCa(p) \/ ~HasCa)
        /\ pc' = [pc EXCEPT ![p] = "ca_key_open"] /\ pc'[p] = "ca_key_open"
        /\ UNCHANGED <<caKey, caCert, leafKey, leafCert, job, alone, clean>>
    BY <1>5 DEF GenerateCa, Typed, TypeOK
  <2>2. Task(p) \in Clients /\ ~job[p].regen => ~Paired(Task(p))
    BY <2>1, SentinelAssumption DEF ReusesClient, HasPair, Paired, Cert
  <2>3. Counts(p) /\ ~job[p].regenCa => caCert \notin Keys
    BY <1>0, <2>1, SentinelAssumption
       DEF Fits, Sound, CaSound, Replacing, HasCa, RegeneratesCa
  <2>4. Task(p)' = Task(p) /\ (Counts(p)' <=> Counts(p))
    BY <2>1 DEF Task, Counts
  <2>5. Careful(p)'
    BY <2>1, <2>2, <2>3, <2>4 DEF Careful, Paired
  <2> QED BY <2>1, <2>5, StepCares
<1>6. ASSUME NEW p \in Procs, WriteCa(p) PROVE Caution'
  <2>1. /\ pc[p] \in CaSteps /\ UNCHANGED <<leafKey, leafCert, job, mem, alone, clean>>
        /\ caCert' \in {caCert, Torn}
        /\ \E step \in {"ca_key_close", "ca_cert_open", "ca_cert_close"} :
             pc' = [pc EXCEPT ![p] = step] /\ pc'[p] = step
    BY <1>6 DEF WriteCa, Typed, TypeOK
  <2>2. Task(p)' = Task(p) /\ (Counts(p)' <=> Counts(p))
    BY <2>1 DEF Task, Counts
  <2>3. Careful(p)'
    BY <1>0, <2>1, <2>2, SentinelAssumption DEF Careful, Paired
  <2> QED BY <2>1, <2>3, StepCares
<1>7. ASSUME NEW p \in Procs, FinishCa(p) PROVE Caution'
  <2>1. CASE Task(p) = "ca"
    BY <1>0, <1>7, <2>1, NextTaskCares DEF FinishCa
  <2>2. CASE Task(p) # "ca"
    <3>1. /\ pc[p] = "ca_cert_close"
          /\ pc' = [pc EXCEPT ![p] = "load_key"] /\ pc'[p] = "load_key"
          /\ UNCHANGED <<leafKey, leafCert, job, alone, clean>>
      BY <1>7, <2>2 DEF FinishCa, Typed, TypeOK
    <3>2. Task(p)' = Task(p)
      BY <3>1 DEF Task
    <3>3. Careful(p)'
      BY <1>0, <3>1, <3>2 DEF Careful, Paired
    <3> QED BY <3>1, <3>3, StepCares
  <2> QED BY <2>1, <2>2
<1>8. ASSUME NEW p \in Procs, LoadCaKey(p) \/ StaleServer(p) PROVE Caution'
  <2>1. /\ pc[p] \in {"load_key", "server_check"}
        /\ UNCHANGED <<leafKey, leafCert, job, alone, clean>>
        /\ \E step \in ServerSteps : pc' = [pc EXCEPT ![p] = step] /\ pc'[p] = step
    BY <1>8 DEF LoadCaKey, StaleServer, Typed, TypeOK
  <2>2. Task(p)' = Task(p)
    BY <2>1 DEF Task
  <2>3. ASSUME Task(p) = Server, ~job[p].regen, pc'[p] = "key_open", leafCert[Server] \in Cert
        PROVE  ~Covers(leafCert[Server], job[p].host, mem[p].ips) /\ mem' = mem
    <3>1. StaleServer(p)
      BY <1>8, <2>1, <2>3 DEF LoadCaKey, Typed, TypeOK
    <3>2. HasPair(Server) /\ leafCert[Server] # Torn
      BY <2>3, SentinelAssumption DEF KeyFirst, HasPair, Leaves
    <3> QED BY <2>3, <3>1, <3>2 DEF StaleServer, Reusable
  <2>4. Careful(p)'
    BY <1>0, <2>1, <2>2, <2>3 DEF Careful, Paired
  <2> QED BY <2>1, <2>4, StepCares
<1>9. ASSUME NEW p \in Procs, LoadFails(p) \/ Interrupt(p) \/ Launch(p) \/ DoesNotServe(p) PROVE Caution'
  BY <1>9, ExitCares DEF LoadFails, Interrupt, Launch, DoesNotServe
<1>10. ASSUME NEW p \in Procs, NEW k \in Keys, OpenKey(p, k) PROVE Caution'
  <2>1. /\ pc[p] = "key_open" /\ k \notin InUse
        /\ pc' = [pc EXCEPT ![p] = "key_close"] /\ pc'[p] = "key_close"
        /\ leafKey' = [leafKey EXCEPT ![Task(p)] = Torn]
        /\ mem'[p].key = k /\ mem'[p].ips = mem[p].ips
        /\ UNCHANGED <<leafCert, job, alone, clean>>
    BY <1>10 DEF OpenKey, Typed, TypeOK, Mem
  <2>2. ASSUME Task(p) \in Clients PROVE ~Paired(Task(p))' /\ Task(p)' = Task(p)
    <3>1. Task(p)' = Task(p) /\ leafKey'[Task(p)] = Torn
      BY <2>1, <2>2 DEF Task, Typed, TypeOK, Leaves
    <3> QED BY <2>1, <3>1, SentinelAssumption DEF Paired, Cert
  <2>3. Task(p) \in Clients /\ leafCert[Task(p)] \in Cert => leafCert[Task(p)].key # k
    BY <2>1 DEF InUse, Certs, Leaves
  <2>4. Careful(p)'
    BY <1>0, <2>1, <2>2, <2>3 DEF Careful, Task
  <2> QED BY <2>1, <2>4, StepCares
<1>11. ASSUME NEW p \in Procs, CloseKey(p) PROVE Caution'
  <2>1. PICK text \in Closed(leafKey[Task(p)], mem[p].key) :
          leafKey' = [leafKey EXCEPT ![Task(p)] = text]
    BY <1>11 DEF CloseKey
  <2>2. /\ pc[p] = "key_close"
        /\ pc' = [pc EXCEPT ![p] = "cert_open"] /\ pc'[p] = "cert_open"
        /\ UNCHANGED <<leafCert, job, mem, alone, clean>>
    BY <1>11 DEF CloseKey, Typed, TypeOK
  <2>3. ASSUME Task(p) \in Clients, alone, ~job[p].regen PROVE ~Paired(Task(p))'
    <3>1. Task(p)' = Task(p) /\ leafKey'[Task(p)] = text /\ text \in {mem[p].key, Torn}
      BY <2>1, <2>2, <2>3 DEF Task, Typed, TypeOK, Leaves, Closed
    <3>2. leafCert[Task(p)] \in Cert => leafCert[Task(p)].key # mem[p].key
      BY <1>0, <2>2, <2>3 DEF Careful
    <3> QED BY <2>2, <3>1, <3>2, SentinelAssumption DEF Paired, Cert
  <2>4. Careful(p)'
    BY <1>0, <2>2, <2>3 DEF Careful, Task
  <2> QED BY <2>2, <2>4, StepCares
<1>12. ASSUME NEW p \in Procs, OpenCert(p) PROVE Caution'
  <2>1. /\ pc[p] = "cert_open"
        /\ pc' = [pc EXCEPT ![p] = "cert_close"] /\ pc'[p] = "cert_close"
        /\ leafCert' = [leafCert EXCEPT ![Task(p)] = Torn]
        /\ UNCHANGED <<leafKey, job, mem, alone, clean>>
    BY <1>12 DEF OpenCert, Typed, TypeOK
  <2>2. Task(p) \in Leaves => Task(p)' = Task(p) /\ leafCert'[Task(p)] = Torn
    BY <2>1 DEF Task, Typed, TypeOK
  <2>3. Careful(p)'
    BY <2>1, <2>2, SentinelAssumption DEF Careful, Paired, Task, Leaves
  <2> QED BY <2>1, <2>3, StepCares
<1>13. ASSUME NEW p \in Procs, CloseCert(p) PROVE Caution'
  <2>1. PICK text \in Closed(leafCert[Task(p)], Minted(p)) :
          leafCert' = [leafCert EXCEPT ![Task(p)] = text]
    BY <1>13 DEF CloseCert
  <2>2. pc[p] = "cert_close" /\ NextTask(p)
    BY <1>13 DEF CloseCert
  <2>3. ASSUME job[p].serve, leafCert'[Server] \in Cert
        PROVE  Covers(leafCert'[Server], job[p].host, mem[p].ips)
    <3>1. Task(p) = Server /\ leafCert'[Server] = text /\ text \in {Minted(p), Torn}
      BY <1>0, <2>1, <2>2, <2>3 DEF Typed, TypeOK, Leaves, Closed
    <3>2. text = Minted(p)
      BY <2>3, <3>1, SentinelAssumption
    <3> QED BY <3>1, <3>2 DEF Minted, Covers
  <2> QED BY <2>2, <2>3, NextTaskCares
<1>14. ASSUME ServerCertExpires PROVE Caution'
  <2>1. /\ leafCert[Server] \in Cert /\ leafCert' = [leafCert EXCEPT ![Server].valid = FALSE]
        /\ UNCHANGED <<caCert, leafKey, pc, job, mem, alone, clean>>
    BY <1>14 DEF ServerCertExpires
  <2>2. /\ leafCert'[Server].host = leafCert[Server].host
        /\ leafCert'[Server].ips = leafCert[Server].ips
        /\ \A c \in Clients : leafCert'[c] = leafCert[c]
    BY <2>1, SentinelAssumption DEF Typed, TypeOK, Leaves, Cert
  <2>3. Busy' = Busy /\ \A q \in Busy : ServesOnly(q)' /\ Careful(q)'
    BY <2>1, <2>2, SentinelAssumption
       DEF Busy, Caution, ServesOnly, Careful, Counts, Paired, Covers, Task
  <2> QED BY <2>3 DEF Caution
<1>15. ASSUME BrokerStops \/ (\E ips \in SUBSET Addresses : Relocate(ips)) \/ UNCHANGED vars PROVE Caution'
  <2>1. UNCHANGED <<caCert, leafKey, leafCert, pc, job, mem, alone, clean>>
    BY <1>15 DEF BrokerStops, Relocate, vars
  <2> QED BY <2>1 DEF Busy, Caution, ServesOnly, Careful, Counts, Paired, Covers, Task
<1> QED BY <1>1, <1>2, <1>3, <1>4, <1>5, <1>6, <1>7, <1>8, <1>9, <1>10, <1>11, <1>12, <1>13,
     <1>14, <1>15 DEF Next, Step

\* Every step leaves the key files where they are, or opens one.
LEMMA KeyFirstKept == Typed /\ KeyFirst /\ [Next]_vars => KeyFirst'
<1> SUFFICES ASSUME Typed, KeyFirst, [Next]_vars PROVE KeyFirst'
  OBVIOUS
<1> USE DEF Goto, files
<1>1. ASSUME NEW p \in Procs, UNCHANGED <<leafKey, leafCert>>,
             \A q \in Procs \ {p} : pc'[q] = pc[q] /\ job'[q] = job[q],
             pc'[p] \notin LeafSteps
      PROVE  KeyFirst'
  BY <1>1 DEF KeyFirst, Task
<1>2. ASSUME NEW p \in Procs,
             ReuseClient(p) \/ ReuseCa(p) \/ ReuseServer(p) \/ StaleServer(p)
               \/ (\E k \in Keys : GenerateCa(p, k)) \/ WriteCa(p) \/ FinishCa(p) \/ LoadCaKey(p) \/ LoadFails(p) \/ Launch(p)
               \/ DoesNotServe(p) \/ Interrupt(p)
      PROVE  KeyFirst'
  <2>1. pc[p] # "idle" /\ UNCHANGED <<leafKey, leafCert>>
    BY <1>2 DEF ReuseClient, ReuseCa, ReuseServer, StaleServer, GenerateCa, WriteCa, FinishCa,
       LoadCaKey, LoadFails, Launch, DoesNotServe, Interrupt
  <2>2. \/ NextTask(p) \/ Exit(p)
        \/ job' = job /\ \E step \in Steps \ LeafSteps : pc' = [pc EXCEPT ![p] = step]
    BY <1>2 DEF ReuseClient, ReuseCa, ReuseServer, StaleServer, GenerateCa, WriteCa, FinishCa,
       LoadCaKey, LoadFails, Launch, DoesNotServe, Interrupt, Steps, LeafSteps
  <2>3. /\ \A q \in Procs \ {p} : pc'[q] = pc[q] /\ job'[q] = job[q]
        /\ pc'[p] \notin LeafSteps
    BY <2>2 DEF NextTask, Exit, LeafSteps, Typed, TypeOK
  <2> QED BY <1>1, <2>1, <2>3
<1>3. ASSUME NEW p \in Procs, NEW j \in Jobs, Start(p, j) PROVE KeyFirst'
  <2>1. UNCHANGED <<leafKey, leafCert>> /\ pc'[p] \notin LeafSteps
        /\ \A q \in Procs \ {p} : pc'[q] = pc[q] /\ job'[q] = job[q]
    BY <1>3 DEF Start, LeafSteps, Typed, TypeOK
  <2> QED BY <1>1, <2>1
<1>4. ASSUME NEW p \in Procs, NEW k \in Keys, OpenKey(p, k) PROVE KeyFirst'
  <2>1. /\ leafKey' = [leafKey EXCEPT ![Task(p)] = Torn] /\ UNCHANGED <<leafCert, job>>
        /\ \A q \in Procs \ {p} : pc'[q] = pc[q]
    BY <1>4 DEF OpenKey, Typed, TypeOK
  <2> QED BY <2>1, SentinelAssumption DEF KeyFirst, Task, Typed, TypeOK
<1>5. ASSUME NEW p \in Procs, CloseKey(p) PROVE KeyFirst'
  <2>1. PICK text \in Closed(leafKey[Task(p)], mem[p].key) :
          leafKey' = [leafKey EXCEPT ![Task(p)] = text]
    BY <1>5 DEF CloseKey
  <2>2. pc[p] = "key_close" /\ text \in Keys \cup {Torn}
    BY <1>5, <2>1 DEF CloseKey, Closed, Typed, InHand, LeafSteps
  <2>3. text # Absent
    BY <2>2, SentinelAssumption
  <2> QED BY <1>5, <2>1, <2>3 DEF CloseKey, KeyFirst, Task, LeafSteps, Typed, TypeOK
<1>6. ASSUME NEW p \in Procs, OpenCert(p) \/ CloseCert(p) PROVE KeyFirst'
  <2>1. /\ pc[p] \in LeafSteps /\ leafKey' = leafKey
        /\ \E text : leafCert' = [leafCert EXCEPT ![Task(p)] = text]
    BY <1>6 DEF OpenCert, CloseCert, LeafSteps
  <2>2. \A l \in Leaves : leafCert'[l] # Absent => leafKey'[l] # Absent
    BY <2>1 DEF KeyFirst, Typed, TypeOK
  <2>3. \A q \in Procs \ {p} : pc'[q] = pc[q] /\ job'[q] = job[q]
    BY <1>6 DEF OpenCert, CloseCert, NextTask, Exit, Typed, TypeOK
  <2>4. pc'[p] \in LeafSteps => job'[p] = job[p]
    BY <1>6 DEF OpenCert, CloseCert, NextTask, Exit, LeafSteps, Typed, TypeOK
  <2> QED BY <2>1, <2>2, <2>3, <2>4 DEF KeyFirst, Task
<1>7. ASSUME ServerCertExpires PROVE KeyFirst'
  <2>1. /\ leafCert[Server] # Absent /\ UNCHANGED <<leafKey, pc, job>>
        /\ \A l \in Leaves : leafCert'[l] # Absent => leafCert[l] # Absent
    BY <1>7, SentinelAssumption DEF ServerCertExpires, Typed, TypeOK, Cert
  <2> QED BY <2>1 DEF KeyFirst, Task
<1>8. ASSUME BrokerStops \/ (\E ips \in SUBSET Addresses : Relocate(ips)) \/ UNCHANGED vars
      PROVE  KeyFirst'
  BY <1>8 DEF BrokerStops, Relocate, vars, KeyFirst, Task
<1> QED BY <1>2, <1>3, <1>4, <1>5, <1>6, <1>7, <1>8 DEF Next, Step

\* What the properties below rest on in every reachable state.
Rotation == Typed /\ Together /\ KeyFirst /\ Caution

\* It holds at the start and every step keeps it.
LEMMA RotationHolds == Spec => []Rotation
<1>1. Init => Together /\ KeyFirst /\ Caution
  BY SentinelAssumption
     DEF Init, Together, KeyFirst, Caution, Busy, Sound, CaSound, ServerSound, Leaves, LeafSteps
<1>2. Typed /\ Together /\ KeyFirst /\ Caution /\ [Next]_vars => (Together /\ KeyFirst /\ Caution)'
  BY TogetherKept, KeyFirstKept, CautionKept
<1> QED BY <1>1, <1>2, AlwaysTyped, PTL DEF Spec, Rotation

-----------------------------------------------------------------------------
(* What a step may do to the CA and to a client's pair.                     *)

\* Unless a --regenerate-ca is in flight, a CA certificate that is there stays.
LEMMA CaStays ==
  ASSUME Rotation, [Next]_vars, clean, caCert \in Keys, \A p \in Busy : ~job[p].regenCa
  PROVE  caCert' = caCert
<1> USE DEF files
<1>1. ASSUME NEW p \in Procs, pc[p] \in CaSteps PROVE FALSE
  <2>1. p \in Busy
    BY <1>1 DEF Busy, CaSteps
  <2>2. Counts(p) /\ Careful(p)
    BY <2>1 DEF Rotation, Together, Caution, Counts
  <2> QED BY <1>1, <2>1, <2>2 DEF Careful
<1>2. ASSUME NEW p \in Procs, WriteCa(p) \/ FinishCa(p) PROVE FALSE
  BY <1>1, <1>2 DEF WriteCa, FinishCa, CaSteps
<1>3. ASSUME NEW p \in Procs, Step(p) PROVE caCert' = caCert
  BY <1>2, <1>3 DEF Step, ReuseClient, ReuseCa, ReuseServer, StaleServer, GenerateCa, OpenKey,
     LoadCaKey, LoadFails, CloseKey, OpenCert, CloseCert, Launch, DoesNotServe
<1> QED
  BY <1>3 DEF Next, Interrupt, Start, BrokerStops, Relocate, ServerCertExpires, vars

\* Unless an invocation mints c anew with --regenerate, c's pair stays.
LEMMA PairStays ==
  ASSUME Rotation, [Next]_vars, clean, NEW c \in Clients, Paired(c),
         \A p \in Busy : job[p].regen => Task(p) # c
  PROVE  leafKey'[c] = leafKey[c] /\ leafCert'[c] = leafCert[c]
<1> USE DEF files
<1>1. ASSUME NEW p \in Procs, pc[p] \in ServerSteps \cup LeafSteps PROVE Task(p) # c
  <2>1. p \in Busy
    BY <1>1 DEF Busy, ServerSteps, LeafSteps
  <2>2. alone /\ Careful(p)
    BY <2>1 DEF Rotation, Together, Caution
  <2> QED BY <1>1, <2>1, <2>2 DEF Careful, MintSteps
<1>2. ASSUME NEW p \in Procs,
             (\E k \in Keys : OpenKey(p, k)) \/ CloseKey(p) \/ OpenCert(p) \/ CloseCert(p)
      PROVE  leafKey'[c] = leafKey[c] /\ leafCert'[c] = leafCert[c]
  <2>1. Task(p) # c
    BY <1>1, <1>2 DEF OpenKey, CloseKey, OpenCert, CloseCert, ServerSteps, LeafSteps
  <2>2. /\ leafKey' = leafKey \/ \E text : leafKey' = [leafKey EXCEPT ![Task(p)] = text]
        /\ leafCert' = leafCert \/ \E text : leafCert' = [leafCert EXCEPT ![Task(p)] = text]
    BY <1>2 DEF OpenKey, CloseKey, OpenCert, CloseCert
  <2> QED BY <2>1, <2>2 DEF Rotation, Typed, TypeOK, Leaves
<1>3. ASSUME NEW p \in Procs, Step(p)
      PROVE  leafKey'[c] = leafKey[c] /\ leafCert'[c] = leafCert[c]
  BY <1>2, <1>3 DEF Step, ReuseClient, ReuseCa, ReuseServer, StaleServer, GenerateCa, WriteCa,
     FinishCa, LoadCaKey, LoadFails, Launch, DoesNotServe
<1>4. ServerCertExpires => leafKey' = leafKey /\ leafCert'[c] = leafCert[c]
  BY SentinelAssumption DEF ServerCertExpires, Rotation, Typed, TypeOK, Leaves
<1> QED BY <1>3, <1>4 DEF Next, Interrupt, Start, BrokerStops, Relocate, vars

-----------------------------------------------------------------------------
(* The properties.                                                          *)

\* OnlyRegenerationOrphans, for every instance: no expiry, crash, new address or
\* bring-up parts a client from the CA its peers are given.
THEOREM OrphansByRegeneration == Spec => OnlyRegenerationOrphans
<1> DEFINE Keeps == \A c \in Clients : clean /\ Trusted(c) /\ ~Trusted(c)' =>
                      \E p \in Busy : job[p].regenCa \/ (job[p].regen /\ Task(p) = c)
<1>1. Rotation /\ [Next]_vars => [Keeps]_vars
  <2> SUFFICES ASSUME Rotation, [Next]_vars, NEW c \in Clients, clean, Trusted(c),
                      \A p \in Busy : ~job[p].regenCa /\ (job[p].regen => Task(p) # c)
               PROVE  Trusted(c)'
    OBVIOUS
  <2>1. Paired(c) /\ leafCert[c].signer \in Keys \cup {Nobody} /\ leafCert[c].signer = caCert
    BY DEF Trusted, Paired, Cert
  <2>2. caCert \in Keys
    BY <2>1, SentinelAssumption DEF Rotation, Typed, TypeOK, Content
  <2>3. caCert' = caCert
    BY <2>2, CaStays
  <2>4. leafKey'[c] = leafKey[c] /\ leafCert'[c] = leafCert[c]
    BY <2>1, PairStays
  <2> QED BY <2>3, <2>4 DEF Trusted
<1> QED BY <1>1, RotationHolds, PTL DEF Spec, OnlyRegenerationOrphans

\* OnlyRegenerationOutdatesBroker, for every instance: a broker that runs with
\* today's CA does so until it stops or a --regenerate-ca runs.
THEOREM OutdatedByRegeneration == Spec => OnlyRegenerationOutdatesBroker
<1> DEFINE Keeps == clean /\ Current /\ ~Current' =>
                      held' = Absent \/ \E p \in Busy : job[p].regenCa
<1>1. Rotation /\ [Next]_vars => [Keeps]_vars
  <2> SUFFICES ASSUME Rotation, [Next]_vars, clean, Current, held' # Absent,
                      \A p \in Busy : ~job[p].regenCa
               PROVE  Current'
    OBVIOUS
  <2>1. held # Absent /\ held \in [ca : Keys, cert : Cert] /\ held.ca = caCert
    BY DEF Current, Rotation, Typed, TypeOK
  <2>2. caCert' = caCert
    BY <2>1, CaStays
  <2>3. held'.ca = held.ca
    <3>1. CASE ServerCertExpires
      BY <2>1, <3>1 DEF ServerCertExpires
    <3>2. CASE BrokerStops \/ \E p \in Procs : Launch(p)
      BY <2>1, <3>2 DEF BrokerStops, Launch
    <3>3. ASSUME NEW p \in Procs, Step(p), ~Launch(p) PROVE held' = held
      BY <3>3 DEF Step, ReuseClient, ReuseCa, ReuseServer, StaleServer, GenerateCa, OpenKey,
         WriteCa, FinishCa, LoadCaKey, LoadFails, CloseKey, OpenCert, CloseCert, DoesNotServe
    <3> QED BY <3>1, <3>2, <3>3 DEF Next, Interrupt, Start, Relocate, vars
  <2> QED BY <2>1, <2>2, <2>3 DEF Current
<1> QED BY <1>1, RotationHolds, PTL DEF Spec, OnlyRegenerationOutdatesBroker

\* LaunchesWhatItPrepared, for every instance: the certificate a bring-up checked
\* or minted is the one its broker loads.
THEOREM LaunchIsPrepared == Spec => LaunchesWhatItPrepared
<1> DEFINE Fit == \A p \in Procs : Launch(p) =>
                    /\ alone => Covers(held'.cert, job[p].host, mem[p].ips)
                    /\ clean => held'.cert.signer = held'.ca
<1>1. Rotation => [Fit]_vars
  <2> SUFFICES ASSUME Rotation, NEW p \in Procs, Launch(p)
               PROVE  /\ alone => Covers(held'.cert, job[p].host, mem[p].ips)
                      /\ clean => held'.cert.signer = held'.ca
    OBVIOUS
  <2>1. /\ pc[p] = "launch" /\ p \in Busy /\ leafCert[Server] \in Cert
        /\ held'.ca = caCert /\ held'.cert = leafCert[Server]
    BY DEF Launch, Busy
  <2>2. Careful(p) /\ (clean => Fits(p))
    BY <2>1 DEF Rotation, Together, Caution, Counts
  <2> QED BY <2>1, <2>2 DEF Careful, Fits, Sound, ServerSound
<1> QED BY <1>1, RotationHolds, PTL DEF Spec, LaunchesWhatItPrepared

\* ExpiryRenewsNothing, for every instance: who opens the server's certificate to
\* replace it was told to, or found a name or an address missing; its expiry leads
\* nobody there.
THEOREM RenewedForNames == Spec => ExpiryRenewsNothing
<1> DEFINE Keeps == alone /\ leafCert[Server] \in Cert /\ leafCert'[Server] = Torn =>
                      \E p \in Busy :
                        /\ Task(p) = Server
                        /\ job[p].regen \/ ~Covers(leafCert[Server], job[p].host, mem[p].ips)
<1>1. Rotation /\ [Next]_vars => [Keeps]_vars
  <2> SUFFICES ASSUME Rotation, [Next]_vars, alone,
                      leafCert[Server] \in Cert, leafCert'[Server] = Torn
               PROVE  \E p \in Busy :
                        /\ Task(p) = Server
                        /\ job[p].regen \/ ~Covers(leafCert[Server], job[p].host, mem[p].ips)
    OBVIOUS
  <2>1. leafCert'[Server] # leafCert[Server]
    BY SentinelAssumption
  <2>2. ASSUME NEW p \in Procs, CloseCert(p) PROVE FALSE
    <3>1. PICK text \in Closed(leafCert[Task(p)], Minted(p)) :
            leafCert' = [leafCert EXCEPT ![Task(p)] = text]
      BY <2>2 DEF CloseCert
    <3>2. pc[p] = "cert_close" /\ p \in Busy /\ leafCert'[Server] # leafCert[Server]
      BY <2>1, <2>2 DEF CloseCert, Busy
    <3>3. Task(p) = Server
      BY <3>1, <3>2 DEF Rotation, Typed, TypeOK
    <3>4. leafCert[Server] = Torn
      BY <3>2, <3>3 DEF Rotation, Caution, Careful
    <3> QED BY <3>4, SentinelAssumption
  <2>3. ASSUME ServerCertExpires PROVE FALSE
    <3>1. leafCert'[Server] = [leafCert[Server] EXCEPT !.valid = FALSE]
      BY <2>3 DEF ServerCertExpires, Rotation, Typed, TypeOK, Leaves
    <3>2. leafCert'[Server] \in Cert
      BY <3>1 DEF Cert
    <3> QED BY <3>2, SentinelAssumption
  <2>4. PICK p \in Procs : OpenCert(p)
    <3>1. ASSUME NEW p \in Procs, Step(p), ~OpenCert(p), ~CloseCert(p) PROVE leafCert' = leafCert
      BY <3>1 DEF Step, files, ReuseClient, ReuseCa, ReuseServer, StaleServer, GenerateCa, WriteCa,
         FinishCa, LoadCaKey, LoadFails, OpenKey, CloseKey, Launch, DoesNotServe
    <3> QED BY <2>1, <2>2, <2>3, <3>1
            DEF Next, files, Interrupt, Start, BrokerStops, Relocate, vars
  <2>5. pc[p] = "cert_open" /\ p \in Busy /\ leafCert' = [leafCert EXCEPT ![Task(p)] = Torn]
    BY <2>4 DEF OpenCert, Busy
  <2>6. Task(p) = Server
    BY <2>1, <2>5 DEF Rotation, Typed, TypeOK
  <2> QED BY <2>5, <2>6 DEF Rotation, Caution, Careful, RenewalSteps
<1> QED BY <1>1, RotationHolds, PTL DEF Spec, ExpiryRenewsNothing
=============================================================================
