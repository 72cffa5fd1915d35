------------------------- MODULE TlsMaterialProofs -------------------------
(***************************************************************************)
(* Theorems of TlsMaterial, for every set of invocations, clients, keys,   *)
(* host names and addresses.                                               *)
(***************************************************************************)
EXTENDS TlsMaterial, SequenceTheorems, TLAPS

CaSteps == {"ca_key_open", "ca_key_close", "ca_cert_open", "ca_cert_close"}
ServerSteps == {"server_check", "key_open"}
LeafSteps == {"key_close", "cert_open", "cert_close"}

\* What an invocation must have in hand for the step it is at.
InHand ==
  \A p \in Procs :
    /\ pc[p] # "idle" => job[p].todo # <<>>
    /\ pc[p] \in CaSteps => mem[p].ca \in Keys
    /\ pc[p] \in ServerSteps \cup LeafSteps => mem[p].signer \in Keys \cup {Nobody}
    /\ pc[p] \in LeafSteps => mem[p].key \in Keys

Typed == TypeOK /\ InHand

Mem == [ca : Keys \cup {Absent}, signer : Keys \cup {Nobody, Absent},
        key : Keys \cup {Absent}, ips : SUBSET Addresses]

\* The memory of a process that has read nothing is typed.
LEMMA NoMemTyped == NoMem \in Mem
BY DEF NoMem, Mem

\* So is the job of an idle one.
LEMMA NoWorkTyped == NoWork \in Job
<1>1. <<>> \in Seq(Leaves \cup {"ca"})
  OBVIOUS
<1>2. (CHOOSE h \in Hosts : TRUE) \in Hosts
  BY HostsAssumption
<1> QED BY <1>1, <1>2 DEF NoWork, Job

\* Every invocation has something to do.
LEMMA JobsTyped == \A j \in Jobs : j \in Job /\ j.todo # <<>>
<1>1. ASSUME NEW c \in Clients \cup {"ca", Server}
      PROVE  <<c>> \in Seq(Leaves \cup {"ca"}) /\ <<c>> # <<>>
  BY <1>1 DEF Leaves
<1>2. ASSUME NEW j \in CertsJobs PROVE j \in Job /\ j.todo # <<>>
  <2>1. PICK minted \in ClientLists, regen \in BOOLEAN, regenCa \in BOOLEAN, h \in Hosts :
          j = [todo |-> <<"ca", Server>> \o minted, regen |-> regen \/ regenCa,
               regenCa |-> regenCa, host |-> h, serve |-> FALSE]
    BY <1>2 DEF CertsJobs
  <2>2. minted \in Seq(Leaves \cup {"ca"})
    BY <2>1, ListsAssumption DEF Leaves
  <2>3. <<"ca", Server>> \in Seq(Leaves \cup {"ca"}) /\ Len(<<"ca", Server>>) = 2
    BY DEF Leaves
  <2>4. <<"ca", Server>> \o minted \in Seq(Leaves \cup {"ca"})
    BY <2>2, <2>3
  <2>5. Len(<<"ca", Server>> \o minted) = 2 + Len(minted) /\ Len(minted) \in Nat
    BY <2>2, <2>3
  <2>6. <<"ca", Server>> \o minted # <<>>
    BY <2>4, <2>5
  <2> QED BY <2>1, <2>4, <2>6 DEF Job
<1>3. ASSUME NEW j \in BringUpJobs PROVE j \in Job /\ j.todo # <<>>
  BY <1>1, <1>3, NoWorkTyped DEF BringUpJobs, Job
<1>4. ASSUME NEW j \in MintJobs PROVE j \in Job /\ j.todo # <<>>
  BY <1>1, <1>4, NoWorkTyped DEF MintJobs, Job
<1> QED BY <1>2, <1>3, <1>4 DEF Jobs

\* What is left of the work is work.
LEMMA RestTyped ==
  ASSUME TypeOK, InHand, NEW p \in Procs, pc[p] # "idle"
  PROVE  Tail(job[p].todo) \in Seq(Leaves \cup {"ca"}) /\ Task(p) \in Leaves \cup {"ca"}
<1>1. job[p].todo \in Seq(Leaves \cup {"ca"}) /\ job[p].todo # <<>>
  BY DEF TypeOK, Job, InHand
<1> QED BY <1>1 DEF Task

\* A process that ends leaves typed state behind.
LEMMA ExitTyped ==
  ASSUME Typed, NEW p \in Procs, Exit(p)
  PROVE  /\ pc' = [pc EXCEPT ![p] = "idle"]
         /\ pc' \in [Procs -> Steps] /\ job' \in [Procs -> Job] /\ mem' \in [Procs -> Mem]
         /\ alone' \in BOOLEAN /\ InHand'
<1> USE DEF Typed, TypeOK, Exit, Goto
<1>1. job' \in [Procs -> Job] /\ mem' \in [Procs -> Mem]
  BY NoWorkTyped, NoMemTyped DEF Mem
<1>2. pc' \in [Procs -> Steps] /\ alone' \in BOOLEAN
  BY DEF Steps
<1>3. InHand'
  BY DEF InHand, CaSteps, ServerSteps, LeafSteps
<1> QED BY <1>1, <1>2, <1>3

\* So does one that goes on to the next certificate of its job, or ends for want of one.
LEMMA NextTaskTyped ==
  ASSUME Typed, NEW p \in Procs, pc[p] # "idle", NextTask(p)
  PROVE  /\ pc' \in [Procs -> Steps] /\ job' \in [Procs -> Job] /\ mem' \in [Procs -> Mem]
         /\ alone' \in BOOLEAN /\ clean' \in BOOLEAN /\ InHand'
<1> DEFINE rest == Tail(job[p].todo)
<1>1. CASE rest # <<>>
  <2>1. /\ pc' = [pc EXCEPT ![p] = "task"] /\ job' = [job EXCEPT ![p].todo = rest]
        /\ mem' = [mem EXCEPT ![p] = NoMem] /\ UNCHANGED <<alone, clean>>
    BY <1>1 DEF NextTask, Goto
  <2>2. rest \in Seq(Leaves \cup {"ca"})
    BY RestTyped DEF Typed
  <2>3. job' \in [Procs -> Job] /\ \A q \in Procs : job'[q].todo = IF q = p THEN rest ELSE job[q].todo
    BY <2>1, <2>2 DEF Typed, TypeOK, Job
  <2>4. mem' \in [Procs -> Mem] /\ pc' \in [Procs -> Steps]
    BY <2>1, NoMemTyped DEF Typed, TypeOK, Mem, Steps
  <2>5. InHand'
    BY <1>1, <2>1, <2>3 DEF Typed, TypeOK, InHand, CaSteps, ServerSteps, LeafSteps
  <2> QED BY <2>1, <2>3, <2>4, <2>5 DEF Typed, TypeOK
<1>2. CASE rest = <<>> /\ job[p].serve
  BY <1>2 DEF NextTask, Goto, Typed, TypeOK, InHand, CaSteps, ServerSteps, LeafSteps, Steps, Mem
<1>3. CASE rest = <<>> /\ ~job[p].serve
  <2>1. Exit(p) /\ clean' \in BOOLEAN
    BY <1>3 DEF NextTask, Typed, TypeOK, Job
  <2> QED BY <2>1, ExitTyped
<1> QED BY <1>1, <1>2, <1>3

\* The variables that no handler of a process types anew.
LEMMA TypedAgain ==
  ASSUME Typed, pc' \in [Procs -> Steps], job' \in [Procs -> Job], mem' \in [Procs -> Mem],
         alone' \in BOOLEAN, clean' \in BOOLEAN, InHand', UNCHANGED <<files, addrs, held>>
  PROVE  Typed'
BY DEF Typed, TypeOK, Mem, files

\* Every step keeps the state typed.
LEMMA TypeKept == Typed /\ [Next]_vars => Typed'
<1> SUFFICES ASSUME Typed, [Next]_vars PROVE Typed'
  OBVIOUS
<1> USE DEF Goto, files
<1>1. ASSUME NEW p \in Procs, NEW j \in Jobs, Start(p, j) PROVE Typed'
  <2>1. j \in Job /\ j.todo # <<>>
    BY JobsTyped
  <2>2. InHand'
    BY <1>1, <2>1 DEF Start, Typed, TypeOK, InHand, CaSteps, ServerSteps, LeafSteps
  <2> QED BY <1>1, <2>1, <2>2, TypedAgain DEF Start, Typed, TypeOK, Steps, Mem
<1>2. ASSUME NEW p \in Procs, ReuseClient(p) \/ ReuseServer(p) PROVE Typed'
  <2>1. pc[p] # "idle" /\ NextTask(p) /\ UNCHANGED <<files, addrs, held>>
    BY <1>2 DEF ReuseClient, ReuseServer
  <2> QED BY <2>1, NextTaskTyped, TypedAgain
<1>3. ASSUME NEW p \in Procs, ReuseCa(p) PROVE Typed'
  <2>1. CASE Task(p) = "ca"
    <3>1. pc[p] # "idle" /\ NextTask(p) /\ UNCHANGED <<files, addrs, held>>
      BY <1>3, <2>1 DEF ReuseCa
    <3> QED BY <3>1, NextTaskTyped, TypedAgain
  <2>2. CASE Task(p) # "ca"
    <3>1. /\ pc' = [pc EXCEPT ![p] = "load_key"] /\ mem' = [mem EXCEPT ![p].ca = caCert]
          /\ UNCHANGED <<files, addrs, held, job, alone, clean>> /\ pc[p] = "task"
      BY <1>3, <2>2 DEF ReuseCa
    <3>2. caCert \in Keys
      BY <1>3 DEF ReuseCa, HasCa, Typed, TypeOK, Content
    <3>3. mem' \in [Procs -> Mem] /\ pc' \in [Procs -> Steps]
      BY <3>1, <3>2 DEF Typed, TypeOK, Mem, Steps
    <3>4. InHand'
      BY <3>1, <3>2 DEF Typed, TypeOK, InHand, CaSteps, ServerSteps, LeafSteps
    <3> QED BY <3>1, <3>3, <3>4, TypedAgain DEF Typed, TypeOK
  <2> QED BY <2>1, <2>2
<1>4. ASSUME NEW p \in Procs, NEW k \in Keys, GenerateCa(p, k) PROVE Typed'
  <2>1. mem' \in [Procs -> Mem] /\ pc' \in [Procs -> Steps]
    BY <1>4 DEF GenerateCa, Typed, TypeOK, Mem, Steps
  <2>2. InHand'
    BY <1>4 DEF GenerateCa, Typed, TypeOK, InHand, CaSteps, ServerSteps, LeafSteps
  <2> QED BY <1>4, <2>1, <2>2, TypedAgain DEF GenerateCa, Typed, TypeOK
<1>5. ASSUME NEW p \in Procs, WriteCa(p) PROVE Typed'
  <2>1. mem[p].ca \in Keys
    BY <1>5 DEF WriteCa, Typed, InHand, CaSteps
  <2>2. caKey' \in Content /\ caCert' \in Content
    BY <1>5, <2>1 DEF WriteCa, Closed, Content, Typed, TypeOK
  <2>3. pc' \in [Procs -> Steps] /\ InHand'
    BY <1>5 DEF WriteCa, Typed, TypeOK, InHand, Steps, CaSteps, ServerSteps, LeafSteps
  <2> QED BY <1>5, <2>2, <2>3 DEF WriteCa, Typed, TypeOK
<1>6. ASSUME NEW p \in Procs, FinishCa(p) PROVE Typed'
  <2>1. mem[p].ca \in Keys
    BY <1>6 DEF FinishCa, Typed, InHand, CaSteps
  <2>2. caCert' \in Content
    BY <1>6, <2>1 DEF FinishCa, Closed, Content
  <2>3. CASE Task(p) = "ca"
    <3>1. pc[p] # "idle" /\ NextTask(p)
      BY <1>6, <2>3 DEF FinishCa
    <3> QED BY <1>6, <2>2, <3>1, NextTaskTyped DEF FinishCa, Typed, TypeOK, Mem
  <2>4. CASE Task(p) # "ca"
    <3>1. pc[p] # "idle" /\ pc' = [pc EXCEPT ![p] = "load_key"] /\ UNCHANGED <<job, mem, alone, clean>>
      BY <1>6, <2>4 DEF FinishCa
    <3>2. pc' \in [Procs -> Steps] /\ InHand'
      BY <3>1 DEF Typed, TypeOK, InHand, Steps, CaSteps, ServerSteps, LeafSteps
    <3> QED BY <1>6, <2>2, <3>1, <3>2 DEF FinishCa, Typed, TypeOK
  <2> QED BY <2>3, <2>4
<1>7. ASSUME NEW p \in Procs, LoadCaKey(p) PROVE Typed'
  <2> DEFINE signer == IF caKey = mem[p].ca THEN caKey ELSE Nobody
             ips == IF Task(p) = Server THEN addrs ELSE {}
  <2>1. signer \in Keys \cup {Nobody} /\ ips \in SUBSET Addresses
    BY <1>7 DEF LoadCaKey, Typed, TypeOK
  <2>2. mem' = [mem EXCEPT ![p].signer = signer, ![p].ips = ips]
    BY <1>7 DEF LoadCaKey
  <2>3. pc' = [pc EXCEPT ![p] = IF Task(p) = Server THEN "server_check" ELSE "key_open"]
    BY <1>7 DEF LoadCaKey
  <2> HIDE DEF signer, ips
  <2>4. mem' \in [Procs -> Mem] /\ mem'[p].signer \in Keys \cup {Nobody}
    BY <2>1, <2>2 DEF Typed, TypeOK, Mem
  <2>5. pc' \in [Procs -> Steps]
    BY <2>3 DEF Typed, TypeOK, Steps
  <2>6. InHand'
    BY <1>7, <2>2, <2>3, <2>4 DEF LoadCaKey, Typed, TypeOK, InHand, CaSteps, ServerSteps, LeafSteps
  <2> QED BY <1>7, <2>4, <2>5, <2>6, TypedAgain DEF LoadCaKey, Typed, TypeOK
<1>8. ASSUME NEW p \in Procs, StaleServer(p) PROVE Typed'
  <2>1. pc' \in [Procs -> Steps] /\ InHand'
    BY <1>8 DEF StaleServer, Typed, TypeOK, InHand, Steps, CaSteps, ServerSteps, LeafSteps
  <2> QED BY <1>8, <2>1 DEF StaleServer, Typed, TypeOK
<1>9. ASSUME NEW p \in Procs, LoadFails(p) \/ Interrupt(p) PROVE Typed'
  <2>1. Exit(p) /\ clean' \in BOOLEAN /\ UNCHANGED <<files, addrs, held>>
    BY <1>9 DEF LoadFails, Interrupt
  <2> QED BY <2>1, ExitTyped, TypedAgain
<1>10. ASSUME NEW p \in Procs, NEW k \in Keys, OpenKey(p, k) PROVE Typed'
  <2>1. leafKey' \in [Leaves -> Content]
    BY <1>10 DEF OpenKey, Content, Typed, TypeOK
  <2>2. mem' \in [Procs -> Mem] /\ pc' \in [Procs -> Steps]
    BY <1>10 DEF OpenKey, Typed, TypeOK, Mem, Steps
  <2>3. InHand'
    BY <1>10 DEF OpenKey, Typed, TypeOK, InHand, CaSteps, ServerSteps, LeafSteps
  <2> QED BY <1>10, <2>1, <2>2, <2>3 DEF OpenKey, Typed, TypeOK, Mem
<1>11. ASSUME NEW p \in Procs, CloseKey(p) PROVE Typed'
  <2>1. mem[p].key \in Keys
    BY <1>11 DEF CloseKey, Typed, InHand, LeafSteps
  <2>2. leafKey' \in [Leaves -> Content]
    BY <1>11, <2>1 DEF CloseKey, Closed, Content, Typed, TypeOK
  <2>3. pc' \in [Procs -> Steps] /\ InHand'
    BY <1>11 DEF CloseKey, Typed, TypeOK, InHand, Steps, CaSteps, ServerSteps, LeafSteps
  <2> QED BY <1>11, <2>2, <2>3 DEF CloseKey, Typed, TypeOK
<1>12. ASSUME NEW p \in Procs, OpenCert(p) PROVE Typed'
  <2>1. leafCert' \in [Leaves -> Cert \cup {Absent, Torn}]
    BY <1>12 DEF OpenCert, Typed, TypeOK
  <2>2. pc' \in [Procs -> Steps] /\ InHand'
    BY <1>12 DEF OpenCert, Typed, TypeOK, InHand, Steps, CaSteps, ServerSteps, LeafSteps
  <2> QED BY <1>12, <2>1, <2>2 DEF OpenCert, Typed, TypeOK
<1>13. ASSUME NEW p \in Procs, CloseCert(p) PROVE Typed'
  <2>1. mem[p].key \in Keys /\ mem[p].signer \in Keys \cup {Nobody} /\ mem[p].ips \in SUBSET Addresses
    BY <1>13 DEF CloseCert, Typed, TypeOK, InHand, LeafSteps
  <2>2. Minted(p) \in Cert
    BY <2>1 DEF Minted, Cert, Typed, TypeOK, Job
  <2>3. leafCert' \in [Leaves -> Cert \cup {Absent, Torn}]
    <3>1. PICK text \in Closed(leafCert[Task(p)], Minted(p)) : leafCert' = [leafCert EXCEPT ![Task(p)] = text]
      BY <1>13 DEF CloseCert
    <3>2. text \in Cert \cup {Torn}
      BY <2>2, <3>1 DEF Closed
    <3> QED BY <3>1, <3>2 DEF Typed, TypeOK
  <2>4. pc[p] # "idle" /\ NextTask(p)
    BY <1>13 DEF CloseCert
  <2> QED BY <1>13, <2>3, <2>4, NextTaskTyped DEF CloseCert, Typed, TypeOK, Mem
<1>14. ASSUME NEW p \in Procs, Launch(p) \/ DoesNotServe(p) PROVE Typed'
  <2>1. Exit(p) /\ UNCHANGED <<files, addrs, clean>>
    BY <1>14 DEF Launch, DoesNotServe
  <2>2. held' \in [ca : Keys, cert : Cert] \cup {Absent}
    BY <1>14 DEF Launch, DoesNotServe, Typed, TypeOK
  <2> QED BY <2>1, <2>2, ExitTyped DEF Typed, TypeOK, Mem
<1>15. ASSUME BrokerStops PROVE Typed'
  BY <1>15 DEF BrokerStops, Typed, TypeOK, InHand
<1>16. ASSUME NEW ips \in SUBSET Addresses, Relocate(ips) PROVE Typed'
  BY <1>16 DEF Relocate, Typed, TypeOK, InHand
<1>17. ASSUME ServerCertExpires PROVE Typed'
  <2>1. leafCert' \in [Leaves -> Cert \cup {Absent, Torn}]
    BY <1>17 DEF ServerCertExpires, Typed, TypeOK, Cert
  <2>2. held' \in [ca : Keys, cert : Cert] \cup {Absent}
    BY <1>17 DEF ServerCertExpires, Typed, TypeOK, Cert
  <2> QED BY <1>17, <2>1, <2>2 DEF ServerCertExpires, Typed, TypeOK, InHand
<1>18. ASSUME UNCHANGED vars PROVE Typed'
  BY <1>18 DEF vars, Typed, TypeOK, InHand
<1> QED BY <1>1, <1>2, <1>3, <1>4, <1>5, <1>6, <1>7, <1>8, <1>9, <1>10, <1>11, <1>12, <1>13, <1>14,
     <1>15, <1>16, <1>17, <1>18 DEF Next, Step

\* The typing that is inductive, with what an invocation has in hand.
LEMMA AlwaysTyped == Spec => []Typed
<1>1. Init => Typed
  BY NoWorkTyped, NoMemTyped
     DEF Init, Typed, TypeOK, InHand, Content, Steps, Mem, CaSteps, ServerSteps, LeafSteps
<1> QED BY <1>1, TypeKept, PTL DEF Spec

\* TypeOK, for every instance: no invocation writes a key it has not got, or
\* signs with a CA key that it could not load.
THEOREM TypeCorrect == Spec => []TypeOK
<1>1. Typed => TypeOK
  BY DEF Typed
<1> QED BY <1>1, AlwaysTyped, PTL

-----------------------------------------------------------------------------
(* MaterialBelongsTogether.  While an invocation overlaps no other, and       *)
(* either the material was sound before or it is replacing the CA, it is      *)
(* known at each of its steps which of the files are sound already.           *)

CaSound == caKey = caCert
ServerSound == leafCert[Server] \in Cert =>
                 leafKey[Server] = leafCert[Server].key /\ leafCert[Server].signer = caCert
Sound == CaSound /\ ServerSound

\* The server pair is about to be replaced, because the CA is.
Replacing(p) == job[p].regenCa /\ Task(p) = Server

Fits(p) ==
  /\ pc[p] = "task" => Sound \/ (Replacing(p) /\ CaSound) \/ (job[p].regenCa /\ Task(p) = "ca")
  /\ pc[p] \in CaSteps =>
       leafCert[Server] \notin Cert \/ (job[p].regenCa /\ Task(p) \in {"ca", Server})
  /\ pc[p] = "ca_key_close" => caKey = Torn
  /\ pc[p] \in {"ca_cert_open", "ca_cert_close"} => caKey = mem[p].ca
  /\ pc[p] = "ca_cert_close" => caCert = Torn
  /\ pc[p] = "load_key" => mem[p].ca = caCert
  /\ pc[p] \in {"load_key"} \cup ServerSteps => CaSound /\ (ServerSound \/ Replacing(p))
  /\ pc[p] \in ServerSteps \cup LeafSteps => CaSound /\ mem[p].signer = caCert
  /\ pc[p] \in LeafSteps => ServerSound \/ Task(p) = Server
  /\ pc[p] = "key_close" /\ Task(p) = Server => leafKey[Server] = Torn
  /\ pc[p] \in {"cert_open", "cert_close"} /\ Task(p) = Server => leafKey[Server] = mem[p].key
  /\ pc[p] = "cert_close" /\ Task(p) = Server => leafCert[Server] = Torn
  /\ pc[p] = "launch" => Sound

\* The server's certificate is the next after the CA.
Ordered(work) ==
  /\ \A i \in DOMAIN work.todo : work.todo[i] = "ca" =>
       i + 1 \in DOMAIN work.todo /\ work.todo[i + 1] = Server
  /\ work.regenCa => work.regen /\ ~work.serve

Counts(p) == alone /\ (clean \/ job[p].regenCa)

Together ==
  /\ alone => \A p, q \in Busy : p = q
  /\ clean => alone \/ Busy = {}
  /\ clean /\ Busy = {} => Sound
  /\ \A p \in Busy : Ordered(job[p])
  /\ \A p \in Busy : Counts(p) => Fits(p)

\* The elements of a two-element sequence followed by another.
LEMMA Joined ==
  ASSUME NEW S, NEW s \in Seq(S), NEW t \in Seq(S), Len(s) = 2
  PROVE  /\ s \o t \in Seq(S) /\ Len(s \o t) = 2 + Len(t)
         /\ (s \o t)[1] = s[1] /\ (s \o t)[2] = s[2]
         /\ \A i \in 1..Len(t) : (s \o t)[i + 2] = t[i]
<1> DEFINE u == s \o t
<1>0. /\ u \in Seq(S) /\ Len(u) = Len(s) + Len(t)
      /\ \A i \in 1..(Len(s) + Len(t)) : u[i] = IF i <= Len(s) THEN s[i] ELSE t[i - Len(s)]
  BY ConcatProperties, Zenon
<1> HIDE DEF u
<1>1. /\ u \in Seq(S) /\ Len(u) = 2 + Len(t) /\ Len(t) \in Nat
      /\ \A i \in 1..(2 + Len(t)) : u[i] = IF i <= 2 THEN s[i] ELSE t[i - 2]
  BY <1>0
<1>2. u[1] = s[1] /\ u[2] = s[2]
  BY <1>1
<1>3. ASSUME NEW i \in 1..Len(t) PROVE u[i + 2] = t[i]
  <2>1. i + 2 \in 1..(2 + Len(t)) /\ ~(i + 2 <= 2) /\ (i + 2) - 2 = i
    BY <1>1
  <2> QED BY <1>1, <2>1
<1> QED BY <1>1, <1>2, <1>3 DEF u

\* In every job the server's certificate follows the CA's, and one that replaces the CA starts with it.
LEMMA JobsOrdered == \A j \in Jobs : Ordered(j) /\ (j.regenCa => Head(j.todo) = "ca")
<1>1. ASSUME NEW j \in CertsJobs PROVE Ordered(j) /\ (j.regenCa => Head(j.todo) = "ca")
  <2>1. PICK minted \in ClientLists, regen \in BOOLEAN, regenCa \in BOOLEAN, h \in Hosts :
          j = [todo |-> <<"ca", Server>> \o minted, regen |-> regen \/ regenCa,
               regenCa |-> regenCa, host |-> h, serve |-> FALSE]
    BY <1>1 DEF CertsJobs
  <2> DEFINE todo == <<"ca", Server>> \o minted
  <2>2. minted \in Seq(Clients) /\ minted \in Seq(Leaves \cup {"ca"})
    BY <2>1, ListsAssumption DEF Leaves
  <2>3. /\ <<"ca", Server>> \in Seq(Leaves \cup {"ca"}) /\ Len(<<"ca", Server>>) = 2
        /\ <<"ca", Server>>[1] = "ca" /\ <<"ca", Server>>[2] = Server
    BY DEF Leaves
  <2>4. /\ todo \in Seq(Leaves \cup {"ca"}) /\ Len(todo) = 2 + Len(minted)
        /\ todo[1] = "ca" /\ todo[2] = Server
        /\ \A i \in 1..Len(minted) : todo[i + 2] = minted[i]
    BY <2>2, <2>3, Joined
  <2>5. j.todo = todo /\ j.regenCa = regenCa /\ j.regen = (regen \/ regenCa) /\ j.serve = FALSE
    BY <2>1
  <2> HIDE DEF todo
  <2>6. DOMAIN todo = 1..(2 + Len(minted)) /\ Len(minted) \in Nat /\ Head(todo) = todo[1]
    BY <2>2, <2>4
  <2>7. ASSUME NEW i \in DOMAIN todo, todo[i] = "ca" PROVE i = 1
    <3>1. i \in 1..(2 + Len(minted))
      BY <2>6
    <3>2. i # 2
      BY <2>4, <2>7, SentinelAssumption DEF Leaves
    <3>3. CASE i > 2
      <4>1. i - 2 \in 1..Len(minted) /\ (i - 2) + 2 = i
        BY <2>6, <3>1, <3>3
      <4>2. todo[i] = minted[i - 2] /\ minted[i - 2] \in Clients
        BY <2>2, <2>4, <4>1
      <4> QED BY <2>7, <4>2, SentinelAssumption DEF Leaves
    <3> QED BY <3>1, <3>2, <3>3
  <2> QED BY <2>4, <2>5, <2>6, <2>7 DEF Ordered
<1>2. ASSUME NEW j \in BringUpJobs \cup MintJobs PROVE Ordered(j) /\ (j.regenCa => Head(j.todo) = "ca")
  <2>1. PICK l \in Leaves : j.todo = <<l>>
    BY <1>2 DEF BringUpJobs, MintJobs, NoWork, Leaves
  <2>2. j.regenCa = FALSE
    BY <1>2 DEF BringUpJobs, MintJobs, NoWork
  <2>3. DOMAIN <<l>> = {1} /\ <<l>>[1] = l /\ l # "ca"
    BY SentinelAssumption
  <2> QED BY <2>1, <2>2, <2>3 DEF Ordered
<1> QED BY <1>1, <1>2 DEF Jobs

\* A step within one task.
LEMMA StepKeeps ==
  ASSUME Typed, Together, NEW p \in Procs, pc[p] # "idle", NEW step, step # "idle",
         pc' = [pc EXCEPT ![p] = step], UNCHANGED <<job, alone, clean>>,
         Counts(p) => Fits(p)'
  PROVE  Together'
BY DEF Together, Typed, TypeOK, Busy, Counts

\* The end of an invocation.
LEMMA ExitKeeps ==
  ASSUME Typed, Together, NEW p \in Procs, pc[p] # "idle", Exit(p),
         clean' => alone /\ Sound'
  PROVE  Together'
<1>1. /\ pc' = [pc EXCEPT ![p] = "idle"] /\ UNCHANGED alone
      /\ \A q \in Procs : q # p => job'[q] = job[q]
  BY DEF Exit, Goto, Typed, TypeOK
<1>2. Busy' = Busy \ {p} /\ p \in Busy
  BY <1>1 DEF Busy, Typed, TypeOK
<1>3. alone => Busy' = {}
  BY <1>2 DEF Together
<1>4. \A q \in Busy' : Ordered(job[q])'
  BY <1>1, <1>2 DEF Together, Ordered, Busy
<1>5. \A q \in Busy' : ~Counts(q)'
  BY <1>1, <1>2, <1>3 DEF Counts
<1>6. clean' => alone' /\ Sound'
  BY <1>1
<1>7. alone' => \A q, r \in Busy' : q = r
  BY <1>1, <1>3
<1> QED BY <1>4, <1>5, <1>6, <1>7 DEF Together

\* The end of a task.
LEMMA NextTaskKeeps ==
  ASSUME Typed, Together, NEW p \in Procs, pc[p] # "idle", NextTask(p),
         Counts(p) => Sound' \/ (CaSound' /\ job[p].regenCa /\ Task(p) = "ca")
  PROVE  Together'
<1> DEFINE rest == Tail(job[p].todo)
<1>1. p \in Busy /\ Ordered(job[p]) /\ job[p].todo \in Seq(Leaves \cup {"ca"}) /\ job[p].todo # <<>>
  BY DEF Together, Busy, Typed, TypeOK, Job, InHand
<1>2. Task(p) = "ca" => rest # <<>> /\ Head(rest) = Server
  <2>1. Task(p) = job[p].todo[1] /\ 1 \in DOMAIN job[p].todo
    BY <1>1 DEF Task
  <2>2. ASSUME Task(p) = "ca" PROVE 1 + 1 \in DOMAIN job[p].todo /\ job[p].todo[1 + 1] = Server
    <3> HIDE DEF rest
    <3> QED BY <1>1, <2>1, <2>2 DEF Ordered
  <2>3. 1 + 1 \in DOMAIN job[p].todo => rest # <<>> /\ Head(rest) = job[p].todo[1 + 1]
    <3> DEFINE s == job[p].todo
    <3>1. s \in Seq(Leaves \cup {"ca"}) /\ s # <<>>
      BY <1>1
    <3> HIDE DEF s
    <3>2. /\ DOMAIN s = 1..Len(s) /\ Len(s) \in Nat /\ Tail(s) \in Seq(Leaves \cup {"ca"})
          /\ Len(Tail(s)) = Len(s) - 1 /\ \A i \in 1..(Len(s) - 1) : Tail(s)[i] = s[i + 1]
      BY <3>1
    <3>3. ASSUME 1 + 1 \in DOMAIN s PROVE Tail(s) # <<>> /\ Tail(s)[1] = s[1 + 1]
      <4>1. Len(Tail(s)) # 0 /\ 1 \in 1..(Len(s) - 1)
        BY <3>2, <3>3
      <4>2. Tail(s) # <<>>
        <5>1. Len(<<>>) = 0
          OBVIOUS
        <5> QED BY <4>1, <5>1, Zenon
      <4> QED BY <3>2, <4>1, <4>2
    <3>4. Tail(s) # <<>> => Head(Tail(s)) = Tail(s)[1]
      BY <3>2
    <3> QED BY <3>3, <3>4 DEF s
  <2> QED BY <2>2, <2>3
<1>3. CASE rest # <<>>
  <2>1. /\ pc' = [pc EXCEPT ![p] = "task"] /\ job' = [job EXCEPT ![p].todo = rest]
        /\ UNCHANGED <<alone, clean>>
    BY <1>3 DEF NextTask, Goto
  <2>2. /\ \A q \in Procs \ {p} : job'[q] = job[q]
        /\ job'[p].todo = rest /\ job'[p].regenCa = job[p].regenCa
        /\ job'[p].regen = job[p].regen /\ job'[p].serve = job[p].serve
    BY <2>1 DEF Typed, TypeOK, Job
  <2>3. Ordered(job[p])'
    <3>1. \A i \in DOMAIN rest : i + 1 \in DOMAIN job[p].todo /\ rest[i] = job[p].todo[i + 1]
      BY <1>1
    <3>2. \A i \in DOMAIN rest : i + 2 \in DOMAIN job[p].todo => i + 1 \in DOMAIN rest
      BY <1>1
    <3>3. \A i \in DOMAIN rest : (i + 1) + 1 = i + 2
      BY <1>1
    <3> QED BY <1>1, <2>2, <3>1, <3>2, <3>3 DEF Ordered
  <2>4. Task(p)' = Head(rest)
    BY <2>2 DEF Task
  <2>5. Counts(p) => Fits(p)'
    <3>1. pc'[p] = "task"
      BY <2>1 DEF Typed, TypeOK
    <3> QED BY <1>2, <2>2, <2>4, <3>1 DEF Fits, Replacing, CaSteps, ServerSteps, LeafSteps
  <2>6. Busy' = Busy
    BY <2>1, <1>1 DEF Busy, Typed, TypeOK
  <2>8. \A q \in Busy : Counts(q)' => q = p /\ Counts(p)
    BY <1>1, <2>1, <2>2 DEF Together, Counts
  <2>9. \A q \in Busy : Ordered(job[q])'
    <3>1. ASSUME NEW q \in Busy \ {p} PROVE Ordered(job[q])'
      <4>1. job'[q] = job[q] /\ Ordered(job[q])
        BY <2>2 DEF Together, Busy
      <4> QED BY <4>1 DEF Ordered
    <3> QED BY <2>3, <3>1
  <2>10. \A q \in Busy' : Counts(q)' => Fits(q)'
    BY <2>5, <2>6, <2>8
  <2> QED BY <1>1, <2>1, <2>6, <2>9, <2>10 DEF Together
<1>4. CASE rest = <<>> /\ job[p].serve
  <2>1. Counts(p) => Sound'
    BY <1>2, <1>4
  <2>2. pc' = [pc EXCEPT ![p] = "launch"] /\ UNCHANGED <<job, alone, clean>>
    BY <1>4 DEF NextTask, Goto
  <2>3. Counts(p) => Fits(p)'
    BY <2>1, <2>2 DEF Fits, CaSteps, ServerSteps, LeafSteps, Typed, TypeOK
  <2> QED BY <2>2, <2>3, StepKeeps
<1>5. CASE rest = <<>> /\ ~job[p].serve
  <2>1. Exit(p) /\ clean' = (clean \/ (alone /\ job[p].regenCa))
    BY <1>5 DEF NextTask
  <2>2. clean' => alone /\ Sound'
    BY <1>1, <1>2, <1>5, <2>1 DEF Together, Counts
  <2> QED BY <2>1, <2>2, ExitKeeps
<1> QED BY <1>3, <1>4, <1>5

\* What p does not do to the files leaves them sound.
LEMMA TogetherKept == Typed /\ Together /\ [Next]_vars => Together'
<1> SUFFICES ASSUME Typed, Together, [Next]_vars PROVE Together'
  OBVIOUS
<1> USE DEF Goto, files
<1> DEFINE Kept == UNCHANGED <<caKey, caCert, leafKey, leafCert>>
<1>0. /\ Kept => (Sound' <=> Sound)
      /\ \A p \in Procs : pc[p] # "idle" => p \in Busy /\ Ordered(job[p]) /\ (Counts(p) => Fits(p))
  BY DEF Sound, CaSound, ServerSound, Together, Busy
<1>1. ASSUME NEW p \in Procs, NEW j \in Jobs, Start(p, j) PROVE Together'
  <2>1. /\ pc[p] = "idle" /\ pc' = [pc EXCEPT ![p] = "task"] /\ job' = [job EXCEPT ![p] = j]
        /\ alone' = (Busy = {}) /\ clean' = (clean /\ Busy = {}) /\ Kept
    BY <1>1 DEF Start
  <2>2. /\ Busy' = Busy \cup {p} /\ pc'[p] = "task" /\ job'[p] = j
        /\ \A q \in Procs \ {p} : job'[q] = job[q]
    BY <2>1 DEF Busy, Typed, TypeOK
  <2>3. Ordered(j) /\ (j.regenCa => Task(p)' = "ca")
    BY <2>2, JobsOrdered DEF Task
  <2>4. \A q \in Busy' : Ordered(job[q])'
    <3>1. ASSUME NEW q \in Busy' PROVE job'[q] = j \/ (q \in Busy /\ job'[q] = job[q])
      BY <2>2 DEF Busy
    <3> QED BY <2>3, <3>1 DEF Together, Ordered
  <2>5. ASSUME Counts(p)' PROVE Fits(p)'
    <3>1. Sound' \/ (job'[p].regenCa /\ Task(p)' = "ca")
      BY <1>0, <2>1, <2>2, <2>3, <2>5 DEF Counts, Together
    <3> QED BY <2>2, <3>1 DEF Fits, CaSteps, ServerSteps, LeafSteps
  <2> QED BY <2>1, <2>2, <2>4, <2>5 DEF Together, Counts
<1>2. ASSUME NEW p \in Procs, ReuseClient(p) \/ ReuseServer(p) PROVE Together'
  <2>1. pc[p] # "idle" /\ NextTask(p) /\ Kept
    BY <1>2 DEF ReuseClient, ReuseServer
  <2>2. ASSUME Counts(p) PROVE Sound
    <3>1. CASE ReuseClient(p)
      BY <1>0, <2>1, <2>2, <3>1, SentinelAssumption DEF ReuseClient, ReusesClient, Fits, Replacing, Leaves
    <3>2. CASE ReuseServer(p)
      BY <1>0, <2>1, <2>2, <3>2 DEF ReuseServer, Reusable, Ordered, Fits, Replacing, ServerSteps, Sound
    <3> QED BY <1>2, <3>1, <3>2
  <2> QED BY <1>0, <2>1, <2>2, NextTaskKeeps
<1>3. ASSUME NEW p \in Procs, ReuseCa(p) PROVE Together'
  <2>1. pc[p] = "task" /\ Kept /\ ~RegeneratesCa(p)
    BY <1>3 DEF ReuseCa
  <2>2. Counts(p) => Sound \/ (Replacing(p) /\ CaSound)
    BY <1>0, <2>1 DEF Fits, RegeneratesCa
  <2>3. CASE Task(p) = "ca"
    <3>1. NextTask(p) /\ (Counts(p) => Sound)
      BY <1>3, <2>2, <2>3 DEF ReuseCa, Replacing, Server
    <3> QED BY <1>0, <2>1, <3>1, NextTaskKeeps
  <2>4. CASE Task(p) # "ca"
    <3>1. pc' = [pc EXCEPT ![p] = "load_key"] /\ mem' = [mem EXCEPT ![p].ca = caCert]
          /\ UNCHANGED <<job, alone, clean>>
      BY <1>3, <2>4 DEF ReuseCa
    <3>2. pc'[p] = "load_key" /\ mem'[p].ca = caCert
      BY <3>1 DEF Typed, TypeOK, Mem
    <3>3. Counts(p) => Fits(p)'
      BY <2>1, <2>2, <3>1, <3>2
         DEF Fits, Replacing, Task, Sound, CaSound, ServerSound, CaSteps, ServerSteps, LeafSteps
    <3> QED BY <2>1, <3>1, <3>3, StepKeeps
  <2> QED BY <2>3, <2>4
<1>4. ASSUME NEW p \in Procs, NEW k \in Keys, GenerateCa(p, k) PROVE Together'
  <2>1. /\ pc[p] = "task" /\ Kept /\ pc' = [pc EXCEPT ![p] = "ca_key_open"]
        /\ UNCHANGED <<job, alone, clean>> /\ (RegeneratesCa(p) \/ ~HasCa)
    BY <1>4 DEF GenerateCa
  <2>2. pc'[p] = "ca_key_open" /\ Task(p)' = Task(p) /\ job' = job
    BY <2>1 DEF Typed, TypeOK, Task
  <2>3. ASSUME Counts(p) PROVE leafCert[Server] \notin Cert \/ (job[p].regenCa /\ Task(p) \in {"ca", Server})
    <3>1. CASE RegeneratesCa(p)
      BY <3>1 DEF RegeneratesCa
    <3>2. CASE Sound /\ ~HasCa
      <4>1. caCert = Absent
        BY <3>2 DEF Sound, CaSound, HasCa
      <4>2. leafCert[Server] \in Cert => leafCert[Server].signer # Absent
        BY SentinelAssumption DEF Cert
      <4> QED BY <3>2, <4>1, <4>2 DEF Sound, ServerSound
    <3> QED BY <1>0, <2>1, <2>3, <3>1, <3>2 DEF Fits, Replacing
  <2>4. Counts(p) => Fits(p)'
    BY <2>1, <2>2, <2>3 DEF Fits, CaSteps, ServerSteps, LeafSteps
  <2> QED BY <2>1, <2>4, StepKeeps
<1>5. ASSUME NEW p \in Procs, WriteCa(p) PROVE Together'
  <2>1. /\ pc[p] \in CaSteps /\ UNCHANGED <<leafKey, leafCert, job, mem, alone, clean>>
        /\ Task(p)' = Task(p)
    BY <1>5 DEF WriteCa, CaSteps, Task
  <2>2. Counts(p) => leafCert[Server] \notin Cert \/ (job[p].regenCa /\ Task(p) \in {"ca", Server})
    BY <1>0, <2>1 DEF Fits, CaSteps
  <2>3. CASE pc[p] = "ca_key_open"
    <3>1. pc' = [pc EXCEPT ![p] = "ca_key_close"] /\ pc'[p] = "ca_key_close" /\ caKey' = Torn
      BY <1>5, <2>3 DEF WriteCa, Typed, TypeOK
    <3>2. Counts(p) => Fits(p)'
      BY <2>1, <2>2, <3>1 DEF Fits, CaSteps, ServerSteps, LeafSteps
    <3> QED BY <2>1, <2>3, <3>1, <3>2, StepKeeps
  <2>4. CASE pc[p] = "ca_key_close"
    <3>1. /\ pc' = [pc EXCEPT ![p] = "ca_cert_open"] /\ pc'[p] = "ca_cert_open"
          /\ caKey' \in Closed(caKey, mem[p].ca)
      BY <1>5, <2>4 DEF WriteCa, Typed, TypeOK
    <3>2. Counts(p) => caKey' = mem[p].ca
      BY <1>0, <2>4, <3>1 DEF Fits, Closed
    <3>3. Counts(p) => Fits(p)'
      BY <2>1, <2>2, <3>1, <3>2 DEF Fits, CaSteps, ServerSteps, LeafSteps
    <3> QED BY <2>1, <2>4, <3>1, <3>3, StepKeeps
  <2>5. CASE pc[p] = "ca_cert_open"
    <3>1. pc' = [pc EXCEPT ![p] = "ca_cert_close"] /\ pc'[p] = "ca_cert_close" /\ caCert' = Torn /\ caKey' = caKey
      BY <1>5, <2>5 DEF WriteCa, Typed, TypeOK
    <3>2. Counts(p) => caKey = mem[p].ca
      BY <1>0, <2>5 DEF Fits
    <3>3. Counts(p) => Fits(p)'
      BY <2>1, <2>2, <3>1, <3>2 DEF Fits, CaSteps, ServerSteps, LeafSteps
    <3> QED BY <2>1, <2>5, <3>1, <3>3, StepKeeps
  <2> QED BY <1>5, <2>3, <2>4, <2>5 DEF WriteCa
<1>6. ASSUME NEW p \in Procs, FinishCa(p) PROVE Together'
  <2>1. pc[p] = "ca_cert_close" /\ UNCHANGED <<caKey, leafKey, leafCert>>
        /\ caCert' \in Closed(caCert, mem[p].ca)
    BY <1>6 DEF FinishCa
  <2>2. ASSUME Counts(p)
        PROVE  /\ CaSound' /\ caCert' = mem[p].ca
               /\ ServerSound' \/ (job[p].regenCa /\ Task(p) \in {"ca", Server})
    BY <1>0, <2>1, <2>2 DEF Fits, CaSteps, Closed, CaSound, ServerSound
  <2>3. CASE Task(p) = "ca"
    <3>1. NextTask(p)
      BY <1>6, <2>3 DEF FinishCa
    <3> QED BY <2>1, <2>2, <2>3, <3>1, NextTaskKeeps DEF Sound
  <2>4. CASE Task(p) # "ca"
    <3>1. pc' = [pc EXCEPT ![p] = "load_key"] /\ UNCHANGED <<job, mem, alone, clean>>
      BY <1>6, <2>4 DEF FinishCa
    <3>2. pc'[p] = "load_key" /\ Task(p)' = Task(p) /\ mem' = mem /\ job' = job
      BY <3>1 DEF Typed, TypeOK, Task
    <3>3. Counts(p) => Fits(p)'
      BY <2>2, <2>4, <3>2 DEF Fits, Replacing, CaSteps, ServerSteps, LeafSteps
    <3> QED BY <2>1, <3>1, <3>3, StepKeeps
  <2> QED BY <2>3, <2>4
<1>7. ASSUME NEW p \in Procs, LoadCaKey(p) PROVE Together'
  <2> DEFINE step == IF Task(p) = Server THEN "server_check" ELSE "key_open"
             signer == IF caKey = mem[p].ca THEN caKey ELSE Nobody
             ips == IF Task(p) = Server THEN addrs ELSE {}
  <2>1. /\ pc[p] = "load_key" /\ Kept /\ pc' = [pc EXCEPT ![p] = step]
        /\ UNCHANGED <<job, alone, clean>>
        /\ mem' = [mem EXCEPT ![p].signer = signer, ![p].ips = ips]
    BY <1>7 DEF LoadCaKey
  <2>2. step \in ServerSteps
    BY DEF ServerSteps
  <2>3. Counts(p) => signer = caCert /\ CaSound /\ (ServerSound \/ Replacing(p))
    BY <1>0, <2>1 DEF Fits, CaSound
  <2> HIDE DEF step, signer, ips
  <2>4. pc'[p] = step /\ mem'[p].signer = signer /\ Task(p)' = Task(p) /\ job' = job
    BY <2>1 DEF Typed, TypeOK, Mem, Task
  <2>5. Counts(p) => Fits(p)'
    BY <2>1, <2>2, <2>3, <2>4
       DEF Fits, Replacing, CaSound, ServerSound, Sound, CaSteps, ServerSteps, LeafSteps
  <2> QED BY <2>1, <2>2, <2>5, StepKeeps DEF ServerSteps
<1>8. ASSUME NEW p \in Procs, StaleServer(p) PROVE Together'
  <2>1. /\ pc[p] = "server_check" /\ Kept /\ pc' = [pc EXCEPT ![p] = "key_open"]
        /\ UNCHANGED <<job, mem, alone, clean>>
    BY <1>8 DEF StaleServer
  <2>2. pc'[p] = "key_open" /\ Task(p)' = Task(p) /\ job' = job /\ mem' = mem
    BY <2>1 DEF Typed, TypeOK, Task
  <2>3. Counts(p) => CaSound /\ (ServerSound \/ Replacing(p)) /\ mem[p].signer = caCert
    BY <1>0, <2>1 DEF Fits, ServerSteps
  <2>4. Counts(p) => Fits(p)'
    BY <2>1, <2>2, <2>3 DEF Fits, Replacing, CaSound, ServerSound, CaSteps, ServerSteps, LeafSteps
  <2> QED BY <2>1, <2>4, StepKeeps
<1>9. ASSUME NEW p \in Procs, LoadFails(p) \/ Interrupt(p) \/ Launch(p) \/ DoesNotServe(p) PROVE Together'
  <2>1. pc[p] # "idle" /\ Exit(p) /\ Kept
    BY <1>9 DEF LoadFails, Interrupt, Launch, DoesNotServe
  <2>0. clean' => clean /\ (Harmless(p) \/ pc[p] = "launch")
    <3>1. CASE LoadFails(p) \/ Interrupt(p)
      BY <3>1 DEF LoadFails, Interrupt, Harmless, Typed, TypeOK
    <3>2. CASE Launch(p) \/ DoesNotServe(p)
      BY <3>2 DEF Launch, DoesNotServe
    <3> QED BY <1>9, <3>1, <3>2
  <2>2. ASSUME clean' PROVE alone /\ Sound'
    <3>1. clean /\ alone /\ Counts(p) /\ Fits(p)
      BY <1>0, <2>0, <2>1, <2>2 DEF Together, Counts
    <3>2. Sound
      BY <2>0, <2>1, <2>2, <3>1
         DEF Fits, Harmless, ReadOnlySteps, Replacing, Sound, ServerSteps
    <3> QED BY <1>0, <2>1, <3>1, <3>2
  <2> QED BY <2>1, <2>2, ExitKeeps
<1>10. ASSUME NEW p \in Procs, NEW k \in Keys, OpenKey(p, k) PROVE Together'
  <2>1. /\ pc[p] = "key_open" /\ pc' = [pc EXCEPT ![p] = "key_close"]
        /\ leafKey' = [leafKey EXCEPT ![Task(p)] = Torn] /\ mem' = [mem EXCEPT ![p].key = k]
        /\ UNCHANGED <<caKey, caCert, leafCert, job, alone, clean>>
    BY <1>10 DEF OpenKey
  <2>2. /\ pc'[p] = "key_close" /\ Task(p)' = Task(p) /\ mem'[p].signer = mem[p].signer
        /\ leafKey'[Server] = IF Task(p) = Server THEN Torn ELSE leafKey[Server]
    BY <2>1 DEF Typed, TypeOK, Mem, Task, Leaves
  <2>3. Counts(p) => CaSound /\ (ServerSound \/ Task(p) = Server) /\ mem[p].signer = caCert
    BY <1>0, <2>1 DEF Fits, ServerSteps, Replacing
  <2>4. Counts(p) => Fits(p)'
    BY <2>1, <2>2, <2>3 DEF Fits, CaSound, ServerSound, CaSteps, ServerSteps, LeafSteps
  <2> QED BY <2>1, <2>4, StepKeeps
<1>11. ASSUME NEW p \in Procs, CloseKey(p) PROVE Together'
  <2>1. PICK text \in Closed(leafKey[Task(p)], mem[p].key) :
          leafKey' = [leafKey EXCEPT ![Task(p)] = text]
    BY <1>11 DEF CloseKey
  <2>2. /\ pc[p] = "key_close" /\ pc' = [pc EXCEPT ![p] = "cert_open"]
        /\ UNCHANGED <<caKey, caCert, leafCert, job, mem, alone, clean>>
    BY <1>11 DEF CloseKey
  <2>3. /\ pc'[p] = "cert_open" /\ Task(p)' = Task(p)
        /\ leafKey'[Server] = IF Task(p) = Server THEN text ELSE leafKey[Server]
    BY <2>1, <2>2 DEF Typed, TypeOK, Task, Leaves
  <2>4. ASSUME Counts(p)
        PROVE  /\ CaSound /\ (ServerSound \/ Task(p) = Server) /\ mem[p].signer = caCert
               /\ Task(p) = Server => text = mem[p].key
    BY <1>0, <2>1, <2>2, <2>4 DEF Fits, LeafSteps, Closed
  <2>5. Counts(p) => Fits(p)'
    BY <2>2, <2>3, <2>4 DEF Fits, CaSound, ServerSound, CaSteps, ServerSteps, LeafSteps
  <2> QED BY <2>2, <2>5, StepKeeps
<1>12. ASSUME NEW p \in Procs, OpenCert(p) PROVE Together'
  <2>1. /\ pc[p] = "cert_open" /\ pc' = [pc EXCEPT ![p] = "cert_close"]
        /\ leafCert' = [leafCert EXCEPT ![Task(p)] = Torn]
        /\ UNCHANGED <<caKey, caCert, leafKey, job, mem, alone, clean>>
    BY <1>12 DEF OpenCert
  <2>2. /\ pc'[p] = "cert_close" /\ Task(p)' = Task(p)
        /\ leafCert'[Server] = IF Task(p) = Server THEN Torn ELSE leafCert[Server]
    BY <2>1 DEF Typed, TypeOK, Task, Leaves
  <2>3. Counts(p) =>
          /\ CaSound /\ (ServerSound \/ Task(p) = Server) /\ mem[p].signer = caCert
          /\ Task(p) = Server => leafKey[Server] = mem[p].key
    BY <1>0, <2>1 DEF Fits, LeafSteps
  <2>4. Counts(p) => Fits(p)'
    BY <2>1, <2>2, <2>3 DEF Fits, CaSound, ServerSound, CaSteps, ServerSteps, LeafSteps
  <2> QED BY <2>1, <2>4, StepKeeps
<1>13. ASSUME NEW p \in Procs, CloseCert(p) PROVE Together'
  <2>1. PICK text \in Closed(leafCert[Task(p)], Minted(p)) :
          leafCert' = [leafCert EXCEPT ![Task(p)] = text]
    BY <1>13 DEF CloseCert
  <2>2. pc[p] = "cert_close" /\ NextTask(p) /\ UNCHANGED <<caKey, caCert, leafKey>>
    BY <1>13 DEF CloseCert
  <2>3. leafCert'[Server] = IF Task(p) = Server THEN text ELSE leafCert[Server]
    BY <2>1 DEF Typed, TypeOK, Leaves
  <2>4. ASSUME Counts(p) PROVE Sound'
    <3>1. CaSound /\ mem[p].signer = caCert /\ (ServerSound \/ Task(p) = Server)
      BY <1>0, <2>2, <2>4 DEF Fits, LeafSteps
    <3>2. CASE Task(p) = Server
      <4>1. text = Minted(p) /\ leafKey[Server] = mem[p].key
        BY <1>0, <2>1, <2>2, <2>4, <3>2 DEF Fits, Closed
      <4>2. Minted(p).key = mem[p].key /\ Minted(p).signer = mem[p].signer
        BY DEF Minted
      <4> QED BY <2>2, <2>3, <3>1, <3>2, <4>1, <4>2 DEF Sound, CaSound, ServerSound
    <3>3. CASE Task(p) # Server
      BY <2>2, <2>3, <3>1, <3>3 DEF Sound, CaSound, ServerSound
    <3> QED BY <3>2, <3>3
  <2> QED BY <2>2, <2>4, NextTaskKeeps
<1>14. ASSUME UNCHANGED <<caKey, caCert, leafKey, pc, job, mem, alone, clean>>,
              leafCert'[Server] \in Cert <=> leafCert[Server] \in Cert,
              leafCert[Server] \in Cert =>
                leafCert'[Server].key = leafCert[Server].key /\
                leafCert'[Server].signer = leafCert[Server].signer,
              leafCert[Server] = Torn => leafCert'[Server] = Torn
       PROVE  Together'
  <2>1. Busy' = Busy /\ (ServerSound' <=> ServerSound) /\ (CaSound' <=> CaSound)
    BY <1>14 DEF Busy, ServerSound, CaSound
  <2>2. ASSUME NEW p \in Busy
        PROVE  (Fits(p) => Fits(p)') /\ (Counts(p)' <=> Counts(p)) /\ (Ordered(job[p]) => Ordered(job[p])')
    BY <1>14, <2>1 DEF Fits, Counts, Ordered, Replacing, Task, Sound
  <2> QED BY <1>14, <2>1, <2>2 DEF Together, Sound
<1>15. ASSUME BrokerStops \/ (\E ips \in SUBSET Addresses : Relocate(ips)) \/ UNCHANGED vars PROVE Together'
  <2>1. UNCHANGED <<caKey, caCert, leafKey, leafCert, pc, job, mem, alone, clean>>
    BY <1>15 DEF BrokerStops, Relocate, vars
  <2> QED BY <1>14, <2>1
<1>16. ASSUME ServerCertExpires PROVE Together'
  <2>1. /\ leafCert[Server] \in Cert /\ leafCert' = [leafCert EXCEPT ![Server].valid = FALSE]
        /\ UNCHANGED <<caKey, caCert, leafKey, pc, job, mem, alone, clean>>
    BY <1>16 DEF ServerCertExpires
  <2>2. leafCert'[Server] = [leafCert[Server] EXCEPT !.valid = FALSE]
    BY <2>1 DEF Typed, TypeOK, Leaves
  <2>3. /\ leafCert'[Server] \in Cert /\ leafCert'[Server].key = leafCert[Server].key
        /\ leafCert'[Server].signer = leafCert[Server].signer
    <3>1. ASSUME NEW c \in Cert
          PROVE  /\ [c EXCEPT !.valid = FALSE] \in Cert
                 /\ [c EXCEPT !.valid = FALSE].key = c.key
                 /\ [c EXCEPT !.valid = FALSE].signer = c.signer
      BY DEF Cert
    <3> QED BY <2>1, <2>2, <3>1
  <2>4. leafCert[Server] # Torn
    BY <2>1, SentinelAssumption
  <2> QED BY <1>14, <2>1, <2>3, <2>4
<1> QED BY <1>1, <1>2, <1>3, <1>4, <1>5, <1>6, <1>7, <1>8, <1>9, <1>10, <1>11, <1>12, <1>13,
     <1>15, <1>16 DEF Next, Step

\* MaterialBelongsTogether, for every instance: what an undisturbed
\* --regenerate-ca has put right stays right until two invocations overlap or
\* one is cut off while it writes.
THEOREM MaterialIsWhole == Spec => []MaterialBelongsTogether
<1> DEFINE Inv == Typed /\ Together
<1>1. Init => Together
  BY SentinelAssumption DEF Init, Together, Busy, Sound, CaSound, ServerSound, Leaves
<1>2. Inv /\ [Next]_vars => Inv'
  BY TypeKept, TogetherKept
<1>3. Inv => MaterialBelongsTogether
  <2> SUFFICES ASSUME Inv, clean, Settled PROVE Sound
    BY DEF MaterialBelongsTogether, Sound, CaSound, ServerSound
  <2>1. CASE Busy = {}
    BY <2>1 DEF Together
  <2>2. ASSUME NEW p \in Busy PROVE Sound
    <3>1. Fits(p) /\ Harmless(p) /\ pc[p] # "idle"
      BY <2>2 DEF Together, Counts, Settled, Busy
    <3> QED BY <3>1 DEF Fits, Harmless, ReadOnlySteps, Replacing, Sound, ServerSteps
  <2> QED BY <2>1, <2>2
<1> QED BY <1>1, <1>2, <1>3, AlwaysTyped, PTL DEF Spec

\* MismatchedCaStays, for every instance: only a --regenerate-ca replaces a CA of
\* which both files are there.
THEOREM MismatchIsKept == Spec => MismatchedCaStays
<1> DEFINE Stays == Mismatched => Mismatched' \/ \E p \in Procs : pc[p] = "idle" /\ job'[p].regenCa
<1>1. Typed /\ [Next]_vars => [Stays]_vars
  <2> SUFFICES ASSUME Typed, [Next]_vars, Mismatched,
                      ~\E p \in Procs : pc[p] = "idle" /\ job'[p].regenCa
               PROVE  Mismatched'
    OBVIOUS
  <2>1. HasCa /\ \A p \in Busy : ~job[p].regenCa /\ pc[p] \notin CaSteps
    BY SentinelAssumption DEF Mismatched, HasCa, CaSteps
  <2> DEFINE Ok(p) == pc[p] # "idle" => ~job[p].regenCa /\ pc[p] \notin CaSteps
  <2>2. \A p \in Procs : Ok(p)
    BY <2>1 DEF Busy, Typed, TypeOK, Job
  <2> HIDE DEF Ok
  <2> USE DEF Goto, files
  <2>3. ASSUME UNCHANGED <<caKey, caCert>>, \A p \in Procs : Ok(p)' PROVE Mismatched'
    BY <2>3 DEF Mismatched, Busy, CaSteps, Ok
  <2>4. ASSUME NEW p \in Procs, NEW step, step \notin CaSteps, pc[p] # "idle",
               pc' = [pc EXCEPT ![p] = step], UNCHANGED <<caKey, caCert, job>>
        PROVE  Mismatched'
    BY <2>2, <2>3, <2>4 DEF Ok, Typed, TypeOK
  <2>5. ASSUME NEW p \in Procs, Exit(p), UNCHANGED <<caKey, caCert>> PROVE Mismatched'
    BY <2>2, <2>3, <2>5 DEF Exit, Ok, Typed, TypeOK
  <2>6. ASSUME NEW p \in Procs, pc[p] # "idle", NextTask(p), UNCHANGED <<caKey, caCert>> PROVE Mismatched'
    <3> DEFINE rest == Tail(job[p].todo)
    <3>1. CASE rest # <<>>
      <4>1. pc' = [pc EXCEPT ![p] = "task"] /\ job' = [job EXCEPT ![p].todo = rest]
        BY <2>6, <3>1 DEF NextTask
      <4> HIDE DEF rest
      <4>2. job'[p].regenCa = job[p].regenCa /\ \A q \in Procs \ {p} : job'[q] = job[q]
        BY <4>1 DEF Typed, TypeOK, Job
      <4> QED BY <2>2, <2>3, <2>6, <4>1, <4>2 DEF Ok, Typed, TypeOK, CaSteps
    <3>2. CASE rest = <<>> /\ job[p].serve
      <4>1. pc' = [pc EXCEPT ![p] = "launch"] /\ UNCHANGED job
        BY <2>6, <3>2 DEF NextTask
      <4> QED BY <2>4, <2>6, <4>1 DEF CaSteps
    <3>3. CASE rest = <<>> /\ ~job[p].serve
      BY <2>5, <2>6, <3>3 DEF NextTask
    <3> QED BY <3>1, <3>2, <3>3
  <2>7. ASSUME NEW p \in Procs, NEW j \in Jobs, Start(p, j) PROVE Mismatched'
    BY <2>2, <2>3, <2>7 DEF Start, Ok, Typed, TypeOK, CaSteps
  <2>8. ASSUME NEW p \in Procs, ReuseClient(p) \/ ReuseServer(p) PROVE Mismatched'
    BY <2>6, <2>8 DEF ReuseClient, ReuseServer
  <2>9. ASSUME NEW p \in Procs, ReuseCa(p) PROVE Mismatched'
    <3>1. CASE Task(p) = "ca"
      BY <2>6, <2>9, <3>1 DEF ReuseCa
    <3>2. CASE Task(p) # "ca"
      BY <2>4, <2>9, <3>2 DEF ReuseCa, CaSteps
    <3> QED BY <3>1, <3>2
  <2>10. ASSUME NEW p \in Procs, (\E k \in Keys : GenerateCa(p, k)) \/ WriteCa(p) \/ FinishCa(p)
         PROVE  FALSE
    BY <2>1, <2>2, <2>10 DEF GenerateCa, WriteCa, FinishCa, RegeneratesCa, Ok, CaSteps
  <2>11. ASSUME NEW p \in Procs, LoadCaKey(p) PROVE Mismatched'
    BY <2>4, <2>11 DEF LoadCaKey, CaSteps
  <2>12. ASSUME NEW p \in Procs,
                StaleServer(p) \/ (\E k \in Keys : OpenKey(p, k)) \/ CloseKey(p) \/ OpenCert(p)
         PROVE  Mismatched'
    BY <2>4, <2>12 DEF StaleServer, OpenKey, CloseKey, OpenCert, CaSteps
  <2>13. ASSUME NEW p \in Procs, CloseCert(p) PROVE Mismatched'
    BY <2>6, <2>13 DEF CloseCert
  <2>14. ASSUME NEW p \in Procs, LoadFails(p) \/ Interrupt(p) \/ Launch(p) \/ DoesNotServe(p)
         PROVE  Mismatched'
    BY <2>5, <2>14 DEF LoadFails, Interrupt, Launch, DoesNotServe
  <2>15. ASSUME UNCHANGED <<caKey, caCert, pc, job>> PROVE Mismatched'
    BY <2>2, <2>3, <2>15 DEF Ok
  <2>16. BrokerStops \/ (\E ips \in SUBSET Addresses : Relocate(ips)) \/ ServerCertExpires
           \/ UNCHANGED vars => UNCHANGED <<caKey, caCert, pc, job>>
    BY DEF BrokerStops, Relocate, ServerCertExpires, vars
  <2>17. ASSUME NEW p \in Procs, Step(p) PROVE Mismatched'
    BY <2>8, <2>9, <2>10, <2>11, <2>12, <2>13, <2>14, <2>17 DEF Step
  <2>18. ASSUME NEW p \in Procs, Interrupt(p) PROVE Mismatched'
    BY <2>14, <2>18
  <2> HIDE DEF Goto, files
  <2> QED BY <2>7, <2>15, <2>16, <2>17, <2>18 DEF Next
<1> QED BY <1>1, AlwaysTyped, PTL DEF Spec, MismatchedCaStays
=============================================================================
