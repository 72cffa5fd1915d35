------------------------ MODULE ClientRegistryProofs ------------------------
(***************************************************************************)
(* Theorems of ClientRegistry, for every set of clients, roles, children   *)
(* and invocations.                                                        *)
(***************************************************************************)
EXTENDS ClientRegistry, GrantsProofs

\* The empty dict is a registry.
LEMMA EmptyTyped == EmptyRegistry \in Registry
BY DEF EmptyRegistry, Registry, Slot

\* An idle process is typed as a bring-up that uses no registry.
LEMMA IdleOpTyped == [kind |-> "open"] \in Op
BY DEF Op, OpenBringUp

\* A registry that load_registry returns is a registry.
LEMMA ReadTyped ==
  ASSUME TypeOK, registryFile \notin Broken
  PROVE  ReadRegistry \in Registry
BY EmptyTyped DEF TypeOK, ReadRegistry

\* A change leaves a registry a registry.
LEMMA ChangedTyped ==
  ASSUME NEW o \in Op, IsChange(o), NEW r \in Registry
  PROVE  Changed(o, r) \in Registry
<1>1. o.entry \in Slot
  BY DEF Op, SetOp, RemoveOp, BringUp, OpenBringUp, IsChange, Slot
<1> QED BY <1>1 DEF Changed, Registry

\* A write leaves its text or a mix in the file.
LEMMA OverwriteTyped ==
  ASSUME NEW content, NEW text, NEW S, text \in S
  PROVE  Overwrite(content, text) \subseteq S \cup Broken
BY DEF Overwrite, Broken

\* What a process is left with when its invocation ends.
LEMMA ExitTyped ==
  ASSUME TypeOK, NEW p \in Procs, Exit(p)
  PROVE  /\ pc' \in [Procs -> Steps]
         /\ op' \in [Procs -> Op]
         /\ mine' \in [Procs -> Registry]
         /\ alone' \in BOOLEAN
BY EmptyTyped, IdleOpTyped DEF TypeOK, Exit, Goto, Steps

\* Every variable keeps its type: a file holds a registry (an ACL) or a marker
\* of a missing or half-written text, a command holds a whole registry.
THEOREM TypeCorrect == Spec => []TypeOK
<1>1. Init => TypeOK
  BY EmptyTyped, IdleOpTyped DEF Init, TypeOK, Steps
<1>2. TypeOK /\ [Next]_vars => TypeOK'
  <2> SUFFICES ASSUME TypeOK, [Next]_vars PROVE TypeOK'
    OBVIOUS
  <2> USE DEF fileVars, brokerVars, procVars
  <2>1. ASSUME NEW p \in Procs, NEW o \in Op, Start(p, o) PROVE TypeOK'
    BY <2>1 DEF TypeOK, Start, Goto, Steps
  <2>2. ASSUME NEW p \in Procs, LoadFails(p) PROVE TypeOK'
    BY <2>2, ExitTyped DEF TypeOK, LoadFails
  <2>3. ASSUME NEW p \in Procs, RemoveUnknown(p) PROVE TypeOK'
    BY <2>3, ExitTyped DEF TypeOK, RemoveUnknown
  <2>4. ASSUME NEW p \in Procs, Load(p) PROVE TypeOK'
    <3>1. op[p] \in Op /\ ReadRegistry \in Registry
      BY <2>4, ReadTyped DEF Load, TypeOK
    <3>2. (IF IsChange(op[p]) THEN Changed(op[p], ReadRegistry) ELSE ReadRegistry) \in Registry
      BY <3>1, ChangedTyped
    <3> QED BY <2>4, <3>2 DEF TypeOK, Load, Goto, Steps
  <2>5. ASSUME NEW p \in Procs, TruncateRegistry(p) PROVE TypeOK'
    BY <2>5 DEF TypeOK, TruncateRegistry, Goto, Steps, Broken
  <2>6. ASSUME NEW p \in Procs, WriteRegistry(p) PROVE TypeOK'
    <3>1. mine[p] \in Registry
      BY DEF TypeOK
    <3>2. registryFile' \in Registry \cup Broken
      BY <2>6, <3>1, OverwriteTyped DEF WriteRegistry
    <3> QED BY <2>6, <3>1, <3>2 DEF TypeOK, WriteRegistry, Goto, Steps
  <2>7. ASSUME NEW p \in Procs, NoAclYet(p) PROVE TypeOK'
    BY <2>7, ExitTyped DEF TypeOK, NoAclYet
  <2>8. ASSUME NEW p \in Procs, AclExists(p) PROVE TypeOK'
    BY <2>8 DEF TypeOK, AclExists, Goto, Steps
  <2>9. ASSUME NEW p \in Procs, TruncateAcl(p) PROVE TypeOK'
    BY <2>9 DEF TypeOK, TruncateAcl, Goto, Steps, Broken
  <2>10. ASSUME NEW p \in Procs, WriteAcl(p) PROVE TypeOK'
    <3>1. RenderAcl(mine[p]) \in Acl
      BY DEF TypeOK, Acl
    <3>2. aclFile' \in Acl \cup Broken
      BY <2>10, <3>1, OverwriteTyped DEF WriteAcl
    <3> QED BY <2>10, <3>2 DEF TypeOK, WriteAcl, Goto, Steps
  <2>11. ASSUME NEW p \in Procs, ReloadBroker(p) PROVE TypeOK'
    BY <2>11, ExitTyped DEF TypeOK, ReloadBroker
  <2>12. ASSUME NEW p \in Procs, Interrupt(p) PROVE TypeOK'
    BY <2>12, ExitTyped DEF TypeOK, Interrupt
  <2>13. ASSUME NEW p \in Procs, LaunchBroker(p) PROVE TypeOK'
    BY <2>13, ExitTyped DEF TypeOK, LaunchBroker
  <2>14. ASSUME NEW p \in Procs, PortsTaken(p) PROVE TypeOK'
    BY <2>14, ExitTyped DEF TypeOK, PortsTaken
  <2>15. ASSUME NEW p \in Procs, NoRun(p) PROVE TypeOK'
    BY <2>15, ExitTyped DEF TypeOK, NoRun
  <2>16. CASE ActOnHup
    BY <2>16 DEF TypeOK, ActOnHup
  <2>17. CASE BrokerStops
    BY <2>17 DEF TypeOK, BrokerStops
  <2>18. CASE UNCHANGED vars
    BY <2>18 DEF TypeOK, vars
  <2> QED
    BY <2>1, <2>2, <2>3, <2>4, <2>5, <2>6, <2>7, <2>8, <2>9, <2>10, <2>11, <2>12,
       <2>13, <2>14, <2>15, <2>16, <2>17, <2>18 DEF Next, Step
<1> QED BY <1>1, <1>2, PTL DEF Spec

-----------------------------------------------------------------------------
(* The inductive invariant: what a lone invocation can rely on at each of  *)
(* its steps.                                                              *)

\* Which operations come to which steps.
OpFits(p) ==
  /\ pc[p] \in {"truncate", "write", "acl_exists", "reload"} => IsChange(op[p])
  /\ pc[p] = "launch" => op[p].kind \in {"up", "open"}
  /\ pc[p] \in {"load", "acl_truncate", "acl_write"} => op[p].kind # "open"

\* The registry a lone invocation has in memory against the file...
RegistryInHand(p) ==
  /\ pc[p] = "truncate" =>
       registryFile \notin Broken /\ mine[p] = Changed(op[p], ReadRegistry)
  /\ pc[p] = "write" =>
       registryFile = Truncated /\ mine[p] = Changed(op[p], saved)
  /\ pc[p] \in {"acl_exists", "acl_truncate", "acl_write", "reload"} =>
       registryFile \notin Broken /\ mine[p] = ReadRegistry
  /\ pc[p] = "launch" /\ op[p].kind = "up" =>
       registryFile \notin Broken /\ mine[p] = ReadRegistry

\* ... and the ACL it has written from it.
AclInHand(p) ==
  /\ pc[p] = "acl_write" => aclFile = Truncated
  /\ pc[p] = "reload" => aclFile = RenderAcl(mine[p])
  /\ pc[p] = "launch" /\ op[p].kind = "up" => aclFile = RenderAcl(mine[p])

\* A broker has loaded an ACL only if there is one, and it never goes away.
AclOutlivesUse == aclFile = Absent => enforced = Absent

\* The complete registry in the file is the last one saved.
SavedIsRead == registryFile \notin Broken => saved = ReadRegistry

IInv ==
  /\ alone => \A p, q \in Busy : p = q
  /\ clean => alone \/ Busy = {}
  /\ SavedIsRead
  /\ AclOutlivesUse
  /\ \A p \in Procs : OpFits(p)
  /\ alone => \A p \in Procs : RegistryInHand(p) /\ AclInHand(p)
  /\ RegistryAndAclAgree
  /\ RunningBrokerEnforcesRegistry

\* The markers are no texts.
LEMMA TextsAreNotMarkers ==
  /\ Truncated \in Broken /\ Garbled \in Broken
  /\ Absent \notin Broken
  /\ \A r \in Registry : /\ r \notin Broken
                        /\ r # Absent
                        /\ RenderAcl(r) \notin Broken
                        /\ RenderAcl(r) # Absent
BY SentinelAssumption DEF Broken, Acl

\* The four kinds of operation.
LEMMA OpKinds == \A o \in Op : o.kind \in {"set", "remove", "up", "open"}
BY DEF Op, SetOp, RemoveOp, BringUp, OpenBringUp

\* Every step preserves the invariant. A step of p leaves the clauses of the
\* other invocations alone: either p overlaps none, or `alone` is FALSE.
LEMMA IInvHolds == IInv /\ TypeOK /\ [Next]_vars => IInv'
<1> SUFFICES ASSUME IInv, TypeOK, [Next]_vars PROVE IInv'
  OBVIOUS
<1> USE DEF IInv, TypeOK, Exit, Goto, Busy, IsChange, fileVars, brokerVars, procVars
<1>1. ASSUME NEW p \in Procs, WriteAcl(p) PROVE IInv'
  <2>1. (alone => \A q, r \in Busy : q = r)' /\ (clean => alone \/ Busy = {})'
    BY <1>1 DEF WriteAcl
  <2>2. SavedIsRead' /\ AclOutlivesUse'
    <3>1. mine[p] \in Registry /\ aclFile' \in {RenderAcl(mine[p]), Garbled}
      BY <1>1 DEF WriteAcl, Overwrite
    <3> QED
      BY <1>1, <3>1, TextsAreNotMarkers DEF WriteAcl, SavedIsRead, AclOutlivesUse, ReadRegistry
  <2>3. \A q \in Procs : OpFits(q)'
    BY <1>1, OpKinds DEF WriteAcl, OpFits
  <2>4. ASSUME alone', NEW q \in Procs PROVE RegistryInHand(q)' /\ AclInHand(q)'
    BY <1>1, <2>4 DEF WriteAcl, RegistryInHand, AclInHand, ReadRegistry, Overwrite
  <2>5. RegistryAndAclAgree' /\ RunningBrokerEnforcesRegistry'
    BY <1>1 DEF WriteAcl, OpFits, RegistryAndAclAgree, RunningBrokerEnforcesRegistry, Settled
  <2> QED BY <2>1, <2>2, <2>3, <2>4, <2>5
<1>2. ASSUME NEW p \in Procs, Interrupt(p) PROVE IInv'
  <2>1. (alone => \A q, r \in Busy : q = r)' /\ (clean => alone \/ Busy = {})'
    BY <1>2 DEF Interrupt
  <2>2. SavedIsRead' /\ AclOutlivesUse'
    BY <1>2 DEF Interrupt, SavedIsRead, AclOutlivesUse, ReadRegistry
  <2>3. \A q \in Procs : OpFits(q)'
    BY <1>2, OpKinds DEF Interrupt, OpFits
  <2>4. ASSUME alone', NEW q \in Procs PROVE RegistryInHand(q)' /\ AclInHand(q)'
    BY <1>2, <2>4 DEF Interrupt, RegistryInHand, AclInHand
  <2>5. RegistryAndAclAgree' /\ RunningBrokerEnforcesRegistry'
    BY <1>2, TextsAreNotMarkers DEF Interrupt, RegistryInHand, AclInHand, OpFits, AclOutlivesUse, ReadRegistry,
         RegistryAndAclAgree, RunningBrokerEnforcesRegistry, InStep, Settled
  <2> QED BY <2>1, <2>2, <2>3, <2>4, <2>5
\* The other steps: all the parts of the invariant at once.
<1> USE DEF OpFits, RegistryInHand, AclInHand, SavedIsRead, AclOutlivesUse, ReadRegistry,
            RegistryAndAclAgree, RunningBrokerEnforcesRegistry, InStep, Settled
<1>3. ASSUME NEW p \in Procs, NEW o \in Op, Start(p, o) PROVE IInv'
  BY <1>3 DEF Start
<1>4. ASSUME NEW p \in Procs, LoadFails(p) PROVE IInv'
  BY <1>4 DEF LoadFails
<1>5. ASSUME NEW p \in Procs, RemoveUnknown(p) PROVE IInv'
  BY <1>5 DEF RemoveUnknown
<1>6. ASSUME NEW p \in Procs, Load(p) PROVE IInv'
  BY <1>6 DEF Load
<1>7. ASSUME NEW p \in Procs, TruncateRegistry(p) PROVE IInv'
  BY <1>7, TextsAreNotMarkers DEF TruncateRegistry
<1>8. ASSUME NEW p \in Procs, WriteRegistry(p) PROVE IInv'
  BY <1>8, TextsAreNotMarkers DEF WriteRegistry, Overwrite
<1>9. ASSUME NEW p \in Procs, NoAclYet(p) PROVE IInv'
  BY <1>9 DEF NoAclYet
<1>10. ASSUME NEW p \in Procs, AclExists(p) PROVE IInv'
  BY <1>10 DEF AclExists
<1>11. ASSUME NEW p \in Procs, TruncateAcl(p) PROVE IInv'
  BY <1>11, TextsAreNotMarkers DEF TruncateAcl
<1>12. ASSUME NEW p \in Procs, ReloadBroker(p) PROVE IInv'
  BY <1>12 DEF ReloadBroker
<1>13. ASSUME NEW p \in Procs, LaunchBroker(p) PROVE IInv'
  BY <1>13 DEF LaunchBroker
<1>14. ASSUME NEW p \in Procs, PortsTaken(p) PROVE IInv'
  BY <1>14 DEF PortsTaken
<1>15. ASSUME NEW p \in Procs, NoRun(p) PROVE IInv'
  BY <1>15 DEF NoRun
<1>16. CASE ActOnHup
  BY <1>16 DEF ActOnHup
<1>17. CASE BrokerStops
  BY <1>17 DEF BrokerStops
<1>18. CASE UNCHANGED vars
  BY <1>18 DEF vars
<1> QED
  BY <1>1, <1>2, <1>3, <1>4, <1>5, <1>6, <1>7, <1>8, <1>9, <1>10, <1>11, <1>12,
     <1>13, <1>14, <1>15, <1>16, <1>17, <1>18 DEF Next, Step

\* The inductive invariant holds: it does at the start and every step keeps it.
LEMMA IInvInvariant == Spec => []IInv
<1>1. Init => IInv
  BY TextsAreNotMarkers DEF Init, IInv, Busy, SavedIsRead, AclOutlivesUse, ReadRegistry, OpFits, RegistryInHand,
         AclInHand, RegistryAndAclAgree, RunningBrokerEnforcesRegistry, InStep, Broken
<1> QED BY <1>1, TypeCorrect, IInvHolds, PTL DEF Spec

\* Whatever overlapped or crashed before, an undisturbed command leaves an ACL
\* that is the registry's (clients.py _apply, broker.py prepare).
THEOREM AgreementInvariant == Spec => []RegistryAndAclAgree
<1>1. IInv => RegistryAndAclAgree
  BY DEF IInv
<1> QED BY <1>1, IInvInvariant, PTL

\* ... and the broker it signals enforces that ACL (clients.py reload_broker).
THEOREM EnforcementInvariant == Spec => []RunningBrokerEnforcesRegistry
<1>1. IInv => RunningBrokerEnforcesRegistry
  BY DEF IInv
<1> QED BY <1>1, IInvInvariant, PTL

\* ... which lets each client write exactly what the documentation grants its entry in
\* the registry that was saved (clients.py acl_sections, auth.py ensure_acl).
THEOREM DocumentedEnforcement == Spec => []RunningBrokerGrantsWhatIsDocumented
<1>1. IInv /\ TypeOK => RunningBrokerGrantsWhatIsDocumented
  <2> SUFFICES ASSUME IInv, TypeOK, clean, Settled, brokerUp, pidFile = "live", ~hup, enforced # Absent
               PROVE  /\ enforced \notin Broken
                      /\ \A cn \in Clients, topic \in Topics :
                           Allows(FiltersFor(enforced, cn), "write", cn, topic)
                             <=> Documented(saved, cn, topic)
    BY DEF RunningBrokerGrantsWhatIsDocumented
  <2>1. enforced = RenderAcl(saved) /\ saved \in Registry
    BY DEF IInv, TypeOK, RunningBrokerEnforcesRegistry, InStep, SavedIsRead
  <2> QED BY <2>1, TextsAreNotMarkers, AclIsDocumented
<1> QED BY <1>1, IInvInvariant, TypeCorrect, PTL

\* A command that overlaps no other is about to save a registry in which only
\* its own client differs from the last one saved (clients.py main).
THEOREM SoloSaveInvariant == Spec => []SoloSaveTouchesOnlyItsClient
<1>1. IInv /\ TypeOK => SoloSaveTouchesOnlyItsClient
  BY DEF IInv, TypeOK, SoloSaveTouchesOnlyItsClient, RegistryInHand, Changed, Registry
<1> QED BY <1>1, IInvInvariant, TypeCorrect, PTL

\* No command repairs a registry that does not parse (clients.py load_registry).
THEOREM BrokenIsFinal == Spec => BrokenRegistryIsFinal
<1>1. TypeOK /\ [Next]_vars => (Wedged => Wedged')
  <2> SUFFICES ASSUME TypeOK, [Next]_vars, Wedged PROVE Wedged'
    OBVIOUS
  <2> USE DEF Wedged, TypeOK, Goto, Exit, fileVars
  <2>1. ASSUME NEW p \in Procs, NEW o \in Op, Start(p, o) PROVE Wedged'
    BY <2>1 DEF Start
  <2>2. ASSUME NEW p \in Procs, Step(p) PROVE Wedged'
    BY <2>2 DEF Step, LoadFails, RemoveUnknown, Load, TruncateRegistry, WriteRegistry, NoAclYet,
                AclExists, TruncateAcl, WriteAcl, ReloadBroker, LaunchBroker, PortsTaken, NoRun
  <2>3. ASSUME NEW p \in Procs, Interrupt(p) PROVE Wedged'
    BY <2>3 DEF Interrupt
  <2>4. CASE ActOnHup
    BY <2>4 DEF ActOnHup, procVars
  <2>5. CASE BrokerStops
    BY <2>5 DEF BrokerStops, procVars
  <2>6. CASE UNCHANGED vars
    BY <2>6 DEF vars, procVars
  <2> QED BY <2>1, <2>2, <2>3, <2>4, <2>5, <2>6 DEF Next
<1> QED BY <1>1, TypeCorrect, PTL DEF Spec, BrokenRegistryIsFinal

-----------------------------------------------------------------------------
(* The refinement of Enrolment.                                            *)

\* A broker that is down enforces nothing.
EnforcesOnlyUp == ~brokerUp => enforced = Absent

LEMMA EnforcesOnlyUpInvariant == Spec => []EnforcesOnlyUp
<1>1. Init => EnforcesOnlyUp
  BY DEF Init, EnforcesOnlyUp
<1>2. EnforcesOnlyUp /\ [Next]_vars => EnforcesOnlyUp'
  BY DEF EnforcesOnlyUp, Next, Step, Start, Interrupt, LoadFails, RemoveUnknown, Load, TruncateRegistry,
         WriteRegistry, NoAclYet, AclExists, TruncateAcl, WriteAcl, ReloadBroker, LaunchBroker, PortsTaken,
         NoRun, ActOnHup, BrokerStops, vars, brokerVars
<1> QED BY <1>1, <1>2, PTL DEF Spec

\* A lost registry is no registry.
LEMMA RecordTyped ==
  ASSUME TypeOK
  PROVE  /\ OnRecord \in Registry \cup {Truncated}
         /\ OnRecord = Truncated <=> Wedged
BY TextsAreNotMarkers DEF TypeOK, OnRecord

\* What a reader makes of a marker and of an ACL.
LEMMA ReadersView ==
  /\ AsRead(Absent) = Absent
  /\ AsRead(Truncated) = Truncated
  /\ \A content : AsRead(content) = Absent => content = Absent
  /\ \A r \in Registry : AsRead(RenderAcl(r)) = RenderAcl(r)
BY TextsAreNotMarkers DEF AsRead

\* A step that neither touches the file nor begins or ends a save changes nothing on record.
LEMMA RecordStays ==
  ASSUME TypeOK, NEW p \in Procs, NEW step \in Steps, Goto(p, step),
         registryFile' = registryFile, saved' = saved,
         registryFile \notin Broken \/ {pc[p], step} \cap {"truncate", "write"} = {}
  PROVE  OnRecord' = OnRecord
<1>1. Wedged' <=> Wedged
  BY DEF Wedged, TypeOK, Goto
<1> QED BY <1>1 DEF OnRecord

\* A lone command that has saved, or a lone bring-up, holds what is on record.
LEMMA HoldsRecord ==
  ASSUME TypeOK, IInv, alone, NEW p \in Procs,
         \/ pc[p] \in {"acl_exists", "acl_truncate", "acl_write", "reload"}
         \/ pc[p] = "launch" /\ op[p].kind = "up"
  PROVE  mine[p] = OnRecord /\ ~Wedged
BY DEF IInv, RegistryInHand, SavedIsRead, OnRecord, Wedged

\* A save: the entry of one client is changed; by a command that overlaps others, any.
LEMMA SaveImplements ==
  ASSUME TypeOK, IInv, NEW p \in Procs, WriteRegistry(p)
  PROVE  Enr!Next
<1> USE DEF TypeOK
<1>1. UNCHANGED <<AsRead(aclFile), brokerUp, AsRead(enforced), alone>>
  BY DEF WriteRegistry, brokerVars, AsRead
<1>2. mine[p] \in Registry /\ saved \in Registry /\ ~Wedged
  BY DEF WriteRegistry, Wedged
<1>3. CASE alone
  <2>1. registryFile = Truncated /\ mine[p] = Changed(op[p], saved) /\ IsChange(op[p])
    BY <1>3 DEF IInv, RegistryInHand, OpFits, WriteRegistry
  <2>2. registryFile' = mine[p] /\ saved' = mine[p]
    BY <2>1 DEF WriteRegistry, Overwrite
  <2>3. OnRecord = saved /\ OnRecord' = mine[p] /\ OnRecord # Truncated
    BY <1>2, <2>2, TextsAreNotMarkers DEF OnRecord, Wedged
  <2>4. op[p].cn \in Clients
    BY <2>1 DEF IsChange, Op, SetOp, RemoveOp, BringUp, OpenBringUp
  <2>5. \A other \in Clients \ {op[p].cn} : mine[p][other] = saved[other]
    BY <1>2, <2>1 DEF Changed, Registry
  <2>6. Enr!Change(op[p].cn)
    BY <1>1, <1>2, <1>3, <2>3, <2>5 DEF Enr!Change, Enr!Table, Registry
  <2> QED BY <2>4, <2>6 DEF Enr!Next
<1>4. CASE ~alone
  <2>1. saved' \in Registry
    BY <1>2 DEF WriteRegistry
  <2>2. OnRecord' = Truncated \/ (OnRecord # Truncated /\ OnRecord' \in Registry)
    BY <1>2, <2>1, TextsAreNotMarkers DEF OnRecord
  <2>3. Enr!Muddle
    BY <1>1, <1>4, <2>2 DEF Enr!Muddle, Enr!Table, Registry
  <2> QED BY <2>3 DEF Enr!Next
<1> QED BY <1>3, <1>4

\* The two steps of rewriting the ACL: it is torn, and made of what is on record.
LEMMA TearImplements ==
  ASSUME TypeOK, IInv, NEW p \in Procs, TruncateAcl(p)
  PROVE  Enr!Next
<1>1. UNCHANGED <<brokerUp, AsRead(enforced), alone>> /\ AsRead(aclFile)' = Truncated
  BY ReadersView DEF TruncateAcl, brokerVars, AsRead
<1>2. OnRecord' = OnRecord
  BY RecordStays DEF TruncateAcl, Steps
<1>3. CASE Wedged
  <2>1. ~alone /\ OnRecord = Truncated
    BY <1>3, HoldsRecord, RecordTyped DEF TruncateAcl
  <2>2. Enr!Muddle
    BY <1>1, <1>2, <2>1, TextsAreNotMarkers DEF Enr!Muddle
  <2> QED BY <2>2 DEF Enr!Next
<1>4. CASE ~Wedged
  <2>1. Enr!Tear
    BY <1>1, <1>2, <1>4, RecordTyped DEF Enr!Tear
  <2> QED BY <2>1 DEF Enr!Next
<1> QED BY <1>3, <1>4

LEMMA RemakeImplements ==
  ASSUME TypeOK, IInv, NEW p \in Procs, WriteAcl(p)
  PROVE  Enr!Next
<1>1. UNCHANGED <<brokerUp, AsRead(enforced), alone>>
  BY DEF WriteAcl, brokerVars, AsRead
<1>2. OnRecord' = OnRecord
  <2>1. (IF IsChange(op[p]) THEN "reload" ELSE "launch") \in Steps \ {"truncate", "write"}
    BY DEF Steps
  <2> QED BY <2>1, RecordStays DEF WriteAcl
<1>3. mine[p] \in Registry
  BY DEF TypeOK
<1>4. CASE alone
  <2>1. aclFile = Truncated
    BY <1>4 DEF IInv, AclInHand, WriteAcl
  <2>2. aclFile' = RenderAcl(mine[p])
    BY <2>1 DEF WriteAcl, Overwrite
  <2>3. mine[p] = OnRecord /\ OnRecord # Truncated
    BY <1>4, HoldsRecord, RecordTyped DEF WriteAcl
  <2>4. AsRead(aclFile) = Truncated /\ AsRead(aclFile)' = RenderAcl(OnRecord)
    BY <1>3, <2>1, <2>2, <2>3, ReadersView DEF AsRead
  <2>5. Enr!Remake
    BY <1>1, <1>2, <1>4, <2>3, <2>4 DEF Enr!Remake
  <2> QED BY <2>5 DEF Enr!Next
<1>5. CASE ~alone
  <2>1. aclFile' # Absent
    BY <1>3, TextsAreNotMarkers DEF WriteAcl, Overwrite
  <2>2. AsRead(aclFile)' # Absent
    BY <2>1, TextsAreNotMarkers DEF AsRead
  <2>3. OnRecord' = Truncated \/ (OnRecord # Truncated /\ OnRecord' \in Registry)
    BY <1>2, RecordTyped
  <2>4. Enr!Muddle
    BY <1>1, <1>5, <2>2, <2>3 DEF Enr!Muddle, Enr!Table, Registry
  <2> QED BY <2>4 DEF Enr!Next
<1> QED BY <1>4, <1>5

\* A bring-up that starts mosquitto: protected by today's ACL, or open.
LEMMA LaunchImplements ==
  ASSUME TypeOK, IInv, NEW p \in Procs, LaunchBroker(p)
  PROVE  Enr!Next
<1>1. UNCHANGED <<OnRecord, AsRead(aclFile), alone>> /\ ~brokerUp /\ brokerUp'
  BY RecordStays DEF LaunchBroker, Exit, Goto, Steps, fileVars, AsRead, TypeOK
<1>2. CASE op[p].kind = "up"
  <2>1. AsRead(enforced)' = AsRead(aclFile)
    BY <1>2 DEF LaunchBroker, AsRead
  <2>2. ASSUME alone PROVE OnRecord # Truncated /\ AsRead(aclFile) = RenderAcl(OnRecord)
    <3>1. mine[p] \in Registry /\ mine[p] = OnRecord /\ aclFile = RenderAcl(mine[p])
      BY <1>2, <2>2, HoldsRecord DEF LaunchBroker, IInv, AclInHand, TypeOK
    <3> QED BY <3>1, ReadersView, TextsAreNotMarkers
  <2>3. Enr!Protect
    BY <1>1, <2>1, <2>2 DEF Enr!Protect
  <2> QED BY <2>3 DEF Enr!Next
<1>3. CASE op[p].kind # "up"
  <2>1. AsRead(enforced)' = Absent
    BY <1>3, ReadersView DEF LaunchBroker, AsRead
  <2>2. Enr!Open
    BY <1>1, <2>1 DEF Enr!Open
  <2> QED BY <2>2 DEF Enr!Next
<1> QED BY <1>2, <1>3

\* A command that ends midway: what it was saving may be lost.
LEMMA InterruptImplements ==
  ASSUME TypeOK, NEW p \in Procs, Interrupt(p)
  PROVE  Enr!Next \/ UNCHANGED Enr!vars
<1>1. UNCHANGED <<AsRead(aclFile), brokerUp, AsRead(enforced), alone>>
  BY DEF Interrupt, Exit, fileVars, brokerVars, AsRead
<1>2. UNCHANGED <<registryFile, saved>>
  BY DEF Interrupt, fileVars
<1>3. CASE Wedged' /\ ~Wedged
  <2>1. OnRecord # Truncated /\ OnRecord' = Truncated
    BY <1>3, RecordTyped DEF OnRecord
  <2>2. Enr!Lose
    BY <1>1, <2>1 DEF Enr!Lose
  <2> QED BY <2>2 DEF Enr!Next
<1>4. CASE ~(Wedged' /\ ~Wedged)
  <2>1. Wedged' <=> Wedged
    BY <1>2, <1>4 DEF Interrupt, Exit, Goto, Wedged, TypeOK
  <2>2. OnRecord' = OnRecord
    BY <1>2, <2>1 DEF OnRecord
  <2> QED BY <1>1, <2>2 DEF Enr!vars
<1> QED BY <1>3, <1>4

\* The steps that only read, or that end without having written, change nothing on
\* record; nor does opening the file, which is not a save yet.
LEMMA StutterImplements ==
  ASSUME TypeOK, NEW p \in Procs,
         \/ LoadFails(p) \/ RemoveUnknown(p) \/ Load(p) \/ TruncateRegistry(p)
         \/ NoAclYet(p) \/ AclExists(p) \/ ReloadBroker(p) \/ PortsTaken(p) \/ NoRun(p)
  PROVE  UNCHANGED Enr!vars
<1>1. UNCHANGED <<AsRead(aclFile), brokerUp, AsRead(enforced), alone>>
  BY DEF LoadFails, RemoveUnknown, Load, TruncateRegistry, NoAclYet, AclExists, ReloadBroker,
         PortsTaken, NoRun, Exit, fileVars, brokerVars, AsRead
<1>2. OnRecord' = OnRecord
  <2>1. CASE TruncateRegistry(p)
    BY <2>1 DEF TruncateRegistry, OnRecord, Wedged, Goto, TypeOK
  <2>2. CASE Load(p)
    BY <2>2, RecordStays DEF Load, Steps, fileVars
  <2>3. CASE AclExists(p)
    BY <2>3, RecordStays DEF AclExists, Steps, fileVars
  <2>4. CASE LoadFails(p) \/ RemoveUnknown(p) \/ NoAclYet(p) \/ ReloadBroker(p) \/ PortsTaken(p) \/ NoRun(p)
    BY <2>4, RecordStays DEF LoadFails, RemoveUnknown, NoAclYet, ReloadBroker, PortsTaken, NoRun,
                             Exit, Steps, fileVars
  <2> QED BY <2>1, <2>2, <2>3, <2>4
<1> QED BY <1>1, <1>2 DEF Enr!vars

\* A command begins, which tells overlapping ones from lone ones.
LEMMA StartImplements ==
  ASSUME TypeOK, NEW p \in Procs, NEW o \in Op, Start(p, o)
  PROVE  Enr!Next
<1>1. UNCHANGED <<AsRead(aclFile), brokerUp, AsRead(enforced)>> /\ alone' \in BOOLEAN
  BY DEF Start, fileVars, brokerVars, AsRead
<1>2. OnRecord' = OnRecord
  BY RecordStays DEF Start, Steps, fileVars
<1>3. Enr!Begin
  BY <1>1, <1>2 DEF Enr!Begin
<1> QED BY <1>3 DEF Enr!Next

\* Mosquitto takes up the ACL file if it was started with one, or stops.
LEMMA BrokerImplements ==
  ASSUME EnforcesOnlyUp, ActOnHup \/ BrokerStops
  PROVE  Enr!Next \/ UNCHANGED Enr!vars
<1>1. UNCHANGED <<OnRecord, AsRead(aclFile), alone>>
  BY DEF ActOnHup, BrokerStops, OnRecord, Wedged, AsRead, fileVars, procVars
<1>2. CASE ActOnHup /\ enforced = Absent
  BY <1>1, <1>2 DEF ActOnHup, AsRead, Enr!vars
<1>3. CASE ActOnHup /\ enforced # Absent
  <2>1. brokerUp /\ AsRead(enforced) # Absent /\ AsRead(enforced)' = AsRead(aclFile)
    BY <1>3, ReadersView DEF ActOnHup, EnforcesOnlyUp, AsRead
  <2>2. Enr!Reload
    BY <1>1, <1>3, <2>1 DEF Enr!Reload, ActOnHup
  <2> QED BY <2>2 DEF Enr!Next
<1>4. CASE BrokerStops
  <2>1. AsRead(enforced)' = Absent
    BY <1>4, ReadersView DEF BrokerStops, AsRead
  <2>2. Enr!Stop
    BY <1>1, <1>4, <2>1 DEF Enr!Stop, BrokerStops
  <2> QED BY <2>2 DEF Enr!Next
<1> QED BY <1>2, <1>3, <1>4

\* The registry's commands, the bring-ups and mosquitto implement Enrolment: each
\* of their steps is one of its steps or none (clients.py main, broker.py prepare).
THEOREM RegistryImplementsEnrolment == Spec => ImplementsEnrolment
<1>1. Init => Enr!Init
  BY ReadersView, TextsAreNotMarkers DEF Init, Enr!Init, OnRecord, Wedged, EmptyRegistry
<1>2. TypeOK /\ IInv /\ EnforcesOnlyUp /\ [Next]_vars => [Enr!Next]_(Enr!vars)
  <2>1. ASSUME UNCHANGED vars PROVE UNCHANGED Enr!vars
    BY <2>1 DEF vars, fileVars, brokerVars, procVars, Enr!vars, OnRecord, Wedged, AsRead
  <2> QED
    BY <2>1, SaveImplements, TearImplements, RemakeImplements, LaunchImplements, InterruptImplements,
       StutterImplements, StartImplements, BrokerImplements DEF Next, Step
<1> QED
  BY <1>1, <1>2, TypeCorrect, IInvInvariant, EnforcesOnlyUpInvariant, PTL
  DEF Spec, ImplementsEnrolment, Enr!Spec
=============================================================================
