--------------------------- MODULE ClientRegistry ---------------------------
(***************************************************************************)
(* The client registry and the ACL generated from it (laptop/clients.py,   *)
(* laptop/auth.py, the ACL half of laptop/broker.py's prepare), shared as  *)
(* files by the processes that run `laptop.clients set / remove` and the   *)
(* bring-ups of the broker, none of which takes a lock.  A process is one  *)
(* invocation; its pc says which file operation it performs next.          *)
(*                                                                         *)
(* Path.write_text truncates the file when it opens it and writes the      *)
(* (buffered) text when it closes it, so a write is two steps here.        *)
(* Mosquitto is external: it loads the ACL when it starts and again when   *)
(* it gets round to a SIGHUP.                                              *)
(***************************************************************************)
EXTENDS Grants

CONSTANTS Procs,      \* the invocations that may be in flight at once
          Absent,     \* a file that does not exist; for `enforced`, no ACL
          Truncated,  \* a file opened for writing and still empty
          Garbled     \* two overlapping writes of different lengths, mixed

VARIABLES
  registryFile,  \* clients.json
  aclFile,       \* the acl file
  pidFile,       \* mosquitto.pid names: nobody | the running broker | a dead pid
  brokerUp,      \* a mosquitto process owns the listener ports
  enforced,      \* the ACL it has loaded; Absent: it runs without one (open)
  hup,           \* it has a SIGHUP it has not acted on yet
  pc,            \* the next step of each process
  op,            \* what each process was invoked for
  mine,          \* the registry each process holds in memory
  \* History, read by no guard.
  saved,         \* the last complete registry in clients.json
  alone,         \* no two of the invocations in flight have overlapped
  clean          \* an undisturbed change or bring-up has completed since the
                 \* last overlap or interruption

fileVars == <<registryFile, aclFile>>
brokerVars == <<pidFile, brokerUp, enforced, hup>>
procVars == <<pc, op, mine>>
vars == <<fileVars, brokerVars, procVars, saved, alone, clean>>

Broken == {Truncated, Garbled}
Acl == {RenderAcl(r) : r \in Registry}

ASSUME SentinelAssumption ==
  /\ Absent \notin Broken \cup Registry \cup Acl
  /\ Broken \cap (Registry \cup Acl) = {}

SetOp == [kind : {"set"}, cn : Clients, entry : Entry]
RemoveOp == [kind : {"remove"}, cn : Clients, entry : {NoEntry}]
BringUp == [kind : {"up"}]         \* discovery or strict: there is an ACL listener
OpenBringUp == [kind : {"open"}]   \* open: prepare touches neither file
Op == SetOp \cup RemoveOp \cup BringUp \cup OpenBringUp
IsChange(o) == o.kind \in {"set", "remove"}

Steps == {"idle", "load", "truncate", "write", "acl_exists",
          "acl_truncate", "acl_write", "reload", "launch"}

Busy == {p \in Procs : pc[p] # "idle"}

TypeOK ==
  /\ registryFile \in Registry \cup Broken \cup {Absent}
  /\ aclFile \in Acl \cup Broken \cup {Absent}
  /\ pidFile \in {"none", "live", "stale"}
  /\ brokerUp \in BOOLEAN
  /\ enforced \in Acl \cup Broken \cup {Absent}
  /\ hup \in BOOLEAN
  /\ pc \in [Procs -> Steps]
  /\ op \in [Procs -> Op]
  /\ mine \in [Procs -> Registry]
  /\ saved \in Registry
  /\ alone \in BOOLEAN
  /\ clean \in BOOLEAN

Init ==
  /\ registryFile = Absent
  /\ aclFile = Absent
  /\ pidFile = "none"
  /\ brokerUp = FALSE
  /\ enforced = Absent
  /\ hup = FALSE
  /\ pc = [p \in Procs |-> "idle"]
  /\ op = [p \in Procs |-> [kind |-> "open"]]
  /\ mine = [p \in Procs |-> EmptyRegistry]
  /\ saved = EmptyRegistry
  /\ alone = TRUE
  /\ clean = TRUE

-----------------------------------------------------------------------------
(* Reading and writing the two files.                                      *)

Goto(p, step) == pc' = [pc EXCEPT ![p] = step]

\* An invocation's end; what it had in memory is gone.
Exit(p) ==
  /\ Goto(p, "idle")
  /\ op' = [op EXCEPT ![p] = [kind |-> "open"]]
  /\ mine' = [mine EXCEPT ![p] = EmptyRegistry]
  /\ UNCHANGED alone

\* What load_registry returns when it returns: a missing file is an empty dict.
ReadRegistry == IF registryFile = Absent THEN EmptyRegistry ELSE registryFile

\* A complete text written at offset 0 of a file holding `content`. A writer
\* that truncated first finds it empty, unless another write came in between:
\* then the longer text's tail survives and the mix does not parse.
Overwrite(content, text) ==
  IF content \in {Truncated, text} THEN {text} ELSE {text, Garbled}

\* Mutant: the change starts from an empty registry, not from the one loaded.
ForgetsOtherClients(o, registry) == [EmptyRegistry EXCEPT ![o.cn] = o.entry]

\* The entry the change leaves for its own client; every other entry as loaded.
Changed(o, registry) == [registry EXCEPT ![o.cn] = o.entry]

-----------------------------------------------------------------------------
(* An invocation.                                                          *)

Start(p, o) ==
  /\ pc[p] = "idle"
  /\ Goto(p, IF o.kind = "open" THEN "launch" ELSE "load")
  /\ op' = [op EXCEPT ![p] = o]
  /\ alone' = (Busy = {})
  /\ clean' = (clean /\ Busy = {})
  /\ UNCHANGED <<fileVars, brokerVars, mine, saved>>

\* json.loads raises ValueError: exit 2, or the bring-up dies of it.
LoadFails(p) ==
  /\ pc[p] = "load"
  /\ registryFile \in Broken
  /\ Exit(p)
  /\ UNCHANGED <<fileVars, brokerVars, saved, clean>>

\* "is not in the registry": exit 1 before anything is written.
RemoveUnknown(p) ==
  /\ pc[p] = "load"
  /\ registryFile \notin Broken
  /\ op[p].kind = "remove"
  /\ ReadRegistry[op[p].cn] = NoEntry
  /\ Exit(p)
  /\ UNCHANGED <<fileVars, brokerVars, saved, clean>>

\* Mutant: the bring-up calls ensure_acl without the registry.
BringUpWithoutRegistry(p) ==
  /\ pc[p] = "load"
  /\ registryFile \notin Broken
  /\ op[p].kind = "remove" => ReadRegistry[op[p].cn] # NoEntry
  /\ mine' = [mine EXCEPT ![p] = IF IsChange(op[p]) THEN Changed(op[p], ReadRegistry)
                                                    ELSE EmptyRegistry]
  /\ Goto(p, IF IsChange(op[p]) THEN "truncate" ELSE "acl_truncate")
  /\ UNCHANGED <<fileVars, brokerVars, op, saved, alone, clean>>

\* Mutant: the bring-up gets no dict when there is no file.
LoadsMissingFileAsNothing(p) ==
  /\ pc[p] = "load"
  /\ registryFile \notin Broken
  /\ op[p].kind = "remove" => ReadRegistry[op[p].cn] # NoEntry
  /\ mine' = [mine EXCEPT ![p] = IF IsChange(op[p]) THEN Changed(op[p], ReadRegistry)
                                                    ELSE registryFile]
  /\ Goto(p, IF IsChange(op[p]) THEN "truncate" ELSE "acl_truncate")
  /\ UNCHANGED <<fileVars, brokerVars, op, saved, alone, clean>>

\* Mutant: a registry that does not parse is taken for an empty one by `set`.
LoadsBrokenAsEmpty(p) ==
  /\ pc[p] = "load"
  /\ op[p].kind = "set"
  /\ mine' = [mine EXCEPT ![p] =
       Changed(op[p], IF registryFile \in Broken THEN EmptyRegistry ELSE ReadRegistry)]
  /\ Goto(p, "truncate")
  /\ UNCHANGED <<fileVars, brokerVars, op, saved, alone, clean>>

\* A bring-up loads the registry only to render the ACL from it.
Load(p) ==
  /\ pc[p] = "load"
  /\ registryFile \notin Broken
  /\ op[p].kind = "remove" => ReadRegistry[op[p].cn] # NoEntry
  /\ mine' = [mine EXCEPT ![p] = IF IsChange(op[p]) THEN Changed(op[p], ReadRegistry)
                                                    ELSE ReadRegistry]
  /\ Goto(p, IF IsChange(op[p]) THEN "truncate" ELSE "acl_truncate")
  /\ UNCHANGED <<fileVars, brokerVars, op, saved, alone, clean>>

TruncateRegistry(p) ==
  /\ pc[p] = "truncate"
  /\ registryFile' = Truncated
  /\ Goto(p, "write")
  /\ UNCHANGED <<aclFile, brokerVars, op, mine, saved, alone, clean>>

WriteRegistry(p) ==
  /\ pc[p] = "write"
  /\ registryFile' \in Overwrite(registryFile, mine[p])
  /\ saved' = IF registryFile' = mine[p] THEN mine[p] ELSE saved
  /\ Goto(p, "acl_exists")
  /\ UNCHANGED <<aclFile, brokerVars, op, mine, alone, clean>>

\* Without an ACL file no broker has been brought up: the next one renders it.
NoAclYet(p) ==
  /\ pc[p] = "acl_exists"
  /\ aclFile = Absent
  /\ Exit(p)
  /\ clean' = (clean \/ alone)
  /\ UNCHANGED <<fileVars, brokerVars, saved>>

\* Mutant: the broker is signalled without the ACL having been rewritten.
SignalsWithoutRewrite(p) ==
  /\ pc[p] = "acl_exists"
  /\ aclFile # Absent
  /\ Goto(p, "reload")
  /\ UNCHANGED <<fileVars, brokerVars, op, mine, saved, alone, clean>>

AclExists(p) ==
  /\ pc[p] = "acl_exists"
  /\ aclFile # Absent
  /\ Goto(p, "acl_truncate")
  /\ UNCHANGED <<fileVars, brokerVars, op, mine, saved, alone, clean>>

TruncateAcl(p) ==
  /\ pc[p] = "acl_truncate"
  /\ aclFile' = Truncated
  /\ Goto(p, "acl_write")
  /\ UNCHANGED <<registryFile, brokerVars, op, mine, saved, alone, clean>>

WriteAcl(p) ==
  /\ pc[p] = "acl_write"
  /\ aclFile' \in Overwrite(aclFile, RenderAcl(mine[p]))
  /\ Goto(p, IF IsChange(op[p]) THEN "reload" ELSE "launch")
  /\ UNCHANGED <<registryFile, brokerVars, op, mine, saved, alone, clean>>

\* Mutant: the change ends without signalling the broker.
EndsUnsignalled(p) ==
  /\ pc[p] = "reload"
  /\ Exit(p)
  /\ clean' = (clean \/ alone)
  /\ UNCHANGED <<fileVars, brokerVars, saved>>

\* os.kill reaches the broker only through the pid file; any failure is read
\* as "broker not running". Pids are taken not to be reused.
ReloadBroker(p) ==
  /\ pc[p] = "reload"
  /\ hup' = (hup \/ pidFile = "live")
  /\ Exit(p)
  /\ clean' = (clean \/ alone)
  /\ UNCHANGED <<fileVars, pidFile, brokerUp, enforced, saved>>

\* The process is killed, or the next file operation raises. Before its first
\* write it leaves nothing behind.
Interrupt(p) ==
  /\ pc[p] # "idle"
  /\ Exit(p)
  /\ clean' = (clean /\ pc[p] \in {"load", "truncate"})
  /\ UNCHANGED <<fileVars, brokerVars, saved>>

-----------------------------------------------------------------------------
(* A bring-up's last step: mosquitto starts, or does not.                  *)

\* Mutant: the open broker's configuration names the ACL file too.
OpenLaunchTakesAcl(p) ==
  /\ pc[p] = "launch"
  /\ ~brokerUp
  /\ brokerUp' = TRUE
  /\ pidFile' = "live"
  /\ enforced' = aclFile
  /\ hup' = FALSE
  /\ Exit(p)
  /\ clean' = (clean \/ (alone /\ op[p].kind = "up"))
  /\ UNCHANGED <<fileVars, saved>>

LaunchBroker(p) ==
  /\ pc[p] = "launch"
  /\ ~brokerUp
  /\ brokerUp' = TRUE
  /\ pidFile' = "live"
  /\ enforced' = IF op[p].kind = "up" THEN aclFile ELSE Absent
  /\ hup' = FALSE
  /\ Exit(p)
  /\ clean' = (clean \/ (alone /\ op[p].kind = "up"))
  /\ UNCHANGED <<fileVars, saved>>

\* The ports are taken: the second mosquitto dies of it, and may have left its
\* own pid in the pid file. The running broker is not told that its ACL file
\* was rewritten.
PortsTaken(p) ==
  /\ pc[p] = "launch"
  /\ brokerUp
  /\ pidFile' \in {pidFile, "stale"}
  /\ Exit(p)
  /\ clean' = (clean /\ op[p].kind = "open")
  /\ UNCHANGED <<fileVars, brokerUp, enforced, hup, saved>>

\* `--no-run`, or no mosquitto binary: prepared only.
NoRun(p) ==
  /\ pc[p] = "launch"
  /\ Exit(p)
  /\ clean' = (clean /\ (op[p].kind = "open" \/ ~brokerUp))
  /\ UNCHANGED <<fileVars, brokerVars, saved>>

-----------------------------------------------------------------------------
(* Mosquitto.                                                              *)

ActOnHup ==
  /\ hup
  /\ hup' = FALSE
  /\ enforced' = IF enforced = Absent THEN Absent ELSE aclFile
  /\ UNCHANGED <<fileVars, pidFile, brokerUp, procVars, saved, alone, clean>>

\* A clean exit removes the pid file, a kill leaves it behind.
BrokerStops ==
  /\ brokerUp
  /\ brokerUp' = FALSE
  /\ pidFile' \in {"none", "stale"}
  /\ enforced' = Absent
  /\ hup' = FALSE
  /\ UNCHANGED <<fileVars, procVars, saved, alone, clean>>

-----------------------------------------------------------------------------
Step(p) ==
  \/ LoadFails(p) \/ RemoveUnknown(p) \/ Load(p)
  \/ TruncateRegistry(p) \/ WriteRegistry(p)
  \/ NoAclYet(p) \/ AclExists(p) \/ TruncateAcl(p) \/ WriteAcl(p)
  \/ ReloadBroker(p)
  \/ LaunchBroker(p) \/ PortsTaken(p) \/ NoRun(p)

Next ==
  \/ \E p \in Procs : Step(p) \/ Interrupt(p) \/ \E o \in Op : Start(p, o)
  \/ ActOnHup
  \/ BrokerStops

Spec == Init /\ [][Next]_vars

\* Every command runs to its end and mosquitto acts on its signals; that anyone
\* starts a command, kills one or stops the broker is never assumed.
FairSpec ==
  /\ Spec
  /\ \A p \in Procs : WF_vars(Step(p))
  /\ WF_vars(ActOnHup)

-----------------------------------------------------------------------------
(* Properties.                                                             *)

\* No invocation that writes stands between its first write and its end.
Settled ==
  \A p \in Procs : pc[p] \in {"idle", "load", "truncate"} \/ op[p].kind = "open"

\* The registry parses, and `acl` is what it renders to, or there is no ACL.
InStep(acl) ==
  /\ registryFile \notin Broken
  /\ acl \in {Absent, RenderAcl(ReadRegistry)}

\* Once an undisturbed command has completed, whatever the overlaps and crashes
\* before it left behind, the registry parses and the ACL file, where there is
\* one, is the one it renders to, as long as no command is midway
\* (clients.py _apply, broker.py prepare).
RegistryAndAclAgree == clean /\ Settled => InStep(aclFile)

\* In those states a broker that is reachable through its pid file and has no
\* reload pending enforces exactly the registry's grants, unless it was brought
\* up without an ACL (clients.py reload_broker).
RunningBrokerEnforcesRegistry ==
  clean /\ Settled /\ brokerUp /\ pidFile = "live" /\ ~hup =>
    InStep(enforced)

\* ... and, brought up with one, it lets each client write what the documentation
\* grants its entry in the last registry saved: no less and no more, whichever
\* command changed it last, and in whatever order they came (clients.py
\* acl_sections, auth.py ensure_acl).
RunningBrokerGrantsWhatIsDocumented ==
  clean /\ Settled /\ brokerUp /\ pidFile = "live" /\ ~hup /\ enforced # Absent =>
    /\ enforced \notin Broken
    /\ \A cn \in Clients, topic \in Topics :
         Allows(FiltersFor(enforced, cn), "write", cn, topic) <=> Documented(saved, cn, topic)

\* The registry a command is about to save differs from the last one saved in
\* its own client only, when no other invocation overlaps it (clients.py main's
\* load, change, save).
SoloSaveTouchesOnlyItsClient ==
  \A p \in Procs : alone /\ pc[p] = "write" =>
    \A cn \in Clients \ {op[p].cn} : mine[p][cn] = saved[cn]

\* A registry that does not parse and that no invocation still in flight is
\* about to save is out of reach of every command: none of them repairs it
\* (clients.py load_registry is the first thing each of them does).
Wedged ==
  /\ registryFile \in Broken
  /\ \A p \in Procs : pc[p] \notin {"truncate", "write"}

BrokenRegistryIsFinal == [][Wedged => Wedged']_vars

\* A text that is not whole is only that to a reader.
AsRead(content) == IF content \in Broken THEN Truncated ELSE content

\* What the clients are granted: a change counts from when it is saved, and all
\* is lost when nobody is left to save it.
OnRecord == IF Wedged THEN Truncated ELSE saved

\* What is on disk and in force, without the commands' steps in getting it there.
Enr == INSTANCE Enrolment WITH
  Render <- RenderAcl,
  Torn <- Truncated,
  table <- OnRecord,
  acl <- AsRead(aclFile),
  up <- brokerUp,
  policy <- AsRead(enforced),
  solo <- alone

\* Commands that overlap no other change one client's entry at a time, make the
\* ACL of the registry they have saved, and a broker takes up nothing but that;
\* whatever crashed or overlapped before (clients.py main and _apply, auth.py
\* ensure_acl, broker.py prepare).
ImplementsEnrolment == Enr!Spec

\* When commands stop coming, the broker stays up and reachable, and none of
\* the last commands was disturbed, the last registry comes into force without
\* a restart (clients.py docstring; FairSpec).
ChangesTakeEffect ==
  <>[](clean /\ brokerUp /\ pidFile = "live" /\ \A p \in Procs : pc[p] # "load") =>
    <>[]InStep(enforced)

\* "Add or replace a client's role and children": a save changes no other
\* client's entry. Two overlapping commands break it: neither locks, and the
\* later save drops the earlier one's entry.
SaveTouchesOnlyItsClient ==
  [][\A p \in Procs : pc[p] = "write" /\ pc'[p] = "acl_exists" /\ saved' # saved =>
       \A cn \in Clients \ {op[p].cn} : saved'[cn] = saved[cn]]_vars
=============================================================================
