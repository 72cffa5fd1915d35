# TLA+ models of broker-quickstart

This directory models the laptop deployment of the eBus broker (`src/laptop/`):
the files its commands share, the processes that read and write them, the
bring-up from command line to running broker, the runner that supervises
Mosquitto, what the broker lets its clients do, and the self-tests. TLC checks
the models on small instances; TLAPS proves the main results of every component
for every value of its constants.

Line numbers refer to the sources under `src/`.

## The system

| Part | State | Operations | Modelled in |
|---|---|---|---|
| Client registry (`clients.py`) | `clients.json` | `set`, `remove`, `list`; loaded by every bring-up with an ACL | `Grants`, `ClientRegistry` |
| ACL (`auth.py`) | `acl`, rendered from the registry; `no-users`, empty | rewritten by every change and every bring-up; a running broker is signalled (SIGHUP through `mosquitto.pid`) | `Grants`, `ClientRegistry`, `AccessPolicy` |
| TLS material (`certs.py`) | `ca.key`, `ca.crt`, `server.*`, one pair per client | `ensure_ca`, `ensure_server_cert`, `mint_client_cert`; `--regenerate`, `--regenerate-ca` | `TlsMaterial` |
| Profiles (`profiles.py`) | none | a profile and a debug port to a set of listeners, and to what is advertised | `Listeners` |
| Broker configuration (`broker.py`, `mosquitto.conf.j2`) | `mosquitto.conf` | `prepare`, then exec of Mosquitto; a 2.0 and a 2.1 form | `AccessPolicy` (contents), `BringUp` (writing and loading) |
| Bridges (`bridge.py`, `span.py`) | the cached CA of a panel | check options, build a bridge, download the CA | `BringUp` |
| Runner (`run.py`) | a stop event, a child process, an advertiser | bring up, advertise, watch, tear down | `BringUp` until the launch, `Supervisor` from the spawn on; `Service` is what it promises |
| Advertiser (`advertiser.py`) | mDNS records | publish on entering, withdraw on leaving | `Listeners` (which records), `BringUp`, `Supervisor` (when) |
| Bench script (`scripts/laptop-bench.sh`) | a tmux session | start, stop by hang-up, restart | `HangUp` and the second runner of `Supervisor` |
| Discovery, self-tests (`discover.py`, `verify_*.py`) | none of their own | discover, mint a client pair, publish, read back | `SelfTest`; minting in `TlsMaterial` |
| Mosquitto, paho, mDNS, tmux | external | | as the code uses them |

The parts interact through files in one state directory (no command takes a
lock), the panel's CA in the user's home, one signal (SIGHUP to the broker), one
child process (the runner's broker), one context manager (the advertisement
around the runner's loop) and, in the self-tests, the callbacks of paho's thread.
What is hard here is therefore not inside a function but between processes:
overlapping read-change-write cycles on the same file, commands that end between
two of their writes, a broker that reads a file while it is being rewritten, a
teardown that has to keep its order on every way out, an answer that races a
time-out or a lost connection. `hazards` in `PROJECT.json` lists these, each at
its line.

## Modules

`Grants` is pure: roles, entries, the grants of an entry and the ACL that a
registry renders to. A registry is a total function from client ids to slots;
`NoEntry` stands for a missing key. A client without grants has no section in
the ACL and renders like a missing entry, as in `acl_sections`. It also has what
Mosquitto lets a client do with an ACL (`Allows`) and what
`docs/security-profiles.md` lets it write (`Documented`), over topics that stand
for what the filters and the documents tell apart.

`ClientRegistry` extends it with the two files, the pid file, the broker and a
set `Procs` of invocations. `op` says what an invocation was called for, `pc`
which file operation comes next. `Path.write_text` is two steps, because the
file is truncated when it is opened and written when it is closed; two
overlapping writes of different texts may leave a mix (`Garbled`). Actions and
code:

| Action | Code |
|---|---|
| `Load`, `LoadFails`, `RemoveUnknown` | `main` (158-171), `load_registry`; `prepare` (198) |
| `TruncateRegistry`, `WriteRegistry` | `save_registry` |
| `NoAclYet`, `AclExists` | `_apply` (130) |
| `TruncateAcl`, `WriteAcl` | `ensure_acl` |
| `ReloadBroker` | `reload_broker` |
| `LaunchBroker`, `PortsTaken`, `NoRun` | the end of `broker.main`: exec, a port collision, `--no-run` |
| `Interrupt` | the process is killed, or its next file operation raises |
| `ActOnHup`, `BrokerStops` | Mosquitto |

`Enrolment` is what all this amounts to for who administers the registry: a table
of what each client is granted, an ACL, a broker and what it enforces; no
processes, no steps of a command. `Enr` in `ClientRegistry` is the mapping:

| `Enrolment` | `ClientRegistry` |
|---|---|
| `table` | `OnRecord`: the registry last saved completely; `Torn` once the file does not parse and nobody is about to write it (`Wedged`) |
| `acl`, `policy` | the ACL file and what the broker has loaded; the two kinds of broken text are one (`AsRead`) |
| `up`, `solo` | `brokerUp`, `alone` |
| `Change` | `WriteRegistry`, the step that completes a save |
| `Tear`, `Remake` | `TruncateAcl`, `WriteAcl` |
| `Lose` | `Interrupt` between truncating and writing the registry |
| `Muddle` | the same writes by commands that overlap |
| `Begin`, `Protect`, `Open` | `Start`; `LaunchBroker` with and without an ACL |
| `Reload`, `Stop` | `ActOnHup`, `BrokerStops` |

`ImplementsEnrolment` says that each step of `ClientRegistry` is one of these or
changes nothing there. So a lone command changes one client's grants and no
other's, and makes the ACL of the whole table, whatever earlier commands left; a
lone bring-up starts a broker on an ACL of today's table only; a table that is lost
stays lost; and a broker that was started `open` never comes to enforce an ACL. Of
what overlapping commands write `Enrolment` says only that it is the table and the
ACL, and that a lost table is never brought back.

`TlsMaterial` models the files of `certs.py` and the invocations that share them
in the way of `ClientRegistry`. A certificate is a record of its key,
its signer, its names and whether it is still valid; a key is a model value, and
`|Keys|` bounds how many are in use at once. An invocation is a list of pairs to
ensure: the CA, the server, clients (`ClientLists`: `--client` may be repeated); a
bring-up then starts the broker, which keeps what it has loaded (`held`). `addrs`
are the host's addresses, which change when the laptop moves.

`Listeners` is pure: a profile's listeners (`profiles.py`), which of them are
advertised, and the records of `advertiser_config`. `AccessPolicy` and `BringUp`
extend it, so that what is rendered and what is advertised come from one
definition, as in the code.

`BringUp` follows an invocation of `laptop.broker`, `laptop.run` or
`laptop.advertiser` from its options to its broker and its records, several at a
time over one `mosquitto.conf` and one cached panel CA:

| Action | Code |
|---|---|
| `Start` (with `Refused`, `Complete`, `NoPanel`) | argument checks, `resolve_bridge`, `build_bridge`, `load_panel` |
| `CheckCa`, `Download`, `OpenCa`, `WriteCa` | `ensure_panel_ca`; `urlopen` comes before the file is opened. Whatever body comes with a 200 is an `answer`: the CA that the panel gives out then (`offered`), or `broken`, which stands for anything that is no certificate. Nobody looks at it before the broker does |
| `BridgeMade` | `span_bridge` with `--span-bridge-address`; an error ends in `parser.error` |
| `Find` | the runner looks for mosquitto before it prepares anything (run.py 90-97), `laptop.broker` after (`Prepared`) |
| `OpenConf`, `WriteConf`, `Chmod` | `render_config` (122-125) |
| `Launch`, `Advertise`, `Stop` | `os.execv` or `Popen`, `advertise`, leaving its context |
| `Load`, `EndsStarting` | Mosquitto reads the file that is there then, and the CA it names |
| `Age`, `PanelRenews` | a day or more passes, for the cached CA, for the one that the panel gives out and for the one that is being written; the panel has a new CA |

A bridge is the set of the options it was made of; `blank` are those among them
that were given with nothing in them. `Complete` asks which options are there (`is
not None`), `Section`, what the template's nested conditions let through, and
`HasPassword` which of them are not blank: the code's two tests differ, and so do
these. A CA in the cache, on offer or in an answer is known by its age only.

`Supervisor` is a runner from its start to its end, one step per call that can
block, raise or be interrupted; every print raises when the terminal is gone.
Several runners share the ports. `Service` is the abstract life of an
invocation: phases, a broker, records. `Svc` in `Supervisor` maps a runner's
program counter to a phase and forgets stop events, terminals and exit codes;
`ImplementsService` says that each step of a runner is a step of `Service` or
none. A runner that has finished its teardown is `over`; one that was killed or
raised before its `try` is `abandoned`, and only that may leave a broker behind.

`SelfTest` composes the self-tests with `Service`: every state of a runner's
broker and records, in any order `Service` allows, is the world they run in. A test's
main thread discovers, connects, waits for an event with a time-out, and gives
its verdict on what the callbacks of paho's thread have written (`connected`,
`heard`, `done`). `outbox` and `inbox` are the packets under way; a lost
connection loses them; a reconnect runs `on_connect` again; a second client with
the same id takes the connection over. `retained` is what the broker keeps on a
`$state` topic, across tests and, if it was saved, across restarts; at the start
it may be anything, `ready` too, which is what a live device has there and what an
earlier run leaves. `before` remembers on which topics it was `ready` then.

`AccessPolicy` renders the listeners into a configuration, and applies
Mosquitto's rules for admitting a client and for deciding on a topic to it. The
2.1 form attaches rules to a listener with `plugin_use`; the 2.0 form attaches
them with `per_listener_settings`, and without that setting they hold for every
listener (`RulesInForce`). Commands run one at a time here, and a change is in
force when it ends: `ClientRegistry` says when that is so.

The `MC*` modules give the constants names and sizes. Operators whose comment
begins with "Mutant" are not part of a model: each is a plausible bug in the
definition it stands next to, and shows that the property it is paired with in
`PROJECT.json` can fail.

## Runs

| Run | Instance | Shows |
|---|---|---|
| `registry_overlap` | 2 invocations, 2 clients, 1 role | `RegistryAndAclAgree`, `RunningBrokerEnforcesRegistry`: once an undisturbed command has completed, registry, ACL file and broker agree, whatever was lost, torn or mixed before. `RunningBrokerGrantsWhatIsDocumented`: that broker lets each client write what the documentation grants its entry. `SoloSaveTouchesOnlyItsClient`. `BrokenRegistryIsFinal`: no command repairs a registry that does not parse. `ImplementsEnrolment`: the refinement |
| `registry_liveness` | 1 invocation, 2 clients, 1 child | `ChangesTakeEffect`: when commands stop, the last registry comes into force without a restart |
| `registry_lost_update` | 2 invocations | finding: the later of two overlapping saves drops the earlier one's entry |
| `tls_overlap` | 2 invocations, 4 keys | `MaterialBelongsTogether` after an undisturbed `--regenerate-ca`; `MismatchedCaStays`: a CA key that is not the CA certificate's goes unnoticed until then |
| `tls_rotation` | 1 invocation, 1 client, 1 address, 5 keys | `OnlyRegenerationOrphans`, `OnlyRegenerationOutdatesBroker`: nothing but a `--regenerate-ca` parts clients or a running broker from the CA that peers are given; `LaunchesWhatItPrepared`: a broker starts with a certificate for the addresses its bring-up saw, of the CA that its peers are given; `ExpiryRenewsNothing`: a server certificate is replaced for its names, its addresses or with `--regenerate`, not because its days are over |
| `tls_reminted` | 1 invocation, 1 client | finding: after `--regenerate-ca` the documented re-mint hands back the orphaned pair |
| `supervisor` | 2 runners | teardown order (`NeverResolvedWhileStopping`), nothing left behind (`SupervisedLeavesNothing`), honest exit status (`ZeroMeansStopped`), that both happen (`StopTearsDown`, `CrashIsWithdrawn`), that records published before the broker listens do not lead nowhere for ever (`RecordsGetABroker`), and the refinement `ImplementsService` |
| `supervisor_orphan` | 1 runner | finding: a hang-up before the start-up lines are out leaves the broker running |
| `access_policy` | 2 clients, 1 child device, 3 roles | clients write what the documentation says, no less (`DocumentedWritesWork`) and no more (`OnlyDocumentedWrites`); reading is open to everyone (`TreeIsReadable`), as `auth.py` and `docs/security-profiles.md` say; both forms of the configuration agree; `strict` is closed |
| `self_test` | 2 tests, 2 ids, 1 runner that comes back, anything retained | `RoundTripWasMade`: a pass means that the broker has accepted a test's publish to the topic, or that `ready` was there before all of them; `AnswerIsOnItsWay`: no failure unless something went wrong; `EveryTestEnds` |
| `self_test_stale` | as `self_test` | finding: a pass does not mean that the test's own publish was accepted |
| `bring_up` | 2 invocations that share `mosquitto.conf`, with 11 sets of options, or the cached CA of a panel, with 4 | `ServesWhatItAdvertises`, `OptionsReachBroker`, `PasswordIsOwnerOnly` about `mosquitto.conf`. `OnlyDownloadsSpoilCache`: what a bring-up relies on is spoilt by downloads only; `BrokenCacheStays`: no bring-up repairs it; `StartsWithCurrentCa`: a broker starts with an expired CA only where the panel gave out one that was near its end or lapsed, with one that does not parse only after a download |

History variables say what an invocation has been through; no guard reads them,
save that `Age` respects `aged` (see Bounds). `alone`: none of the invocations
in flight has overlapped another; `clean`: an undisturbed one has completed
since the last overlap or interruption. `disturbed` and `cut` of `BringUp` and
`trouble` of `SelfTest` do the same. The properties that are conditional on
them are false without: that is what the findings and hazards show.

### Bounds

- Two invocations are enough for every pairwise overlap of file operations; a
  third would only add another writer to a file that is already a mix. Two
  clients tell "its own entry" from "another's". `Children = {}` with one writing
  role in the overlap run, because an entry's contents play no part in the
  overlaps; the liveness run has a child and `sensor`, a role without grants.
- Keys: a CA, a server and (in `tls_rotation`) a client key in use, the ones a
  running broker still holds, and a fresh one. A minting step waits when none is
  free, which removes behaviours, never adds one.
- `--client` is given once at most, save in `tls_reminted`, where it may be
  given twice; the proofs are for all lists. `tls_rotation` has one host
  name: a changing address goes through the same test (`Covers`) as a changing name.
- Two runners: one that tears down or was orphaned while the next starts.
- `access_policy` has one session at a time: sessions do not affect each other,
  and `Change` may come at any point of one. The debug ports are two that collide
  with a profile's and one that does not. The topics are one per class that the
  filters distinguish.
- `self_test`: six pairs of tests (`Pairs`), for a takeover, a shared topic, two
  topics, a denied publish. Two loops with two ids are left out: they meet in
  nothing but the broker, as a loop and a handshake do. What is retained on a topic
  that no test looks at (`Watched`) is left out as well. One runner, which may be
  started again once its broker is gone. Each test sends two packets per
  connection, so `inbox` and `outbox` bound themselves. The devices whose ids the
  tests are given have left their `$state` and do not connect meanwhile; a request
  that a test has still under way when it has its verdict is lost.
- `bring_up`: each invocation runs once. Both are given option sets of
  `ConfOptions`, or both of `CaOptions`: one for every way through `mosquitto.conf` and
  every way out, one for every way to the CA and past it. No bring-up sees the CA age
  more than once (`Age`): the slack is a day. The cache and what the panel gives out
  are anything at the start.

### Fairness

`ClientRegistry`'s `FairSpec` has weak fairness on an invocation's own steps (a
process that runs goes on) and on Mosquitto's acting on a SIGHUP. Starting a
command, killing one and stopping the broker are never assumed.
`Supervisor`'s `FairSpec` has weak fairness on a runner's steps, its time-out
included, and on a broker's coming out of its start one way or the other
(`Settles`); none on its obeying: `StopTearsDown` holds for a broker that ignores
SIGTERM. Whether a print fails is decided by the state (`tty`), not by fairness.
`SelfTest`'s `FairSpec` has weak fairness on a test's main thread only: browsing,
connecting and waiting have time-outs. Nothing is assumed of paho's thread or of
the broker.
`Interrupt` and `Killed` compete with the fair steps and are allowed forever;
the liveness properties say what holds all the same.

The specifications of runners, tests and bring-ups stop when all is over: their
runs switch TLC's deadlock check off.

## Findings

Four runs show a disagreement between the code and what its comments or
documentation say; `findings` in `PROJECT.json` quotes both. Registry updates can
be lost; the documented way to re-mint a client after `--regenerate-ca` does
nothing; a hang-up during start-up orphans the broker; a `ready` that was retained
before passes for the read-back of `verify_loop`.

Four more have no run of their own, because a property that holds says what the
code does instead:

- An expired server certificate is served again (`ExpiryRenewsNothing`), although
  `certs.py` 233-234 has it regenerated "so the broker never serves a cert the
  publisher will reject": names and addresses are all that is compared.
- A bridge with a password and a blank username is accepted, and rendered without
  either (`OptionsReachBroker`, with `Lost`): `build_bridge` asks whether an option
  is `None`, the template whether it is empty. `bridge.py` 110 says that the two
  "must be given together".
- Whatever body a download brings is cached as the panel's CA and used
  (`OnlyDownloadsSpoilCache`, `StartsWithCurrentCa`); if it is no certificate, no
  later bring-up gets past it (`BrokenCacheStays`). A CA that is downloaded near its
  end, or after it, is used without a look at its dates.
- Anonymous clients read the whole tree (`TreeIsReadable`), as `auth.py` 10-12 and
  `docs/security-profiles.md` 33 say. The quickstart (lines 88, 103, 117, 121),
  `profiles.py` 25-26 and a comment in `mosquitto.conf.j2` (25) say that they read
  lifecycle topics and nothing else. The texts contradict each other.

## Proofs

TLAPS checks eight modules, each for every value of the constants. The only
assumptions are the declared ones: `RolesAssumption` (the roles are some of the
code's), `SentinelAssumption` and `NamesAssumption` (a mark such as "no file" is
none of the values it is told from; `validate_client_id` accepts no empty id),
`HostsAssumption` (there is a host name), `OptionsAssumption`, `PlansAssumption`
and `ListsAssumption` (what an invocation or a test is given is of the form the
parser accepts). `Spec` is without fairness, so the theorems also hold of the
fair specifications.

`ClientRegistryProofs`. The agreement of registry, ACL file and broker is not
inductive by itself: a command about to write the ACL must carry the registry
that is on disk, and the step that rewrites a file must not be another process's.
`IInv` therefore adds, for an invocation that overlaps no other (`alone`), what it
holds in hand at each of its steps (`RegistryInHand`, `AclInHand`), that `alone`
means at most one busy process, that `clean` means that any busy process is
alone, that the history variable `saved` is what the file says (`SavedIsRead`),
and that a broker enforces no ACL if there is no file (`AclOutlivesUse`). From it
follow `AgreementInvariant`, `EnforcementInvariant` and `SoloSaveInvariant`;
`BrokenIsFinal`, an action property, needs types only. `DocumentedEnforcement`
joins `EnforcementInvariant` with `AclIsDocumented` of `GrantsProofs`, so that it
speaks of what the broker lets a client write and not of files.

`RegistryImplementsEnrolment` is the refinement of `Enrolment`, one lemma per kind
of step (`SaveImplements`, `TearImplements`, `RemakeImplements`,
`LaunchImplements`, `InterruptImplements`, `BrokerImplements`, `StartImplements`;
`StutterImplements` for the steps that only read or open a file). Two facts carry
it: what is on record changes only with a completed save or with the loss of one
(`RecordStays`), and a lone command holds in memory what is on record
(`HoldsRecord`, from `IInv`). `EnforcesOnlyUp`, that a broker that is down enforces
nothing, is the one invariant it needs besides.

`GrantsProofs`. `AclIsDocumented`: for every registry, client and topic, what the
rendered ACL allows (`WriteGrantIsDocumented`) and what the documentation grants
(`DocumentedWriteIsGranted`) are the same. Both `ClientRegistryProofs` and
`AccessPolicyProofs` rest on it.

`TlsMaterialProofs`. `Typed` adds to the types what an invocation has in hand at
each step, which is what makes them inductive: a key is generated before it is
written, a signer loaded before it signs. `Together` is the invariant behind
`MaterialIsWhole`: at most one invocation is busy while `alone`, its work is in
order (`Ordered`: the server follows the CA, and a regenerated CA regenerates
it), and if it counts (`Counts`: undisturbed since the last `clean` state, or
itself a `--regenerate-ca`), `Fits` says for each of its steps which of the files
are sound already and which it is about to replace. `StepKeeps`, `ExitKeeps` and
`NextTaskKeeps` reduce every action to these. `MismatchIsKept` is an action
property: with both files of a CA there and no `--regenerate-ca` in flight, no
step writes either.

`TlsRotationProofs` proves the other action properties of `TlsMaterial`, which are
about those who use the material. They need more than `Together`: at the step that
replaces a file one must know why the invocation came there. `Caution` says so
for every busy invocation (`Careful`): without `--regenerate-ca` it makes a CA only
where there was no certificate of one; a lone one mints a client without
`--regenerate` only where that had no pair, with a key that is none of a pair that
is there; and what it launches covers the addresses it has in hand. `ServesOnly`
adds that a bring-up's one task is the server's pair. `CautionKept` shows that
every step keeps it (`StepCares`, `ExitCares`, `NextTaskCares` for the three ways in
which an invocation moves on). `CaStays` and `PairStays` then confine the change of
the CA's certificate and of a client's pair to the steps of which
`OrphansByRegeneration` and `OutdatedByRegeneration` speak; `LaunchIsPrepared`
takes the addresses from `Careful` and the signer from `Together`.
`RenewedForNames` needs of `Careful` why the invocation mints, and of `KeyFirst`
that a certificate is never there without its key file.

`SupervisorProofs`. `IInv` says of each runner where its records can be
published, at which steps its broker can be stopping or dead (`RecordsFit`), what
each way of ending leaves (`EndingFits`), and that a status of 0 on the way out
means that the stop event was set (`StatusFits`): the three are needed to carry
"records are withdrawn first" from the step that withdraws them, through the
wait and its time-out, to the exit. Every action touches one runner, so the
theorems (`OrderedTeardown`, `CleanTeardown`, `HonestStatus`) hold for any number
of them. `Implementation` is the refinement of `Service`: under `IInv` each of a
runner's steps (`StepImplements`) and each thing that happens to it
(`EnvironmentImplements`) is one action of `Service`, or changes nothing there.

`SelfTestProofs`. `RoundTrip` rests on `MadeInv`: whatever a test has heard, is
about to hear, or would be told on subscribing was published to its topic by a test
and accepted, or was there before (`Made`). `NoFalseAlarm` rests on
`OnCourseInv`: of a test without trouble, the packets it has under way are a suffix of "subscribe, publish", so that the answer
is heard, in its inbox, or still owed by a publish that comes after its
subscription.

`BringUpProofs`. `Progress` (a broker comes after its launch; who was cut off is
over) and `AnswerFits` (who is about to write has been answered, who has not asked
has not) support four invariants: `ConfFits`, that an undisturbed invocation's
`mosquitto.conf` is its own from the write to the broker's load; `SecretFits`,
that who rendered a password protects it next; `SpoiltFits`, that whoever relies on a
cache that is no certificate has a download to blame, and that who writes over
another's CA is not the only one who has downloaded; `CacheFits`, that between the
check and the load the cached CA has aged at most once, unless the panel gave out an
older one or anything else. `AnswersStay`, that an answer only ages, is what lets these
blame a download that is over. `RenderedInFull` shows that every combination of
options that `Complete` lets through keeps its credentials in `Section`, save what a
blank username costs (`Lost`), `ListenersForOthers` that the debug tap is the only
listener that is not advertised.

`AccessPolicyProofs`. `IInv` says that a session was admitted by the broker it is
connected to and that an accepted message may still be written, because every
change of policy forgets it. Two arguments are joined on it: about configurations
(`ListenerKinds`: outside `open` a listener without an ACL is the host's debug
tap; `OwnRulesInForce`, `UnscopedIsUniform`: leaving out `per_listener_settings`
changes no listener's rules; `OwnPorts`) and about the ACL (`AclIsDocumented` by
way of `UserWritesDocumented`, and `AnonymousWritesNothing`).
`WritesAreDocumented` and `GrantsWork` together say that what a client can write
is exactly what `docs/security-profiles.md` grants it, for every registry.
`FormsAreEquivalent` says that the 2.0 and the 2.1 form of `mosquitto.conf` do the
same.

Every safety property that a passing run checks is a theorem. Model-checked only: liveness
under fairness, which is beyond the prover (`ChangesTakeEffect`, `StopTearsDown`,
`CrashIsWithdrawn`, `RecordsGetABroker`, `EveryTestEnds`); and the findings, which
are counterexamples.

## Not modelled

- Validation and formatting of ids, help texts and printing, except that a print
  may raise. What a bridge passes on unchanged (topic, direction, QoS, names).
- Reuse of a stale pid by another process.
- Expiry of the laptop's own CA and of client certificates (the server's and the
  panel's CA are modelled).
- Which CA a panel has: a new one is told from the old only by its age
  (`PanelRenews`). Nothing in the code looks for it before the cached one expires.
- An advertiser whose exit raises: `Withdraw` of `Supervisor` is the library's
  `close`, and what has become of the records then is the library's too. The `finally`
  that ends the broker runs in either case.
- What a running Mosquitto takes from a `mosquitto.conf` that was rewritten under
  it: the repository does not say.
- A stand-alone `laptop.advertiser` that is given another profile than the broker:
  the two share nothing that could be checked.
- `verify_advertiser.py`: one sequence of calls and a verdict on texts. `list` of
  `clients.py` reads and prints.
- `config/`, `mdns/`: templates and constants without state.

## What could come next

Abstract specifications of the TLS material (an authority, and whom it vouches
for) and of a bring-up, and their refinements; a composition of `TlsMaterial` with
connected clients; one of `ClientRegistry` with the sessions of `AccessPolicy`, for
what a client may write while a change is on its way.
