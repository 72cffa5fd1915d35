------------------------------- MODULE Grants -------------------------------
(***************************************************************************)
(* What the client registry (laptop/clients.py) grants and how it is       *)
(* rendered into the broker's ACL (laptop/auth.py), what Mosquitto, which  *)
(* is external, lets a client do with that ACL, and what                   *)
(* docs/security-profiles.md lets it do.                                   *)
(*                                                                         *)
(* A registry is a total function from client ids (certificate CNs) to     *)
(* slots: NoEntry stands for an id that is not a key of clients.json.      *)
(* Topic filters are named, not spelled out.                               *)
(***************************************************************************)
CONSTANTS Clients,   \* the certificate CNs that may appear in the registry
          Children,  \* the device ids that may be listed with --child
          Roles      \* the roles in use, some of those clients.py accepts

ROLES == {"observer", "sensor", "controller", "automation", "admin"}

ASSUME RolesAssumption == Roles \subseteq ROLES

Entry == [role : Roles, children : SUBSET Children]
NoEntry == [role |-> "none", children |-> {}]
Slot == Entry \cup {NoEntry}

Registry == [Clients -> Slot]
EmptyRegistry == [cn \in Clients |-> NoEntry]

-----------------------------------------------------------------------------
SetFilter == <<"write", "set">>              \* ebus/5/+/+/+/set
BroadcastFilter == <<"write", "broadcast">>  \* ebus/5/$broadcast/#
TreeFilter == <<"readwrite", "tree">>        \* ebus/#
Subtree(device) == <<"readwrite", "subtree", device>>

\* Mutant: a controller does not get the broadcasts.
RoleGrantsWithoutBroadcasts(role) ==
  CASE role \in {"controller", "automation"} -> {SetFilter}
    [] role = "admin" -> {TreeFilter}
    [] OTHER -> {}

RoleGrants(role) ==
  CASE role \in {"controller", "automation"} -> {SetFilter, BroadcastFilter}
    [] role = "admin" -> {TreeFilter}
    [] OTHER -> {}

\* Mutant of GrantsOf: the children count for clients without a writing role only.
GrantsOfRoleOrChildren(entry) ==
  IF RoleGrants(entry.role) # {} THEN RoleGrants(entry.role)
                                 ELSE {Subtree(c) : c \in entry.children}

GrantsOf(entry) == RoleGrants(entry.role) \cup {Subtree(c) : c \in entry.children}

\* Mutant of DefaultAcl: the tree is not world-readable.
AclWithoutTree == {<<"readwrite", "own">>}

\* The shared `pattern` lines: everyone reads the tree, %u owns its subtree.
DefaultAcl == {<<"read", "tree">>, <<"readwrite", "own">>}

\* The ACL text: the shared patterns, then each client's `user` section. A
\* client without grants has no section, so it renders like a missing entry.
RenderAcl(registry) ==
  [patterns |-> DefaultAcl, users |-> [cn \in Clients |-> GrantsOf(registry[cn])]]

-----------------------------------------------------------------------------
(* Mosquitto's reading of an ACL.                                          *)

\* Topics by what the filters and the documentation tell apart: whose subtree of
\* ebus/5; whether it is $state or $description ("state"), a property's value or its
\* /set; the broadcasts; and what lies outside ebus.
Devices == Clients \cup Children
DeviceTopics == [at : Devices, leaf : {"state", "value", "set"}]
BroadcastTopic == [at |-> "broadcast", leaf |-> "value"]
OutsideTopic == [at |-> "outside", leaf |-> "value"]
Tree == DeviceTopics \cup {BroadcastTopic}
Topics == Tree \cup {OutsideTopic}

Matches(filter, user, topic) ==
  \/ filter[2] = "tree" /\ topic \in Tree
  \/ filter[2] = "own" /\ topic \in Tree /\ topic.at = user
  \/ filter[2] = "set" /\ topic \in Tree /\ topic.leaf = "set"
  \/ filter[2] = "broadcast" /\ topic = BroadcastTopic
  \/ filter[2] = "subtree" /\ topic \in Tree /\ topic.at = filter[3]

\* The patterns apply to everyone, a `user` section to the client it names.
FiltersFor(acl, cn) == acl.patterns \cup acl.users[cn]

Allows(filters, access, user, topic) ==
  \E filter \in filters : filter[1] \in {access, "readwrite"} /\ Matches(filter, user, topic)

-----------------------------------------------------------------------------
(* docs/security-profiles.md.                                              *)

\* What a client may write on the listeners that have the ACL: its own subtree,
\* its children's, and what its role adds.
Owns(r, cn, device) == device = cn \/ device \in r[cn].children
RoleWrites(role, topic) ==
  \/ role \in {"controller", "automation"} /\ (topic.leaf = "set" \/ topic = BroadcastTopic)
  \/ role = "admin"
Documented(r, cn, topic) ==
  /\ topic \in Tree
  /\ Owns(r, cn, topic.at) \/ RoleWrites(r[cn].role, topic)
=============================================================================
