---------------------------- MODULE GrantsProofs ----------------------------
(***************************************************************************)
(* What Mosquitto lets a client write with the ACL that a registry renders *)
(* to is what the documentation grants it: for every set of clients,       *)
(* children and roles and every registry over them.                        *)
(***************************************************************************)
EXTENDS Grants, TLAPS

\* The filters that apply to a client: the patterns and its own section's.
LEMMA FiltersOfClient ==
  ASSUME NEW r \in Registry, NEW cn \in Clients
  PROVE  FiltersFor(RenderAcl(r), cn) = DefaultAcl \cup GrantsOf(r[cn])
BY DEF FiltersFor, RenderAcl

\* A filter of a client that lets it write a topic is a documented right.
LEMMA WriteGrantIsDocumented ==
  ASSUME NEW r \in Registry, NEW cn \in Clients, NEW topic \in Topics,
         NEW filter \in DefaultAcl \cup GrantsOf(r[cn]),
         filter[1] \in {"write", "readwrite"}, Matches(filter, cn, topic)
  PROVE  Documented(r, cn, topic)
<1>1. r[cn] \in Slot
  BY DEF Registry
<1>2. topic \in Tree
  BY DEF Matches, Tree
<1>3. CASE filter \in DefaultAcl
  BY <1>2, <1>3 DEF DefaultAcl, Matches, Documented, Owns
<1>4. CASE filter \in RoleGrants(r[cn].role)
  <2>1. CASE r[cn].role \in {"controller", "automation"}
    <3>1. filter \in {SetFilter, BroadcastFilter}
      BY <1>4, <2>1 DEF RoleGrants
    <3> QED
      BY <1>2, <2>1, <3>1 DEF SetFilter, BroadcastFilter, Matches, Documented, RoleWrites
  <2>2. CASE r[cn].role = "admin"
    BY <1>2, <2>2 DEF Documented, RoleWrites
  <2>3. CASE r[cn].role \notin {"controller", "automation", "admin"}
    BY <1>4, <2>3 DEF RoleGrants
  <2> QED BY <2>1, <2>2, <2>3
<1>5. CASE \E c \in r[cn].children : filter = Subtree(c)
  BY <1>2, <1>5 DEF Subtree, Matches, Documented, Owns
<1> QED BY <1>1, <1>3, <1>4, <1>5 DEF GrantsOf

\* A documented right of a client has a filter that lets it write the topic.
LEMMA DocumentedWriteIsGranted ==
  ASSUME NEW r \in Registry, NEW cn \in Clients, NEW topic \in Topics, Documented(r, cn, topic)
  PROVE  Allows(DefaultAcl \cup GrantsOf(r[cn]), "write", cn, topic)
<1> DEFINE filters == DefaultAcl \cup GrantsOf(r[cn])
<1>1. SUFFICES \E filter \in filters : filter[1] \in {"write", "readwrite"} /\ Matches(filter, cn, topic)
  BY DEF Allows
<1>2. topic \in Tree
  BY DEF Documented
<1>3. CASE topic.at = cn
  <2>1. <<"readwrite", "own">> \in DefaultAcl /\ Matches(<<"readwrite", "own">>, cn, topic)
    BY <1>2, <1>3 DEF DefaultAcl, Matches
  <2> QED BY <2>1
<1>4. CASE topic.at \in r[cn].children
  <2>1. Subtree(topic.at) \in GrantsOf(r[cn])
    BY <1>4 DEF GrantsOf
  <2>2. Matches(Subtree(topic.at), cn, topic) /\ Subtree(topic.at)[1] = "readwrite"
    BY <1>2 DEF Matches, Subtree
  <2> QED BY <2>1, <2>2
<1>5. CASE r[cn].role \in {"controller", "automation"} /\ topic.leaf = "set"
  <2>1. SetFilter \in GrantsOf(r[cn])
    BY <1>5 DEF GrantsOf, RoleGrants
  <2>2. Matches(SetFilter, cn, topic) /\ SetFilter[1] = "write"
    BY <1>2, <1>5 DEF Matches, SetFilter
  <2> QED BY <2>1, <2>2
<1>6. CASE r[cn].role \in {"controller", "automation"} /\ topic = BroadcastTopic
  <2>1. BroadcastFilter \in GrantsOf(r[cn])
    BY <1>6 DEF GrantsOf, RoleGrants
  <2>2. Matches(BroadcastFilter, cn, topic) /\ BroadcastFilter[1] = "write"
    BY <1>2, <1>6 DEF Matches, BroadcastFilter
  <2> QED BY <2>1, <2>2
<1>7. CASE r[cn].role = "admin"
  <2>1. TreeFilter \in GrantsOf(r[cn])
    BY <1>7 DEF GrantsOf, RoleGrants
  <2>2. Matches(TreeFilter, cn, topic) /\ TreeFilter[1] = "readwrite"
    BY <1>2 DEF Matches, TreeFilter
  <2> QED BY <2>1, <2>2
<1> QED BY <1>3, <1>4, <1>5, <1>6, <1>7 DEF Documented, Owns, RoleWrites

\* A client can write with the ACL of a registry exactly what the documentation
\* grants its entry (clients.py acl_sections, auth.py render_acl).
THEOREM AclIsDocumented ==
  ASSUME NEW r \in Registry, NEW cn \in Clients, NEW topic \in Topics
  PROVE  Allows(FiltersFor(RenderAcl(r), cn), "write", cn, topic) <=> Documented(r, cn, topic)
<1>1. ASSUME Allows(DefaultAcl \cup GrantsOf(r[cn]), "write", cn, topic)
      PROVE  Documented(r, cn, topic)
  <2>1. PICK filter \in DefaultAcl \cup GrantsOf(r[cn]) :
          filter[1] \in {"write", "readwrite"} /\ Matches(filter, cn, topic)
    BY <1>1 DEF Allows
  <2> QED BY <2>1, WriteGrantIsDocumented
<1> QED BY <1>1, FiltersOfClient, DocumentedWriteIsGranted
=============================================================================
