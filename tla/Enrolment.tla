----------------------------- MODULE Enrolment -----------------------------
(***************************************************************************)
(* What the client registry promises to who administers it, without the    *)
(* steps of its commands: a table of what each client is granted, changed  *)
(* for one client at a time; an ACL that is made of the whole table; and a *)
(* broker that enforces what the ACL held when it last looked.  A reader   *)
(* may find the ACL torn, never made of another table; a broker that is    *)
(* started without an ACL stays without.                                   *)
(*                                                                         *)
(* Two commands that overlap may leave any table and any ACL.  The         *)
(* promises hold again when the next command runs alone.  A table that is  *)
(* lost is lost for good.  ClientRegistry implements it.                   *)
(***************************************************************************)
CONSTANTS Clients,    \* the clients
          Slot,       \* what a client may be granted
          NoEntry,    \* nothing
          Render(_),  \* the ACL that a table is made into
          Absent,     \* there is no ACL
          Torn        \* a table or an ACL that is not a whole text

VARIABLES
  table,   \* what each client is granted
  acl,     \* the ACL file
  up,      \* a broker runs
  policy,  \* the ACL it enforces; Absent: none
  solo     \* no commands overlap

vars == <<table, acl, up, policy, solo>>

Table == [Clients -> Slot]

Init ==
  /\ table = [cn \in Clients |-> NoEntry]
  /\ acl = Absent
  /\ up = FALSE
  /\ policy = Absent
  /\ solo = TRUE

\* A command begins; those that run now overlap, or none does any longer.
Begin ==
  /\ solo' \in BOOLEAN
  /\ UNCHANGED <<table, acl, up, policy>>

\* `set` or `remove`: what the other clients are granted stays.
Change(cn) ==
  /\ solo
  /\ table # Torn
  /\ table' \in Table
  /\ \A other \in Clients \ {cn} : table'[other] = table[other]
  /\ UNCHANGED <<acl, up, policy, solo>>

\* A command is cut off while it saves the table.
Lose ==
  /\ table # Torn
  /\ table' = Torn
  /\ UNCHANGED <<acl, up, policy, solo>>

\* The ACL is rewritten, in two steps.
Tear ==
  /\ table # Torn
  /\ acl' = Torn
  /\ UNCHANGED <<table, up, policy, solo>>

Remake ==
  /\ solo
  /\ table # Torn
  /\ acl = Torn
  /\ acl' = Render(table)
  /\ UNCHANGED <<table, up, policy, solo>>

\* A step of overlapping commands.
Muddle ==
  /\ ~solo
  /\ table' = Torn \/ (table # Torn /\ table' \in Table)
  /\ acl' = Absent => acl = Absent
  /\ UNCHANGED <<up, policy, solo>>

\* A bring-up with an ACL: of today's table, if it overlaps no other command.
Protect ==
  /\ ~up
  /\ solo => table # Torn /\ acl = Render(table)
  /\ up' = TRUE
  /\ policy' = acl
  /\ UNCHANGED <<table, acl, solo>>

\* A bring-up without.
Open ==
  /\ ~up
  /\ up' = TRUE
  /\ policy' = Absent
  /\ UNCHANGED <<table, acl, solo>>

\* A broker that was brought up without an ACL does not come to have one.
Reload ==
  /\ up
  /\ policy # Absent
  /\ policy' = acl
  /\ UNCHANGED <<table, acl, up, solo>>

Stop ==
  /\ up
  /\ up' = FALSE
  /\ policy' = Absent
  /\ UNCHANGED <<table, acl, solo>>

Next ==
  \/ Begin
  \/ \E cn \in Clients : Change(cn)
  \/ Lose \/ Tear \/ Remake \/ Muddle
  \/ Protect \/ Open \/ Reload \/ Stop

Spec == Init /\ [][Next]_vars
=============================================================================
