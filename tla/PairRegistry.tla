---------------------------- MODULE PairRegistry ----------------------------
(***************************************************************************)
(* What the pairing part of the accessory promises, without connections,   *)
(* handshakes or the advertisement: a register of members, some of them    *)
(* admins, that is opened when it is empty by a controller that was let in *)
(* at that moment, that only admins change afterwards, and that empties    *)
(* when a removal leaves no admin.  Who is let in is an input: the register*)
(* says nothing of how the handshake decides it.                           *)
(***************************************************************************)
CONSTANTS
  Clients      \* the controllers

VARIABLES
  members,     \* the paired controllers
  admins,      \* the paired controllers with the admin bit
  letIn        \* input: the controllers the handshake would let in now

vars == <<members, admins>>

(* An accessory starts with what it had before it was restarted. *)
Init ==
  /\ members \subseteq Clients
  /\ admins \subseteq members

(* An empty register is opened by a controller that is let in. *)
Open(c) ==
  /\ members = {}
  /\ c \in letIn
  /\ members' = {c}
  /\ admins' = {c}

(* An admin adds c, or changes what c may do, itself included. *)
Enrol(c) ==
  /\ admins # {}
  /\ members' = members \cup {c}
  /\ admins' \in {admins \cup {c}, admins \ {c}}

(* An admin removes c; with the last admin everybody goes. *)
Revoke(c) ==
  /\ admins # {}
  /\ c \in members
  /\ members' = IF admins \ {c} = {} THEN {} ELSE members \ {c}
  /\ admins' = admins \ {c}

Next == \E c \in Clients : Open(c) \/ Enrol(c) \/ Revoke(c)

Spec == Init /\ [][Next]_vars
=============================================================================
