------------------------------ MODULE HAPState ------------------------------
(***************************************************************************)
(* The pairing part of pyhap/state.py: who is paired, with which           *)
(* permissions, and for whom the exact username bytes are known.           *)
(*                                                                         *)
(* A state is a record of the three dictionaries State keeps, each keyed   *)
(* by the client's UUID.  Keys and bytes themselves are abstracted: of     *)
(* paired_clients and uuid_to_bytes only the set of keys is kept, of       *)
(* client_properties the permission, with Absent for a missing entry.      *)
(***************************************************************************)
CONSTANTS
  Clients   \* the controllers, by UUID

Perms  == {"user", "admin"}       \* the ADMIN_BIT of the permissions byte
Absent == "absent"                \* no entry in client_properties

States == [ paired : SUBSET Clients,
            props  : [Clients -> Perms \cup {Absent}],
            bytes  : SUBSET Clients ]

NoProps   == [c \in Clients |-> Absent]
InitState == [paired |-> {}, props |-> NoProps, bytes |-> {}]

IsPaired(s)    == s.paired # {}
IsAdmin(s, c)  == s.props[c] = "admin"
Admins(s)      == {c \in Clients : IsAdmin(s, c)}
PropsKeys(s)   == {c \in Clients : s.props[c] # Absent}

(* Also replaces what is known of a client that is paired already. *)
AddPairedClient(s, c, perms) ==
  [ paired |-> s.paired \cup {c},
    props  |-> [s.props EXCEPT ![c] = perms],
    bytes  |-> s.bytes \cup {c} ]

(* ord(perms) raises when the permissions are not one byte: the client is  *)
(* paired by then, and its entry of client_properties is not written.      *)
AddUntilPerms(s, c) ==
  [ paired |-> s.paired \cup {c}, props |-> s.props, bytes |-> s.bytes \cup {c} ]

(* Mistake: the pairings stay when the last admin goes. *)
KeepPairings(s) == s

(* Pairings without an admin are dropped with the last admin.  uuid_to_bytes *)
(* keeps the entries of the clients that are dropped that way.               *)
DropIfNoAdmin(s) ==
  IF \E c \in s.paired : IsAdmin(s, c)
  THEN s
  ELSE [paired |-> {}, props |-> NoProps, bytes |-> s.bytes]

(* Mistake: the entry of client_properties is overwritten and not popped. *)
RemoveWithTombstone(s, c) ==
  DropIfNoAdmin([ paired |-> s.paired \ {c},
                  props  |-> [s.props EXCEPT ![c] = "removed"],
                  bytes  |-> s.bytes \ {c} ])

(* Mistake: the entry of client_properties is forgotten. *)
RemoveKeepingProperties(s, c) ==
  DropIfNoAdmin([ paired |-> s.paired \ {c}, props |-> s.props, bytes |-> s.bytes \ {c} ])

(* client_properties.pop(c) raises KeyError when the entry is missing; the *)
(* client is out of paired_clients by then and the rest does not happen.   *)
RemovePairedClient(s, c) ==
  IF s.props[c] = Absent
  THEN [paired |-> s.paired \ {c}, props |-> s.props, bytes |-> s.bytes]
  ELSE DropIfNoAdmin([ paired |-> s.paired \ {c},
                       props  |-> [s.props EXCEPT ![c] = Absent],
                       bytes  |-> s.bytes \ {c} ])

RememberBytes(s, c) == [paired |-> s.paired, props |-> s.props, bytes |-> s.bytes \cup {c}]

(* The clients of which one of the two dictionaries alone has an entry. *)
Disagreement(s) == (s.paired \ PropsKeys(s)) \cup (PropsKeys(s) \ s.paired)

(* The dictionaries agree on who is paired. *)
Consistent(s) == s.paired = PropsKeys(s)
=============================================================================
