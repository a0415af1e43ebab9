-------------------------- MODULE HAPPairing_proofs --------------------------
(***************************************************************************)
(* What HAPPairing guarantees for any number of controllers and            *)
(* connections and any bounds.  IInv is the inductive invariant; the       *)
(* properties follow from it.                                              *)
(***************************************************************************)
EXTENDS HAPPairing, TLAPS

-----------------------------------------------------------------------------
(* What the operations of HAPState keep true. *)

(* Adding a client keeps a state a state. *)
LEMMA AddTyped ==
  ASSUME NEW s \in States, NEW c \in Clients, NEW perms \in Perms
  PROVE  AddPairedClient(s, c, perms) \in States
BY DEF AddPairedClient, States, Perms, Absent

(* Removing a client keeps a state a state. *)
LEMMA RemoveTyped ==
  ASSUME NEW s \in States, NEW c \in Clients
  PROVE  RemovePairedClient(s, c) \in States
BY DEF RemovePairedClient, DropIfNoAdmin, NoProps, States, Perms, Absent

(* Remembering the username bytes of a client keeps a state a state. *)
LEMMA RememberTyped ==
  ASSUME NEW s \in States, NEW c \in Clients
  PROVE  RememberBytes(s, c) \in States
BY DEF RememberBytes, States

(* An addition that fails halfway keeps a state a state. *)
LEMMA AddUntilPermsTyped ==
  ASSUME NEW s \in States, NEW c \in Clients
  PROVE  AddUntilPerms(s, c) \in States
BY DEF AddUntilPerms, States

(* Adding a client, new or not, makes the dictionaries agree about it. *)
LEMMA AddAgreement ==
  ASSUME NEW s \in States, NEW c \in Clients, NEW perms \in Perms
  PROVE  Disagreement(AddPairedClient(s, c, perms)) \subseteq Disagreement(s)
BY DEF AddPairedClient, States, Disagreement, PropsKeys, Perms, Absent

(* An addition that fails halfway disturbs the agreement about that client  *)
(* at most, and only when the client is new.                                *)
LEMMA AddUntilPermsAgreement ==
  ASSUME NEW s \in States, NEW c \in Clients
  PROVE  LET r == AddUntilPerms(s, c)
         IN  Disagreement(r) \subseteq Disagreement(s) \cup (r.paired \ s.paired)
BY DEF AddUntilPerms, Disagreement, PropsKeys

(* Removing a client disturbs no agreement, whether or not the client has   *)
(* properties and whether or not everybody else goes with it.               *)
LEMMA RemoveAgreement ==
  ASSUME NEW s \in States, NEW c \in s.paired
  PROVE  Disagreement(RemovePairedClient(s, c)) \subseteq Disagreement(s)
<1> DEFINE rest == [ paired |-> s.paired \ {c},
                     props  |-> [s.props EXCEPT ![c] = Absent],
                     bytes  |-> s.bytes \ {c} ]
           none == [paired |-> {}, props |-> NoProps, bytes |-> rest.bytes]
<1>1. c \in Clients
  BY DEF States
<1>2. CASE s.props[c] = Absent
  BY <1>1, <1>2 DEF RemovePairedClient, Disagreement, PropsKeys
<1>3. CASE s.props[c] # Absent
  <2>1. RemovePairedClient(s, c) = DropIfNoAdmin(rest)
    BY <1>3 DEF RemovePairedClient
  <2>2. Disagreement(rest) \subseteq Disagreement(s)
    BY <1>1 DEF Disagreement, PropsKeys, States
  <2>3. Disagreement(none) = {}
    BY DEF Disagreement, PropsKeys, NoProps
  <2>4. DropIfNoAdmin(rest) \in {rest, none}
    BY DEF DropIfNoAdmin
  <2> HIDE DEF rest, none
  <2>5. QED
    BY <2>1, <2>2, <2>3, <2>4
<1>4. QED
  BY <1>2, <1>3

(* Who is an admin after a client was added: everybody else keeps what they *)
(* were.                                                                    *)
LEMMA AddAdmins ==
  ASSUME NEW s \in States, NEW c \in Clients, NEW perms \in Perms
  PROVE  Admins(AddPairedClient(s, c, perms))
           = IF perms = "admin" THEN Admins(s) \cup {c} ELSE Admins(s) \ {c}
BY DEF AddPairedClient, Admins, IsAdmin, States, Perms

(* The paired admins after an addition that succeeds. *)
LEMMA AddMemberAdmins ==
  ASSUME NEW s \in States, NEW c \in Clients, NEW perms \in Perms
  PROVE  MemberAdmins(AddPairedClient(s, c, perms))
           = IF perms = "admin" THEN MemberAdmins(s) \cup {c} ELSE MemberAdmins(s) \ {c}
<1>1. AddPairedClient(s, c, perms).paired = s.paired \cup {c}
  BY DEF AddPairedClient
<1>2. QED
  BY <1>1, AddAdmins DEF MemberAdmins

(* The paired admins after an addition that fails halfway: c is one if it   *)
(* had the entry of an admin.                                               *)
LEMMA AddUntilPermsMemberAdmins ==
  ASSUME NEW s \in States, NEW c \in Clients
  PROVE  MemberAdmins(AddUntilPerms(s, c)) \in {MemberAdmins(s) \cup {c}, MemberAdmins(s) \ {c}}
<1>1. /\ AddUntilPerms(s, c).paired = s.paired \cup {c}
      /\ Admins(AddUntilPerms(s, c)) = Admins(s)
  BY DEF AddUntilPerms, Admins, IsAdmin
<1>2. QED
  BY <1>1 DEF MemberAdmins

(* What is left after a client was removed: nobody when no other admin was  *)
(* paired, and everybody else, as they were, otherwise.  Where the pop of   *)
(* its properties raises, an admin among the others is what keeps this true.*)
LEMMA RemoveMembers ==
  ASSUME NEW s \in States, NEW c \in s.paired, MemberAdmins(s) # {}
  PROVE  LET r == RemovePairedClient(s, c)
         IN  /\ r.paired = IF MemberAdmins(s) \ {c} = {} THEN {} ELSE s.paired \ {c}
             /\ MemberAdmins(r) = MemberAdmins(s) \ {c}
<1> DEFINE rest == [ paired |-> s.paired \ {c},
                     props  |-> [s.props EXCEPT ![c] = Absent],
                     bytes  |-> s.bytes \ {c} ]
           none == [paired |-> {}, props |-> NoProps, bytes |-> rest.bytes]
           torn == [paired |-> s.paired \ {c}, props |-> s.props, bytes |-> s.bytes]
<1>1. c \in Clients
  BY DEF States
<1>2. CASE s.props[c] = Absent
  <2>1. RemovePairedClient(s, c) = torn
    BY <1>2 DEF RemovePairedClient
  <2>2. c \notin MemberAdmins(s)
    BY <1>2 DEF MemberAdmins, Admins, IsAdmin, Absent
  <2>3. torn.paired = s.paired \ {c} /\ Admins(torn) = Admins(s)
    BY DEF Admins, IsAdmin
  <2> HIDE DEF torn
  <2>4. QED
    BY <2>1, <2>2, <2>3 DEF MemberAdmins
<1>3. CASE s.props[c] # Absent
  <2>1. RemovePairedClient(s, c) = DropIfNoAdmin(rest)
    BY <1>3 DEF RemovePairedClient
  <2>2. Admins(rest) = Admins(s) \ {c} /\ rest.paired = s.paired \ {c}
    BY <1>1 DEF Admins, IsAdmin, States, Absent
  <2>3. MemberAdmins(rest) = MemberAdmins(s) \ {c}
    BY <2>2 DEF MemberAdmins
  <2>4. rest.paired \subseteq Clients
    BY <2>2 DEF States
  <2>5. (\E d \in rest.paired : IsAdmin(rest, d)) <=> MemberAdmins(rest) # {}
    BY <2>4 DEF MemberAdmins, Admins
  <2>6. MemberAdmins(none) = {} /\ none.paired = {}
    BY DEF MemberAdmins
  <2> HIDE DEF rest, none
  <2>7. DropIfNoAdmin(rest) = IF MemberAdmins(rest) # {} THEN rest ELSE none
    BY <2>5 DEF DropIfNoAdmin, none
  <2>8. QED
    BY <2>1, <2>2, <2>3, <2>6, <2>7
<1>4. QED
  BY <1>2, <1>3

-----------------------------------------------------------------------------
(* As long as its A is one that SRP prescribes, the verifier's key is shared*)
(* by nobody but a controller that knows the setup code.                    *)
KeyOfPinHolder == srp_key \subseteq MayShareK

(* A session that can administer is the session of a paired client: it was  *)
(* verified as one, and whoever leaves paired_clients takes its properties  *)
(* along, or had none.                                                      *)
AdminSessionsArePaired ==
  \A k \in Conns : AdminSession(k) => client_uuid[k] \in state.paired

IInv == TypeOK /\ KeyOfPinHolder /\ AdminSessionsArePaired

-----------------------------------------------------------------------------
(* The initial states satisfy the invariant. *)
LEMMA InitIInv == Init => IInv
<1> SUFFICES ASSUME Init PROVE IInv
  OBVIOUS
<1>1. TypeOK
  BY DEF Init, TypeOK, RestoredStates, IsPaired, Peer, Verifiers
<1>2. KeyOfPinHolder
  BY DEF Init, KeyOfPinHolder
<1>3. AdminSessionsArePaired
  BY NoClientAssumption DEF Init, AdminSessionsArePaired, AdminSession, Admins
<1>4. QED
  BY <1>1, <1>2, <1>3 DEF IInv

(* A controller at the end of a connection is a controller. *)
LEMMA OwnerIsClient ==
  ASSUME IInv, NEW k \in Conns, owner[k] # NoClient
  PROVE  owner[k] \in Clients
BY DEF IInv, TypeOK, Peer

(* What administers is the session of a paired admin. *)
LEMMA AdministersAsAdmin ==
  ASSUME IInv, NEW k \in Conns, CanAdminister(k)
  PROVE  AdminSession(k) /\ client_uuid[k] \in MemberAdmins(state)
<1>1. client_uuid[k] \in Clients
  BY DEF IInv, TypeOK, CanAdminister, Peer
<1>2. AdminSession(k)
  BY <1>1 DEF CanAdminister, AdminSession, Admins
<1>3. QED
  BY <1>2 DEF IInv, AdminSessionsArePaired, AdminSession, MemberAdmins

(* Sessions stay those of paired clients while nobody becomes an admin      *)
(* without being paired, and no paired admin leaves and stays an admin.     *)
LEMMA SessionsKept ==
  ASSUME IInv, UNCHANGED client_uuid,
         Admins(state') \cap state.paired \subseteq state'.paired,
         Admins(state') \subseteq Admins(state) \cup state'.paired
  PROVE  AdminSessionsArePaired'
<1> SUFFICES ASSUME NEW k \in Conns, AdminSession(k)'
             PROVE  client_uuid[k] \in state'.paired
  BY DEF AdminSessionsArePaired
<1>1. client_uuid[k] \in Admins(state')
  BY DEF AdminSession
<1>2. CASE client_uuid[k] \in state'.paired
  BY <1>2
<1>3. CASE client_uuid[k] \in Admins(state)
  BY <1>1, <1>3 DEF IInv, AdminSessionsArePaired, AdminSession
<1>4. QED
  BY <1>1, <1>2, <1>3

(* Adding a client, by pair-setup or by an admin, keeps the state typed and *)
(* the sessions of admins those of paired clients.                          *)
LEMMA PairKeeps ==
  ASSUME IInv, NEW c \in Clients, NEW perms \in Perms, Pair(c, perms), UNCHANGED client_uuid
  PROVE  /\ state' \in States
         /\ AdminSessionsArePaired'
         /\ persist_jobs' \in Nat
<1>1. state \in States /\ persist_jobs \in Nat
  BY DEF IInv, TypeOK
<1>2. state' = AddPairedClient(state, c, perms) /\ persist_jobs' = persist_jobs + 1
  BY DEF Pair, AsyncPersist
<1>3. state'.paired = state.paired \cup {c}
  BY <1>2 DEF AddPairedClient
<1>4. Admins(state') \subseteq Admins(state) \cup {c}
  BY <1>1, <1>2, AddAdmins
<1>5. AdminSessionsArePaired'
  BY <1>3, <1>4, SessionsKept
<1>6. QED
  BY <1>1, <1>2, <1>5, AddTyped

(* So does an addition that fails halfway. *)
LEMMA PairRaisesKeeps ==
  ASSUME IInv, NEW c \in Clients, state' = AddUntilPerms(state, c), UNCHANGED client_uuid
  PROVE  /\ state' \in States
         /\ AdminSessionsArePaired'
<1>1. state'.paired = state.paired \cup {c} /\ Admins(state') = Admins(state)
  BY DEF AddUntilPerms, Admins, IsAdmin
<1>2. QED
  BY <1>1, AddUntilPermsTyped, SessionsKept DEF IInv, TypeOK

(* So does removing a paired client. *)
LEMMA UnpairKeeps ==
  ASSUME IInv, NEW c \in state.paired, Unpair(c), UNCHANGED client_uuid
  PROVE  /\ state' \in States
         /\ AdminSessionsArePaired'
         /\ persist_jobs' \in Nat
<1> DEFINE rest == [ paired |-> state.paired \ {c},
                     props  |-> [state.props EXCEPT ![c] = Absent],
                     bytes  |-> state.bytes \ {c} ]
           none == [paired |-> {}, props |-> NoProps, bytes |-> rest.bytes]
           torn == [paired |-> state.paired \ {c}, props |-> state.props, bytes |-> state.bytes]
<1>1. state \in States /\ persist_jobs \in Nat /\ c \in Clients
  BY DEF IInv, TypeOK, States
<1>2. state' = RemovePairedClient(state, c)
  BY DEF Unpair
<1>3. state' \in {rest, none} \/ (state.props[c] = Absent /\ state' = torn)
  BY <1>2 DEF RemovePairedClient, DropIfNoAdmin
<1>4. persist_jobs' \in Nat
  BY <1>1 DEF Unpair, AsyncPersist
<1>5. rest.paired = state.paired \ {c} /\ Admins(rest) = Admins(state) \ {c}
  BY <1>1 DEF Admins, IsAdmin, States, Absent
<1>6. Admins(none) = {}
  BY DEF Admins, IsAdmin, NoProps, Absent
<1>7. /\ torn.paired = state.paired \ {c}
      /\ Admins(torn) = Admins(state)
      /\ state.props[c] = Absent => c \notin Admins(state)
  BY DEF Admins, IsAdmin, Absent
<1> HIDE DEF rest, none, torn
<1>8. /\ Admins(state') \cap state.paired \subseteq state'.paired
      /\ Admins(state') \subseteq Admins(state) \cup state'.paired
  BY <1>3, <1>5, <1>6, <1>7
<1>9. QED
  BY <1>1, <1>2, <1>4, <1>8, RemoveTyped, SessionsKept

(* Every step keeps the invariant. *)
LEMMA NextIInv == IInv /\ [Next]_vars => IInv'
<1> SUFFICES ASSUME IInv, [Next]_vars PROVE IInv'
  OBVIOUS
<1> USE DEF connVars, setupVars, advertVars
<1> DEFINE SetupKept == UNCHANGED setupVars
<1>0. SetupKept => KeyOfPinHolder'
  BY DEF IInv, KeyOfPinHolder, MayShareK
<1>1. ASSUME NEW k \in Conns, NEW c \in Clients, ConnectionMade(k, c)
      PROVE  IInv'
  <2>1. TypeOK'
    BY <1>1 DEF ConnectionMade, IInv, TypeOK, Peer
  <2>2. AdminSessionsArePaired'
    BY <1>1 DEF ConnectionMade, IInv, AdminSessionsArePaired, AdminSession
  <2>3. QED
    BY <1>0, <1>1, <2>1, <2>2 DEF ConnectionMade, IInv
<1>2. ASSUME NEW k \in Conns, ConnectionLost(k)
      PROVE  IInv'
  <2>1. TypeOK'
    BY <1>2 DEF ConnectionLost, IInv, TypeOK, Peer
  <2>2. AdminSessionsArePaired'
    BY <1>2, NoClientAssumption
       DEF ConnectionLost, IInv, TypeOK, AdminSessionsArePaired, AdminSession, Admins
  <2>3. QED
    BY <1>0, <1>2, <2>1, <2>2 DEF ConnectionLost, IInv
<1>3. ASSUME NEW k \in Conns, PairSetupOne(k)
      PROVE  IInv'
  <2>1. TypeOK'
    BY <1>3, OwnerIsClient DEF PairSetupOne, IInv, TypeOK, Verifiers
  <2>2. AdminSessionsArePaired'
    BY <1>3 DEF PairSetupOne, IInv, AdminSessionsArePaired, AdminSession
  <2>3. KeyOfPinHolder'
    BY <1>3 DEF PairSetupOne, KeyOfPinHolder
  <2>4. QED
    BY <2>1, <2>2, <2>3 DEF IInv
<1>4. ASSUME NEW k \in Conns, PairSetupTwo(k)
      PROVE  IInv'
  <2>1. \/ srp_verifier' = Prescribed /\ srp_key' \subseteq PinHolders
        \/ srp_verifier' = Unchecked /\ srp_key' \subseteq Clients
    BY <1>4 DEF PairSetupTwo
  <2>2. KeyOfPinHolder'
    BY <2>1 DEF KeyOfPinHolder, MayShareK, Prescribed, Unchecked
  <2>3. srp_verifier' \in Verifiers /\ srp_key' \subseteq Clients
    BY <2>1, PinHoldersAssumption DEF Verifiers
  <2>4. TypeOK'
    BY <1>4, <2>3 DEF PairSetupTwo, IInv, TypeOK
  <2>5. AdminSessionsArePaired'
    BY <1>4 DEF PairSetupTwo, IInv, AdminSessionsArePaired, AdminSession
  <2>6. QED
    BY <2>2, <2>4, <2>5 DEF IInv
<1>5. ASSUME NEW k \in Conns, PairSetupThree(k)
      PROVE  IInv'
  <2>1. owner[k] \in Clients /\ "admin" \in Perms /\ Pair(owner[k], "admin")
    BY <1>5, OwnerIsClient DEF PairSetupThree, Perms
  <2>2. state' \in States /\ AdminSessionsArePaired' /\ persist_jobs' \in Nat
    BY <1>5, <2>1, PairKeeps DEF PairSetupThree
  <2>3. finish_jobs' \in Nat
    BY <1>5 DEF PairSetupThree, PairingChanged, IInv, TypeOK
  <2>4. TypeOK'
    BY <1>5, <2>2, <2>3 DEF PairSetupThree, IInv, TypeOK
  <2>5. QED
    BY <1>0, <1>5, <2>2, <2>4 DEF PairSetupThree, IInv
<1>6. ASSUME NEW k \in Conns, PairVerifyOne(k)
      PROVE  IInv'
  <2>1. TypeOK'
    BY <1>6 DEF PairVerifyOne, IInv, TypeOK
  <2>2. AdminSessionsArePaired'
    BY <1>6 DEF PairVerifyOne, IInv, AdminSessionsArePaired, AdminSession
  <2>3. QED
    BY <1>0, <1>6, <2>1, <2>2 DEF PairVerifyOne, IInv
<1>7. ASSUME NEW k \in Conns, PairVerifyTwo(k)
      PROVE  IInv'
  <2>1. state \in States /\ persist_jobs \in Nat
    BY DEF IInv, TypeOK
  <2>2. owner[k] \in Clients /\ owner[k] \in state.paired
    BY <1>7, <2>1 DEF PairVerifyTwo, States
  <2>3. /\ state' \in States /\ persist_jobs' \in Nat
        /\ state'.paired = state.paired /\ state'.props = state.props
    <3>1. CASE UNCHANGED <<state, persist_jobs>>
      BY <2>1, <3>1
    <3>2. CASE state' = RememberBytes(state, owner[k]) /\ AsyncPersist
      BY <2>1, <2>2, <3>2, RememberTyped DEF AsyncPersist, RememberBytes
    <3>3. QED
      BY <1>7, <3>1, <3>2 DEF PairVerifyTwo
  <2>4. client_uuid' \in [Conns -> Peer] /\ enc_context' \subseteq Conns
    BY <1>7, <2>2 DEF PairVerifyTwo, IInv, TypeOK, Peer
  <2>5. TypeOK'
    BY <1>7, <2>3, <2>4 DEF PairVerifyTwo, IInv, TypeOK
  <2>6. AdminSessionsArePaired'
    <3> SUFFICES ASSUME NEW j \in Conns, AdminSession(j)'
                 PROVE  client_uuid'[j] \in state'.paired
      BY DEF AdminSessionsArePaired
    <3>1. CASE j = k
      BY <1>7, <2>2, <2>3, <3>1 DEF PairVerifyTwo, IInv, TypeOK
    <3>2. CASE j # k
      <4>1. client_uuid'[j] = client_uuid[j]
        BY <1>7, <3>2 DEF PairVerifyTwo, IInv, TypeOK
      <4>2. Admins(state') = Admins(state)
        BY <2>3 DEF Admins, IsAdmin
      <4>3. QED
        BY <2>3, <4>1, <4>2 DEF IInv, AdminSessionsArePaired, AdminSession
    <3>3. QED
      BY <3>1, <3>2
  <2>7. QED
    BY <1>0, <1>7, <2>5, <2>6 DEF PairVerifyTwo, IInv
<1>8. ASSUME NEW k \in Conns, NEW c \in Clients, NEW perms \in Perms,
             AddPairing(k, c, perms)
      PROVE  IInv'
  <2>1. state' \in States /\ AdminSessionsArePaired' /\ persist_jobs' \in Nat
    BY <1>8, PairKeeps DEF AddPairing
  <2>2. TypeOK'
    BY <1>8, <2>1 DEF AddPairing, IInv, TypeOK
  <2>3. QED
    BY <1>0, <1>8, <2>1, <2>2 DEF AddPairing, IInv
<1>9. ASSUME NEW k \in Conns, NEW c \in Clients, AddPairingRaises(k, c)
      PROVE  IInv'
  <2>1. state' \in States /\ AdminSessionsArePaired'
    BY <1>9, PairRaisesKeeps DEF AddPairingRaises
  <2>2. TypeOK'
    BY <1>9, <2>1 DEF AddPairingRaises, IInv, TypeOK
  <2>3. QED
    BY <1>0, <1>9, <2>1, <2>2 DEF AddPairingRaises, IInv
<1>10. ASSUME NEW k \in Conns, NEW c \in Clients, RemovePairing(k, c)
       PROVE  IInv'
  <2>1. state' \in States /\ AdminSessionsArePaired' /\ persist_jobs' \in Nat
    BY <1>10, UnpairKeeps DEF RemovePairing
  <2>2. finish_jobs' \in Nat
    BY <1>10 DEF RemovePairing, PairingChanged, IInv, TypeOK
  <2>3. TypeOK'
    BY <1>10, <2>1, <2>2 DEF RemovePairing, IInv, TypeOK
  <2>4. QED
    BY <1>0, <1>10, <2>1, <2>3 DEF RemovePairing, IInv
<1>11. ASSUME Background
       PROVE  IInv'
  <2>1. UNCHANGED <<state, srp_verifier, srp_key, challenged, owner, enc_context, client_uuid>>
    BY <1>11 DEF Background, FinishPair, AsyncUpdateAdvertisement, UpdateService, PersistDone
  <2>2. AdminSessionsArePaired'
    BY <2>1 DEF IInv, AdminSessionsArePaired, AdminSession
  <2>3. /\ finish_jobs' \in Nat /\ updates' \in Nat /\ persist_jobs' \in Nat
        /\ publishing' \in Seq(BOOLEAN) /\ advertised' \in BOOLEAN
    <3>1. CASE FinishPair
      BY <3>1 DEF FinishPair, IInv, TypeOK
    <3>2. CASE AsyncUpdateAdvertisement
      BY <3>2 DEF AsyncUpdateAdvertisement, IInv, TypeOK, IsPaired
    <3>3. CASE UpdateService
      BY <3>3 DEF UpdateService, IInv, TypeOK
    <3>4. CASE PersistDone
      BY <3>4 DEF PersistDone, IInv, TypeOK
    <3>5. QED
      BY <1>11, <3>1, <3>2, <3>3, <3>4 DEF Background
  <2>4. TypeOK'
    BY <2>1, <2>3 DEF IInv, TypeOK
  <2>5. QED
    BY <1>0, <2>1, <2>2, <2>4 DEF IInv
<1>12. CASE UNCHANGED vars
  BY <1>12 DEF vars, IInv, TypeOK, KeyOfPinHolder, MayShareK, AdminSessionsArePaired, AdminSession
<1>13. QED
  BY <1>1, <1>2, <1>3, <1>4, <1>5, <1>6, <1>7, <1>8, <1>9, <1>10, <1>11, <1>12
     DEF Next, Request

(* Every reachable state satisfies the invariant. *)
THEOREM SpecIInv == Spec => []IInv
BY InitIInv, NextIInv, PTL DEF Spec
-----------------------------------------------------------------------------
(* The variables have their types. *)
THEOREM TypeCorrect == Spec => []TypeOK
<1>1. IInv => TypeOK
  BY DEF IInv
<1>2. QED
  BY <1>1, SpecIInv, PTL

(* When nobody is paired any more, no open session can administer. *)
THEOREM UnpairedEnds == Spec => []UnpairedEndsAdministration
<1>1. IInv => UnpairedEndsAdministration
  BY AdministersAsAdmin DEF UnpairedEndsAdministration, MemberAdmins, IsPaired
<1>2. QED
  BY <1>1, SpecIInv, PTL

-----------------------------------------------------------------------------
(* A step leaves paired clients and permissions alone, or is a pair-setup,  *)
(* an addition or a removal.                                                *)
LEMMA StateStep ==
  ASSUME IInv, [Next]_vars
  PROVE  \/ state'.paired = state.paired /\ state'.props = state.props
         \/ \E k \in Conns : PairSetupThree(k)
         \/ \E k \in Conns, c \in Clients, perms \in Perms : AddPairing(k, c, perms)
         \/ \E k \in Conns, c \in Clients : AddPairingRaises(k, c)
         \/ \E k \in Conns, c \in Clients : RemovePairing(k, c)
<1> DEFINE Same == state'.paired = state.paired /\ state'.props = state.props
<1>1. ASSUME NEW k \in Conns, PairVerifyTwo(k) PROVE Same
  BY <1>1 DEF PairVerifyTwo, RememberBytes
<1>2. ASSUME NEW k \in Conns, NEW c \in Clients, ConnectionMade(k, c) PROVE Same
  BY <1>2 DEF ConnectionMade
<1>3. ASSUME NEW k \in Conns,
             ConnectionLost(k) \/ PairSetupOne(k) \/ PairSetupTwo(k) \/ PairVerifyOne(k)
      PROVE  Same
  BY <1>3 DEF ConnectionLost, PairSetupOne, PairSetupTwo, PairVerifyOne
<1>4. ASSUME Background PROVE Same
  BY <1>4 DEF Background, FinishPair, AsyncUpdateAdvertisement, UpdateService, PersistDone
<1>5. ASSUME UNCHANGED vars PROVE Same
  BY <1>5 DEF vars
<1>6. QED
  BY <1>1, <1>2, <1>3, <1>4, <1>5 DEF Next, Request

(* What pair-setup does: the one controller that ran it is paired, as an    *)
(* admin.                                                                   *)
LEMMA SetupStep ==
  ASSUME IInv, NEW k \in Conns, PairSetupThree(k)
  PROVE  /\ ~IsPaired(state)
         /\ owner[k] \in Clients /\ owner[k] \in MayShareK
         /\ state'.paired = {owner[k]} /\ MemberAdmins(state') = {owner[k]}
<1>1. state \in States /\ state.paired = {}
  BY DEF PairSetupThree, IsPaired, IInv, TypeOK
<1>2. owner[k] \in Clients /\ owner[k] \in MayShareK
  BY OwnerIsClient DEF PairSetupThree, IInv, KeyOfPinHolder
<1>3. state' = AddPairedClient(state, owner[k], "admin")
  BY DEF PairSetupThree, Pair
<1>4. MemberAdmins(state) = {}
  BY <1>1 DEF MemberAdmins
<1>5. MemberAdmins(state') = MemberAdmins(state) \cup {owner[k]}
  BY <1>1, <1>2, <1>3, AddMemberAdmins DEF Perms
<1>6. state'.paired = {owner[k]}
  BY <1>1, <1>3 DEF AddPairedClient
<1>7. QED
  BY <1>2, <1>4, <1>5, <1>6 DEF PairSetupThree

(* What a removal leaves, in terms of the paired clients and their admins. *)
LEMMA RemovalStep ==
  ASSUME IInv, NEW k \in Conns, NEW c \in Clients, RemovePairing(k, c)
  PROVE  /\ MemberAdmins(state) # {} /\ c \in state.paired
         /\ state'.paired = IF MemberAdmins(state) \ {c} = {}
                            THEN {} ELSE state.paired \ {c}
         /\ MemberAdmins(state') = MemberAdmins(state) \ {c}
<1>1. state \in States /\ MemberAdmins(state) # {} /\ c \in state.paired
  BY AdministersAsAdmin DEF RemovePairing, IInv, TypeOK
<1>2. state' = RemovePairedClient(state, c)
  BY DEF RemovePairing, Unpair
<1>3. QED
  BY <1>1, <1>2, RemoveMembers

(* No step makes the dictionaries disagree about a client they agreed on,   *)
(* unless it adds that client with permissions that cannot be read.         *)
THEOREM AgreementKept == Spec => AgreementIsKept
<1> DEFINE Kept == Disagreement(state') \subseteq
                     Disagreement(state) \cup (state'.paired \ state.paired)
<1>1. ASSUME IInv, [Next]_vars PROVE Kept
  <2>1. state \in States
    BY <1>1 DEF IInv, TypeOK
  <2>2. CASE state'.paired = state.paired /\ state'.props = state.props
    BY <2>2 DEF Disagreement, PropsKeys
  <2>3. ASSUME NEW k \in Conns, PairSetupThree(k) PROVE Kept
    BY <1>1, <2>1, <2>3, OwnerIsClient, AddAgreement DEF PairSetupThree, Pair, Perms
  <2>4. ASSUME NEW k \in Conns, NEW c \in Clients, NEW perms \in Perms,
               AddPairing(k, c, perms)
        PROVE  Kept
    BY <2>1, <2>4, AddAgreement DEF AddPairing, Pair
  <2>5. ASSUME NEW k \in Conns, NEW c \in Clients, AddPairingRaises(k, c)
        PROVE  Kept
    BY <2>1, <2>5, AddUntilPermsAgreement DEF AddPairingRaises
  <2>6. ASSUME NEW k \in Conns, NEW c \in Clients, RemovePairing(k, c)
        PROVE  Kept
    BY <2>1, <2>6, RemoveAgreement DEF RemovePairing, Unpair
  <2>7. QED
    BY <1>1, <2>2, <2>3, <2>4, <2>5, <2>6, StateStep
<1>2. IInv /\ [Next]_vars => [Kept]_vars
  BY <1>1
<1>3. QED
  BY <1>2, SpecIInv, PTL DEF Spec, AgreementIsKept

(* Pairings are changed by a controller that shares the verifier's K while  *)
(* nobody is paired - one that knows the setup code, if the A was computed  *)
(* as SRP prescribes - or while the session of an admin is open.            *)
THEOREM ChangedByAdminOrSetupHolds == Spec => ChangedByAdminOrSetup
<1> DEFINE Allowed ==
      \/ state'.paired = state.paired /\ state'.props = state.props
      \/ /\ ~IsPaired(state)
         /\ \E c \in MayShareK : state'.paired = {c} /\ MemberAdmins(state') = {c}
      \/ \E k \in Conns : AdminSession(k)
<1>1. ASSUME IInv, [Next]_vars PROVE Allowed
  <2>1. ASSUME NEW k \in Conns, PairSetupThree(k) PROVE Allowed
    BY <1>1, <2>1, SetupStep
  <2>2. ASSUME NEW k \in Conns, CanAdminister(k) PROVE Allowed
    BY <1>1, <2>2, AdministersAsAdmin
  <2>3. QED
    BY <1>1, <2>1, <2>2, StateStep DEF AddPairing, AddPairingRaises, RemovePairing
<1>2. IInv /\ [Next]_vars => [Allowed]_vars
  BY <1>1
<1>3. QED
  BY <1>2, SpecIInv, PTL DEF Spec, ChangedByAdminOrSetup

(* A removal leaves an admin among those that stay, or nobody. *)
THEOREM RemovalKeepsAnAdminHolds == Spec => RemovalKeepsAnAdmin
<1> DEFINE Kept ==
      state'.paired \subseteq state.paired /\ state'.paired # state.paired
        => (IsPaired(state') => \E c \in state'.paired : IsAdmin(state', c))
<1>1. ASSUME IInv, [Next]_vars PROVE Kept
  <2>1. ASSUME NEW k \in Conns, PairSetupThree(k) PROVE Kept
    BY <1>1, <2>1, SetupStep DEF IsPaired
  <2>2. ASSUME NEW k \in Conns, NEW c \in Clients, NEW perms \in Perms,
               AddPairing(k, c, perms) \/ AddPairingRaises(k, c)
        PROVE  Kept
    <3>1. state'.paired = state.paired \cup {c}
      BY <2>2 DEF AddPairing, Pair, AddPairedClient, AddPairingRaises, AddUntilPerms
    <3>2. QED
      BY <3>1
  <2>3. ASSUME NEW k \in Conns, NEW c \in Clients, RemovePairing(k, c) PROVE Kept
    BY <1>1, <2>3, RemovalStep DEF IsPaired, MemberAdmins, Admins
  <2>4. "user" \in Perms
    BY DEF Perms
  <2>5. QED
    BY <1>1, <2>1, <2>2, <2>3, <2>4, StateStep
<1>2. IInv /\ [Next]_vars => [Kept]_vars
  BY <1>1
<1>3. QED
  BY <1>2, SpecIInv, PTL DEF Spec, RemovalKeepsAnAdmin

-----------------------------------------------------------------------------
(* The handlers implement the register: the paired clients are its members, *)
(* those with the admin bit its admins, who may share the verifier's K is   *)
(* let in, and every request opens it, enrols, revokes, or leaves it as it  *)
(* is.                                                                      *)
THEOREM ImplementsRegistry == Spec => RegistrySpec
<1>1. Init => Registry!Init
  BY DEF Init, RestoredStates, States, MemberAdmins, Registry!Init
<1>2. ASSUME IInv, [Next]_vars
      PROVE  [Registry!Next]_(Registry!vars)
  <2>1. state \in States
    BY <1>2 DEF IInv, TypeOK
  <2>2. CASE state'.paired = state.paired /\ state'.props = state.props
    BY <2>2 DEF MemberAdmins, Admins, IsAdmin, Registry!vars
  <2>3. ASSUME NEW k \in Conns, PairSetupThree(k)
        PROVE  Registry!Next
    <3>1. Registry!Open(owner[k])
      BY <1>2, <2>3, SetupStep DEF Registry!Open, IsPaired
    <3>2. QED
      BY <1>2, <2>3, <3>1, SetupStep DEF Registry!Next
  <2>4. ASSUME NEW k \in Conns, NEW c \in Clients, NEW perms \in Perms,
               AddPairing(k, c, perms)
        PROVE  Registry!Next
    <3>1. MemberAdmins(state) # {}
      BY <1>2, <2>4, AdministersAsAdmin DEF AddPairing
    <3>2. state' = AddPairedClient(state, c, perms)
      BY <2>4 DEF AddPairing, Pair
    <3>3. state'.paired = state.paired \cup {c}
      BY <3>2 DEF AddPairedClient
    <3>4. MemberAdmins(state') \in {MemberAdmins(state) \cup {c}, MemberAdmins(state) \ {c}}
      BY <2>1, <3>2, AddMemberAdmins
    <3>5. QED
      BY <3>1, <3>3, <3>4 DEF Registry!Next, Registry!Enrol
  <2>5. ASSUME NEW k \in Conns, NEW c \in Clients, AddPairingRaises(k, c)
        PROVE  Registry!Next
    <3>1. MemberAdmins(state) # {}
      BY <1>2, <2>5, AdministersAsAdmin DEF AddPairingRaises
    <3>2. state' = AddUntilPerms(state, c)
      BY <2>5 DEF AddPairingRaises
    <3>3. state'.paired = state.paired \cup {c}
      BY <3>2 DEF AddUntilPerms
    <3>4. MemberAdmins(state') \in {MemberAdmins(state) \cup {c}, MemberAdmins(state) \ {c}}
      BY <2>1, <3>2, AddUntilPermsMemberAdmins
    <3>5. QED
      BY <3>1, <3>3, <3>4 DEF Registry!Next, Registry!Enrol
  <2>6. ASSUME NEW k \in Conns, NEW c \in Clients, RemovePairing(k, c)
        PROVE  Registry!Next
    BY <1>2, <2>6, RemovalStep DEF Registry!Next, Registry!Revoke
  <2>7. QED
    BY <1>2, <2>2, <2>3, <2>4, <2>5, <2>6, StateStep
<1>3. QED
  BY <1>1, <1>2, SpecIInv, PTL DEF Spec, RegistrySpec, Registry!Spec
=============================================================================
