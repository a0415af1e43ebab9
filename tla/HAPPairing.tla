----------------------------- MODULE HAPPairing -----------------------------
(***************************************************************************)
(* Pairing, pair-verify and pairing administration of a HAP accessory:     *)
(* the handlers of pyhap/hap_handler.py over the connections of            *)
(* pyhap/hap_protocol.py, what they do to the driver                       *)
(* (pyhap/accessory_driver.py) and to the state (HAPState), up to the      *)
(* advertisement that tells the network whether the accessory is paired.   *)
(*                                                                         *)
(* A request is handled in one step: dispatch, the handler, sending the    *)
(* response and what _process_response does after it run in one callback   *)
(* of the event loop, so nothing else of the loop runs in between.         *)
(* Requests that are refused (an error response, a 401 or a 500) change    *)
(* nothing here and are the stuttering steps of Spec.                      *)
(*                                                                         *)
(* Cryptography is modelled by who ends up sharing which key, as far as the *)
(* protocol says so: for an A that a controller computed as SRP prescribes. *)
(* set_A takes any other A as well, and nothing is assumed then.            *)
(***************************************************************************)
EXTENDS HAPState, Naturals, Sequences

CONSTANTS
  PinHolders,  \* the controllers that were given the setup code
  Conns,       \* connections (peer addresses) that can be open at a time
  NoClient,    \* None where a client UUID or a connection's peer is expected
  SafeMode,    \* driver.safe_mode
  MaxJobs,     \* bound: finish_pair jobs in the thread pool, loop callbacks,
               \*        and updates on their way to the network
  MaxPersist   \* bound: persist jobs in the thread pool

ASSUME PinHoldersAssumption == PinHolders \subseteq Clients
ASSUME NoClientAssumption   == NoClient \notin Clients
ASSUME SafeModeAssumption   == SafeMode \in BOOLEAN
ASSUME BoundsAssumption     == MaxJobs \in Nat \ {0} /\ MaxPersist \in Nat \ {0}

NoVerifier == "no verifier"  \* driver.srp_verifier is None
Prescribed == "prescribed"   \* no A yet, or one computed as SRP prescribes
Unchecked  == "unchecked"    \* any other A, which set_A does not refuse
Verifiers  == {NoVerifier, Prescribed, Unchecked}

Peer == Clients \cup {NoClient}

VARIABLES
  state,        \* driver.state
  srp_verifier, \* driver.srp_verifier, by the A its K comes from
  srp_key,      \* the controllers that share its K
  challenged,   \* the controllers that were sent its challenge
  owner,        \* the controller at the other end of each connection
  enc_context,  \* the connections between pair-verify M1 and M3
  client_uuid,  \* handler.client_uuid; set together with is_encrypted
  finish_jobs,  \* finish_pair jobs in the thread pool
  updates,      \* async_update_advertisement callbacks in the loop
  publishing,   \* service infos of the async_update_service tasks, by start
  advertised,   \* whether the service info on the network says "paired"
  persist_jobs  \* persist jobs in the thread pool (their steps: HAPPersist)

connVars   == <<owner, enc_context, client_uuid>>
setupVars  == <<srp_verifier, srp_key, challenged>>
advertVars == <<finish_jobs, updates, publishing, advertised>>
vars == <<state, srp_verifier, srp_key, challenged, owner, enc_context, client_uuid,
          finish_jobs, updates, publishing, advertised, persist_jobs>>

(* What add_accessory may have loaded: nothing, or any complete file.  The  *)
(* three dictionaries are read as they are, so that they need not agree: a  *)
(* snapshot may have been torn (HAPPersist), uuid_to_bytes keeps entries of *)
(* clients that went with the last admin, or was not written at all.        *)
RestoredStates == States

Init ==
  /\ state \in RestoredStates
  /\ srp_verifier = NoVerifier
  /\ srp_key = {}
  /\ challenged = {}
  /\ owner = [k \in Conns |-> NoClient]
  /\ enc_context = {}
  /\ client_uuid = [k \in Conns |-> NoClient]
  /\ finish_jobs = 0
  /\ updates = 0
  /\ publishing = <<>>
  /\ advertised = IsPaired(state)
  /\ persist_jobs = 0
-----------------------------------------------------------------------------
(* Connections. *)

ConnectionMade(k, c) ==
  /\ owner[k] = NoClient
  /\ owner' = [owner EXCEPT ![k] = c]
  /\ UNCHANGED <<state, setupVars, enc_context, client_uuid, advertVars, persist_jobs>>

(* The handler goes with its connection; the verifier is the driver's and   *)
(* stays, and so does what its challenge was sent to.                       *)
ConnectionLost(k) ==
  /\ owner[k] # NoClient
  /\ owner' = [owner EXCEPT ![k] = NoClient]
  /\ enc_context' = enc_context \ {k}
  /\ client_uuid' = [client_uuid EXCEPT ![k] = NoClient]
  /\ UNCHANGED <<state, setupVars, advertVars, persist_jobs>>
-----------------------------------------------------------------------------
(* What the driver does for a handler: the change is in memory when the     *)
(* handler returns, the file and the advertisement follow later.            *)

AsyncPersist ==
  /\ persist_jobs < MaxPersist
  /\ persist_jobs' = persist_jobs + 1

(* remove_paired_client raises KeyError: c has no entry in client_properties. *)
Raises(c) == state.props[c] = Absent

Pair(c, perms) ==
  /\ state' = AddPairedClient(state, c, perms)
  /\ AsyncPersist

(* A KeyError of remove_paired_client leaves the handler before the persist *)
(* and before pairing_changed is looked at.                                 *)
Unpair(c) ==
  /\ state' = RemovePairedClient(state, c)
  /\ IF Raises(c) THEN UNCHANGED persist_jobs ELSE AsyncPersist

(* response.pairing_changed: finish_pair goes to the thread pool. *)
PairingChanged ==
  /\ finish_jobs < MaxJobs
  /\ finish_jobs' = finish_jobs + 1
-----------------------------------------------------------------------------
(* Pair-setup.  The driver has one SRP verifier for all connections.        *)

(* M1: a new verifier replaces the one another connection may be using. *)
PairSetupOne(k) ==
  /\ owner[k] # NoClient
  /\ ~IsPaired(state)
  /\ srp_verifier' = Prescribed
  /\ srp_key' = {}
  /\ challenged' = {owner[k]}
  /\ UNCHANGED <<state, connVars, advertVars, persist_jobs>>

(* M3: set_A derives K before the proof is looked at, and K stays when the  *)
(* proof is wrong.  With the A that SRP prescribes the controller shares K  *)
(* if it knows the setup code and answers the current challenge, and nobody *)
(* else does.  Any other A is taken too, whoever shares the K it leads to.  *)
PairSetupTwo(k) ==
  /\ owner[k] # NoClient
  /\ ~IsPaired(state)
  /\ srp_verifier # NoVerifier
  /\ \/ /\ srp_verifier' = Prescribed
        /\ srp_key' = {owner[k]} \cap PinHolders \cap challenged
     \/ /\ srp_verifier' = Unchecked
        /\ srp_key' \in SUBSET Clients
  /\ UNCHANGED <<state, challenged, connVars, advertVars, persist_jobs>>

(* Mistake: M5 does not look at whether somebody is paired by now. *)
PairSetupThreeWhenever(k) ==
  /\ owner[k] # NoClient
  /\ owner[k] \in srp_key
  /\ Pair(owner[k], "admin")
  /\ PairingChanged
  /\ UNCHANGED <<setupVars, connVars, updates, publishing, advertised>>

(* M5: who shares K can encrypt the message, on any connection and whether  *)
(* or not the proof of an M3 was right; the rest of steps three, four and   *)
(* five then pairs that controller as an admin.                             *)
PairSetupThree(k) ==
  /\ owner[k] # NoClient
  /\ ~IsPaired(state)
  /\ owner[k] \in srp_key
  /\ Pair(owner[k], "admin")
  /\ PairingChanged
  /\ UNCHANGED <<setupVars, connVars, updates, publishing, advertised>>
-----------------------------------------------------------------------------
(* Pair-verify. *)

PairVerifyOne(k) ==
  /\ owner[k] # NoClient
  /\ IsPaired(state)
  /\ enc_context' = enc_context \cup {k}
  /\ UNCHANGED <<state, setupVars, owner, client_uuid, advertVars, persist_jobs>>

(* M3 with the proof of a paired client: the connection becomes that        *)
(* client's session.  The bytes of its username are remembered when the     *)
(* state was loaded from a file without them.                               *)
PairVerifyTwo(k) ==
  /\ k \in enc_context
  /\ owner[k] \in state.paired
  /\ \/ /\ owner[k] \in state.bytes
        /\ UNCHANGED <<state, persist_jobs>>
     \/ /\ owner[k] \notin state.bytes
        /\ state' = RememberBytes(state, owner[k])
        /\ AsyncPersist
  /\ client_uuid' = [client_uuid EXCEPT ![k] = owner[k]]
  /\ enc_context' = enc_context \ {k}
  /\ UNCHANGED <<owner, setupVars, advertVars>>
-----------------------------------------------------------------------------
(* /pairings. *)

(* Mistake: a verified session may administer. *)
VerifiedSession(k) == client_uuid[k] # NoClient

(* Mistake: the session of any paired client may administer. *)
PairedSession(k) == client_uuid[k] \in state.paired

(* The permission is looked up at every request: client_uuid says who       *)
(* verified this connection, is_admin what that client may do by now.       *)
CanAdminister(k) ==
  /\ client_uuid[k] # NoClient
  /\ IsAdmin(state, client_uuid[k])

AddPairing(k, c, perms) ==
  /\ CanAdminister(k)
  /\ Pair(c, perms)
  /\ UNCHANGED <<setupVars, connVars, advertVars>>

(* With permissions that are not one byte the handler fails halfway. *)
AddPairingRaises(k, c) ==
  /\ CanAdminister(k)
  /\ state' = AddUntilPerms(state, c)
  /\ UNCHANGED <<setupVars, connVars, advertVars, persist_jobs>>

(* Mistake: announced when the last client was removed, and not when the    *)
(* others went with the last admin.                                         *)
RemovePairingOfLast(k, c) ==
  /\ CanAdminister(k)
  /\ c \in state.paired
  /\ Unpair(c)
  /\ IF state.paired # {c} \/ Raises(c) THEN UNCHANGED finish_jobs ELSE PairingChanged
  /\ UNCHANGED <<setupVars, connVars, updates, publishing, advertised>>

(* The advertisement is only touched when nobody is left.  The sessions of  *)
(* the clients that were removed stay open.                                 *)
RemovePairing(k, c) ==
  /\ CanAdminister(k)
  /\ c \in state.paired
  /\ Unpair(c)
  /\ IF IsPaired(state') \/ Raises(c) THEN UNCHANGED finish_jobs ELSE PairingChanged
  /\ UNCHANGED <<setupVars, connVars, updates, publishing, advertised>>
-----------------------------------------------------------------------------
(* The thread pool, the loop and the advertisement. *)

(* In a thread of the pool: update_advertisement is call_soon_threadsafe. *)
FinishPair ==
  /\ finish_jobs > 0
  /\ finish_jobs' = finish_jobs - 1
  /\ updates < MaxJobs
  /\ updates' = IF SafeMode THEN updates ELSE updates + 1
  /\ UNCHANGED <<state, setupVars, connVars, publishing, advertised, persist_jobs>>

(* The service info is built now, from the state as it is now. *)
AsyncUpdateAdvertisement ==
  /\ updates > 0
  /\ updates' = updates - 1
  /\ Len(publishing) < MaxJobs
  /\ publishing' = Append(publishing, IsPaired(state))
  /\ UNCHANGED <<state, setupVars, connVars, finish_jobs, advertised, persist_jobs>>

(* The tasks start in the order they were created in. *)
UpdateService ==
  /\ publishing # <<>>
  /\ advertised' = Head(publishing)
  /\ publishing' = Tail(publishing)
  /\ UNCHANGED <<state, setupVars, connVars, finish_jobs, updates, persist_jobs>>

(* A persist job ends; HAPPersist has its steps. *)
PersistDone ==
  /\ persist_jobs > 0
  /\ persist_jobs' = persist_jobs - 1
  /\ UNCHANGED <<state, setupVars, connVars, advertVars>>
-----------------------------------------------------------------------------
Request(k) ==
  \/ PairSetupOne(k) \/ PairSetupTwo(k) \/ PairSetupThree(k)
  \/ PairVerifyOne(k) \/ PairVerifyTwo(k)
  \/ \E c \in Clients : RemovePairing(k, c) \/ AddPairingRaises(k, c)
  \/ \E c \in Clients, perms \in Perms : AddPairing(k, c, perms)

Background ==
  FinishPair \/ AsyncUpdateAdvertisement \/ UpdateService \/ PersistDone

Next ==
  \/ \E k \in Conns, c \in Clients : ConnectionMade(k, c)
  \/ \E k \in Conns : ConnectionLost(k) \/ Request(k)
  \/ Background

Spec == Init /\ [][Next]_vars

(* The thread pool runs its jobs and the loop its callbacks; no request and *)
(* no connection is owed to anybody.                                        *)
FairSpec ==
  /\ Spec
  /\ WF_vars(FinishPair)
  /\ WF_vars(AsyncUpdateAdvertisement)
  /\ WF_vars(UpdateService)
  /\ WF_vars(PersistDone)
-----------------------------------------------------------------------------
TypeOK ==
  /\ state \in States
  /\ srp_verifier \in Verifiers
  /\ srp_key \subseteq Clients
  /\ challenged \subseteq Clients
  /\ owner \in [Conns -> Peer]
  /\ enc_context \subseteq Conns
  /\ client_uuid \in [Conns -> Peer]
  /\ finish_jobs \in Nat
  /\ updates \in Nat
  /\ publishing \in Seq(BOOLEAN)
  /\ advertised \in BOOLEAN
  /\ persist_jobs \in Nat

(* Whatever file was loaded, paired_clients and client_properties never     *)
(* come to disagree about a client they agreed on, except about one that is *)
(* being added when its permissions make the addition fail halfway: removals*)
(* and what goes with the last admin only ever repair (where they disagree, *)
(* the pop in remove_paired_client raises).                                 *)
AgreementIsKept ==
  [][ Disagreement(state') \subseteq
        Disagreement(state) \cup (state'.paired \ state.paired) ]_vars

(* Once nobody is paired, no session that is still open, whoever verified   *)
(* it and whatever it could do before, can change the pairings.             *)
UnpairedEndsAdministration ==
  ~IsPaired(state) => \A k \in Conns : ~CanAdminister(k)

(* An open session of a client that is an admin by what the state says now. *)
AdminSession(k) == client_uuid[k] \in Admins(state)

(* The paired clients that are admins. *)
MemberAdmins(s) == Admins(s) \cap s.paired

(* Who may share the verifier's K: a holder of the setup code, as long as   *)
(* the A it comes from is one that SRP prescribes.                          *)
MayShareK == IF srp_verifier = Unchecked THEN Clients ELSE PinHolders

(* Who is paired, and as what, changes only by one controller while nobody  *)
(* is paired, and then to that controller alone, or while some open session *)
(* is an admin's, by what the state says then and not by what it said when  *)
(* the session was verified.  The one controller knows the setup code if    *)
(* the last M3 had the A that SRP prescribes; hsrp.py refuses no other A,   *)
(* and of those nothing is claimed.                                         *)
ChangedByAdminOrSetup ==
  [][ \/ state'.paired = state.paired /\ state'.props = state.props
      \/ /\ ~IsPaired(state)
         /\ \E c \in MayShareK : state'.paired = {c} /\ MemberAdmins(state') = {c}
      \/ \E k \in Conns : AdminSession(k) ]_vars

(* A removal never leaves clients paired that nobody can remove again.      *)
RemovalKeepsAnAdmin ==
  [][ state'.paired \subseteq state.paired /\ state'.paired # state.paired
      => (IsPaired(state') => \E c \in state'.paired : IsAdmin(state', c)) ]_vars

(* Whatever the order in which pairings come and go, the network is told in *)
(* the end: the advertisement does not stay wrong about being paired.       *)
AdvertisementCatchesUp ==
  (advertised # IsPaired(state)) ~> (advertised = IsPaired(state))

(* The handlers keep the promise of the register of members and admins. *)
Registry == INSTANCE PairRegistry WITH
  members <- state.paired, admins <- MemberAdmins(state), letIn <- MayShareK
RegistrySpec == Registry!Spec
=============================================================================
