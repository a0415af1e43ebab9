--------------------------- MODULE HAPAccessories ---------------------------
(***************************************************************************)
(* The attribute database: the bridge and its accessories with their AIDs  *)
(* (accessory.py), their services and characteristics (service.py) with    *)
(* their IIDs (iid_manager.py), and how a request finds one of them.       *)
(*                                                                         *)
(* Services and characteristics are objects; only the type of a            *)
(* characteristic matters.  As the notes in the code ask, a service is     *)
(* added to one accessory, and a characteristic to a service before that.  *)
(* Adding a service to its accessory again is something the code meets     *)
(* (IIDManager.assign warns of it) and so is in the model.                 *)
(*                                                                         *)
(* A characteristic keeps the representation it was last listed with, its  *)
(* IID included (characteristic.py); of that cache only the IID is here,   *)
(* and HAPCharacteristic has the rest.                                     *)
(***************************************************************************)
EXTENDS Naturals, SequencesExt

CONSTANTS
  Bridge,       \* the top-level accessory
  Accessories,  \* the accessories that are to be bridged, none a bridge
  Info,         \* the AccessoryInformation service of each accessory
  Services,     \* services, those among them
  Chars,        \* characteristics
  TypeOf,       \* the type of each characteristic
  GivenAids,    \* AIDs that an accessory can be constructed with
  None,         \* no AID, no object, no IID
  NotCached,    \* no cached representation
  MaxIid,       \* bound: IIDs given by one IIDManager
  MaxListed     \* bound: services listed in an accessory

STANDALONE_AID == 1

All == {Bridge} \cup Accessories
Objects == Services \cup Chars

ASSUME AccessoriesAssumption ==
  /\ Bridge \notin Accessories
  /\ Services \cap Chars = {}
  /\ Info \in [All -> Services]
  /\ GivenAids \subseteq Nat
  /\ None \notin Nat \cup Objects \cup All
  /\ NotCached \notin Nat \cup {None}
  /\ MaxIid \in Nat /\ MaxListed \in Nat

VARIABLES
  aid,       \* Accessory.aid
  bridged,   \* Bridge.accessories: the accessories in their order
  listed,    \* Accessory.services
  chars,     \* Service.characteristics
  broker,    \* the accessory of an added service or characteristic
  counter,   \* IIDManager.counter, of each accessory
  iids,      \* IIDManager.iids: the IID of an object, None without one
  objs,      \* IIDManager.objs: the object of an IID, None without one
  cached     \* the IID in a characteristic's _to_hap_cache_with_value

vars == <<aid, bridged, listed, chars, broker, counter, iids, objs, cached>>
managers == <<counter, iids, objs>>

Iids == 1 .. MaxIid

\* Every variable has a value of its type.
TypeOK ==
  /\ aid \in [All -> GivenAids \cup {None} \cup Nat]
  /\ bridged \in Seq(Accessories)
  /\ listed \in [All -> Seq(Services)]
  /\ chars \in [Services -> Seq(Chars)]
  /\ broker \in [Objects -> All \cup {None}]
  /\ counter \in [All -> 0 .. MaxIid]
  /\ iids \in [All -> [Objects -> Iids \cup {None}]]
  /\ objs \in [All -> [Iids -> Objects \cup {None}]]
  /\ cached \in [Chars -> Iids \cup {None, NotCached}]

Constructed(acc) == listed[acc] # <<>>

----------------------------------------------------------------------------
(* IIDManager *)

\* Objects that have no IID get the next ones after last, in their order.
Assigned(m, last, order) ==
  LET new == {n \in DOMAIN order : m.iids[order[n]] = None}
      iid(n) == last + Cardinality({k \in new : k <= n})
  IN  [ counter |-> last + Cardinality(new),
        iids |-> [o \in Objects |-> IF \E n \in new : order[n] = o
                                   THEN iid(CHOOSE n \in new : order[n] = o)
                                   ELSE m.iids[o]],
        objs |-> [i \in Iids |-> IF \E n \in new : iid(n) = i
                                THEN order[CHOOSE n \in new : iid(n) = i]
                                ELSE m.objs[i]] ]

\* Mistake: the next IID is the number of objects and one.
AssignByCount(m, order) == Assigned(m, Cardinality({o \in Objects : m.iids[o] # None}), order)

\* assign, of one object after the other, with get_iid_for_obj: an object keeps
\* the IID it has.
Assign(m, order) == Assigned(m, m.counter, order)

Manager(acc) == [counter |-> counter[acc], iids |-> iids[acc], objs |-> objs[acc]]

Becomes(acc, m) ==
  /\ m.counter <= MaxIid
  /\ counter' = [counter EXCEPT ![acc] = m.counter]
  /\ iids' = [iids EXCEPT ![acc] = m.iids]
  /\ objs' = [objs EXCEPT ![acc] = m.objs]

\* remove_obj, remove_iid: both directions go, and the cache of the object is
\* not cleared.  (One that is unknown is reported and nothing changes.)
RemoveObj(acc, obj) ==
  /\ iids[acc][obj] # None
  /\ objs' = [objs EXCEPT ![acc][iids[acc][obj]] = None]
  /\ iids' = [iids EXCEPT ![acc][obj] = None]
  /\ UNCHANGED <<aid, bridged, listed, chars, broker, counter, cached>>

RemoveIid(acc, iid) ==
  /\ objs[acc][iid] # None
  /\ iids' = [iids EXCEPT ![acc][objs[acc][iid]] = None]
  /\ objs' = [objs EXCEPT ![acc][iid] = None]
  /\ UNCHANGED <<aid, bridged, listed, chars, broker, counter, cached>>

----------------------------------------------------------------------------
(* Services and accessories *)

\* add_service: the service, then its characteristics.
Added(acc, s) ==
  /\ Len(listed[acc]) < MaxListed
  /\ broker[s] \in {None, acc}
  /\ broker' = [o \in Objects |-> IF o = s \/ o \in ToSet(chars[s]) THEN acc ELSE broker[o]]
  /\ listed' = [listed EXCEPT ![acc] = Append(@, s)]
  /\ Becomes(acc, Assign(Manager(acc), <<s>> \o chars[s]))

AddService(acc, s) ==
  /\ Constructed(acc)
  /\ s \in ToSet(listed[acc]) \/ s \notin {Info[a] : a \in All}
  /\ Added(acc, s)
  /\ UNCHANGED <<aid, bridged, chars, cached>>

\* Accessory.__init__: the first service is AccessoryInformation.
Construct(acc, given) ==
  /\ ~Constructed(acc)
  /\ acc = Bridge => given = STANDALONE_AID
  /\ aid' = [aid EXCEPT ![acc] = given]
  /\ Added(acc, Info[acc])
  /\ UNCHANGED <<bridged, chars, cached>>

\* add_characteristic: one of each type.
AddCharacteristic(s, c) ==
  /\ broker[s] = None /\ \A t \in Services : c \notin ToSet(chars[t])
  /\ \A d \in ToSet(chars[s]) : TypeOf[d] # TypeOf[c]
  /\ chars' = [chars EXCEPT ![s] = Append(@, c)]
  /\ UNCHANGED <<aid, bridged, listed, broker, managers, cached>>

\* Mistake: the AIDs of the accessories are not looked at.
NextAidByCount == Len(bridged) + 2

\* The first AID that is free; 7 is avoided.
NextAid ==
  LET free(n) == n # 7 /\ \A i \in 1 .. Len(bridged) : aid[bridged[i]] # n
  IN  Min({n \in 2 .. Len(bridged) + 3 : free(n)})

\* Bridge.add_accessory.  An AID that is taken is refused (and a bridge is).
AddAccessory(acc) ==
  /\ Constructed(Bridge) /\ Constructed(acc)
  /\ IF aid[acc] = None THEN aid' = [aid EXCEPT ![acc] = NextAid]
     ELSE /\ aid[acc] # aid[Bridge]
          /\ \A i \in 1 .. Len(bridged) : aid[bridged[i]] # aid[acc]
          /\ UNCHANGED aid
  /\ bridged' = Append(bridged, acc)
  /\ UNCHANGED <<listed, chars, broker, managers, cached>>

----------------------------------------------------------------------------
(* What controllers see: GET /accessories (to_HAP), and the object that an  *)
(* AID and an IID lead to (get_characteristic, get_characteristics).        *)

Members(acc) == UNION {{s} \cup ToSet(chars[s]) : s \in ToSet(listed[acc])}

Represented == {Bridge} \cup ToSet(bridged)

Representation == UNION {{acc} \X Members(acc) : acc \in Represented}

\* A service asks for its IID each time, a characteristic when it is not cached.
ListedIid(obj) ==
  IF obj \in Chars /\ cached[obj] # NotCached THEN cached[obj] ELSE iids[broker[obj]][obj]

\* GET /accessories: what is listed stays in the caches of the characteristics.
GetAccessories ==
  /\ Constructed(Bridge)
  /\ cached' = [c \in Chars |-> IF \E acc \in Represented : c \in Members(acc)
                                THEN ListedIid(c) ELSE cached[c]]
  /\ UNCHANGED <<aid, bridged, listed, chars, broker, managers>>

\* The next value, name or properties clear the cache.  (A characteristic with
\* a getter callback is never cached: it is cleared right after each GET.)
ClearCache(c) ==
  /\ cached' = [cached EXCEPT ![c] = NotCached]
  /\ UNCHANGED <<aid, bridged, listed, chars, broker, managers>>

AccessoryOf(a) ==
  IF a = STANDALONE_AID THEN Bridge
  ELSE IF \E acc \in ToSet(bridged) : aid[acc] = a
       THEN bridged[Max({i \in 1 .. Len(bridged) : aid[bridged[i]] = a})]
  ELSE None

GetCharacteristic(a, i) ==
  IF AccessoryOf(a) = None THEN None ELSE objs[AccessoryOf(a)][i]

----------------------------------------------------------------------------
Init ==
  /\ aid = [acc \in All |-> None]
  /\ bridged = <<>>
  /\ listed = [acc \in All |-> <<>>]
  /\ chars = [s \in Services |-> <<>>]
  /\ broker = [o \in Objects |-> None]
  /\ counter = [acc \in All |-> 0]
  /\ iids = [acc \in All |-> [o \in Objects |-> None]]
  /\ objs = [acc \in All |-> [i \in Iids |-> None]]
  /\ cached = [c \in Chars |-> NotCached]

Next ==
  \/ \E acc \in All :
       \/ \E given \in GivenAids \cup {None} : Construct(acc, given)
       \/ \E s \in Services : AddService(acc, s)
       \/ \E o \in Objects : RemoveObj(acc, o)
       \/ \E i \in Iids : RemoveIid(acc, i)
  \/ \E s \in Services, c \in Chars : AddCharacteristic(s, c)
  \/ \E acc \in Accessories : AddAccessory(acc)
  \/ GetAccessories \/ \E c \in Chars : ClearCache(c)

Spec == Init /\ [][Next]_vars

----------------------------------------------------------------------------
(* Every service and characteristic that is listed in the database leads to  *)
(* itself by the AID and the IID it is listed with, as long as it has that    *)
(* IID, however accessories, services, removals and GET requests followed     *)
(* each other.  A characteristic that was removed from the IIDManager after   *)
(* it was cached is still listed under its old IID, also once it was added    *)
(* again with a new one; that IID then leads nowhere, never to another        *)
(* (accessory.py:155, :385, iid_manager.py:24, :59, characteristic.py:433).   *)
ListedIsFound ==
  \A entry \in Representation :
    LET obj == entry[2]
        iid == ListedIid(obj)
    IN  iid # None => GetCharacteristic(aid[entry[1]], iid)
                        = IF iids[broker[obj]][obj] = iid THEN obj ELSE None

(* Controllers remember what they found under an AID and an IID: neither is  *)
(* given to something else later on, not even when the first is gone         *)
(* (iid_manager.py:48, accessory.py:360).                                    *)
NeverReassigned ==
  [][ \A acc \in All :
        /\ aid[acc] # None => aid'[acc] = aid[acc]
        /\ \A i \in 1 .. counter[acc] : objs'[acc][i] \in {None, objs[acc][i]} ]_vars
=============================================================================
