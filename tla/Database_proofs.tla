-------------------------- MODULE Database_proofs --------------------------
(***************************************************************************)
(* Proofs of what the database run checks, for any accessories, services,  *)
(* characteristics, threads, peers and batches.                            *)
(***************************************************************************)
EXTENDS Database, FiniteSetTheorems, SequenceTheorems, WellFoundedInduction, TLAPS

----------------------------------------------------------------------------
(* Least and greatest numbers *)

LEMMA HasMin ==
  ASSUME NEW S \in SUBSET Nat, S # {} PROVE \E m \in S : \A x \in S : m <= x
<1> DEFINE T == {1 .. x : x \in S}
<1>1. IsWellFoundedOn(StrictSubsetOrdering(Int), FiniteSubsetsOf(Int))
  BY FS_StrictSubsetOrderingWellFounded, Zenon
<1>2. T \subseteq FiniteSubsetsOf(Int) /\ T # {}
  <2>1. ASSUME NEW x \in S PROVE 1 .. x \in FiniteSubsetsOf(Int)
    <3>1. IsFiniteSet(1 .. x)
      BY FS_Interval
    <3> QED  BY <3>1 DEF FiniteSubsetsOf
  <2> QED  BY <2>1
<1>3. PICK t \in T : \A y \in T : ~ (<<y, t>> \in StrictSubsetOrdering(Int))
  <2> HIDE DEF T
  <2> QED  BY <1>1, <1>2, WFMin, Zenon
<1>4. PICK m \in S : t = 1 .. m
  BY <1>3
<1>5. ASSUME NEW x \in S, ~ (m <= x) PROVE FALSE
  <2>1. <<1 .. x, 1 .. m>> \notin StrictSubsetOrdering(Int)
    BY <1>3, <1>4
  <2>2. 1 .. x \subseteq 1 .. m /\ 1 .. m \in SUBSET Int /\ 1 .. x \in SUBSET Int
    BY <1>5
  <2>3. m \in 1 .. m /\ m \notin 1 .. x
    BY <1>5
  <2> QED  BY <2>1, <2>2, <2>3 DEF StrictSubsetOrdering
<1> QED  BY <1>5

LEMMA HasMax ==
  ASSUME NEW n \in Nat, NEW S \in SUBSET (1 .. n), S # {}
  PROVE  \E m \in S : \A x \in S : x <= m
<1> DEFINE T == {n - x : x \in S}
<1>1. T \in SUBSET Nat /\ T # {}
  <2>1. ASSUME NEW x \in S PROVE n - x \in Nat
    OBVIOUS
  <2> QED  BY <2>1
<1>2. PICK t \in T : \A y \in T : t <= y
  BY <1>1, HasMin
<1>3. PICK m \in S : t = n - m
  BY <1>2
<1>4. ASSUME NEW x \in S PROVE x <= m
  <2>1. n - x \in T
    OBVIOUS
  <2>2. n - m <= n - x
    BY <1>2, <1>3, <2>1
  <2> QED  BY <2>2
<1> QED  BY <1>4

LEMMA MaxIs ==
  ASSUME NEW S \in SUBSET Int, NEW m \in S, \A x \in S : x <= m
  PROVE  Max(S) = m /\ Value!Max(S) = m /\ Writes!Max(S) = m
<1>1. \A x \in S : (\A y \in S : x >= y) => x = m
  OBVIOUS
<1>2. \A y \in S : m >= y
  OBVIOUS
<1>3. (CHOOSE x \in S : \A y \in S : x >= y) = m
  BY <1>1, <1>2
<1> QED  BY <1>3, Zenon DEF Max, Value!Max, Writes!Max

LEMMA MinIs ==
  ASSUME NEW S \in SUBSET Int, NEW m \in S, \A x \in S : m <= x
  PROVE  Min(S) = m /\ Value!Min(S) = m
<1>1. \A x \in S : (\A y \in S : x <= y) => x = m
  OBVIOUS
<1>3. (CHOOSE x \in S : \A y \in S : x <= y) = m
  BY <1>1
<1> QED  BY <1>3, Zenon DEF Min, Value!Min

----------------------------------------------------------------------------
(* Identifiers of objects *)

(* A manager's two dictionaries are inverse, and have given what they hold. *)
Agree(last, iidOf, objOf) ==
  /\ \A o \in Objects : iidOf[o] # None => iidOf[o] <= last /\ objOf[iidOf[o]] = o
  /\ \A i \in Iids : objOf[i] # None => iidOf[objOf[i]] = i

Rank(new, n) == Cardinality({k \in new : k <= n})

LEMMA Ranks ==
  ASSUME NEW len \in Nat, NEW new \in SUBSET (1 .. len)
  PROVE  /\ Cardinality(new) \in Nat
         /\ \A n \in new : Rank(new, n) \in 1 .. Cardinality(new)
         /\ \A n, m \in new : Rank(new, n) = Rank(new, m) => n = m
<1>1. IsFiniteSet(1 .. len)
  BY FS_Interval
<1>2. IsFiniteSet(new)
  BY <1>1, FS_Subset
<1>3. Cardinality(new) \in Nat
  BY <1>2, FS_CardinalityType
<1>4. ASSUME NEW n \in new PROVE Rank(new, n) \in 1 .. Cardinality(new)
  <2> DEFINE upTo == {k \in new : k <= n}
  <2>1. upTo \in SUBSET new /\ upTo # {}
    OBVIOUS
  <2> HIDE DEF upTo
  <2>2. IsFiniteSet(upTo) /\ Cardinality(upTo) <= Cardinality(new)
    BY <1>2, <2>1, FS_Subset
  <2>3. Cardinality(upTo) \in Nat /\ Cardinality(upTo) # 0
    BY <2>1, <2>2, FS_CardinalityType, FS_EmptySet
  <2>4. Cardinality(upTo) \in 1 .. Cardinality(new)
    BY <1>3, <2>2, <2>3
  <2> QED  BY <2>4, Zenon DEF Rank, upTo
<1>5. ASSUME NEW n \in new, NEW m \in new, n < m, Rank(new, n) = Rank(new, m) PROVE FALSE
  <2> DEFINE S == {k \in new : k <= n}
             T == {k \in new : k <= m}
  <2>1. S \in SUBSET T /\ m \in T /\ m \notin S /\ T \in SUBSET new
    <3>1. n \in Int /\ m \in Int /\ \A k \in new : k \in Int
      OBVIOUS
    <3>2. \A k \in new : k <= n => k <= m
      BY <1>5, <3>1
    <3>3. m <= m /\ ~ (m <= n)
      BY <1>5, <3>1
    <3> QED  BY <3>2, <3>3
  <2>2. Cardinality(T) = Cardinality(S)
    BY <1>5, Zenon DEF Rank
  <2> HIDE DEF S, T
  <2>3. IsFiniteSet(T)
    BY <1>2, <2>1, FS_Subset
  <2>4. S = T
    BY <2>1, <2>2, <2>3, FS_Subset
  <2> QED  BY <2>1, <2>4
<1>6. ASSUME NEW n \in new, NEW m \in new, Rank(new, n) = Rank(new, m) PROVE n = m
  <2>1. n < m \/ m < n \/ n = m
    OBVIOUS
  <2> QED  BY <2>1, <1>5, <1>6
<1> QED  BY <1>3, <1>4, <1>6

(* assign gives objects that have no IID the next ones, and changes none. *)
LEMMA Assigning ==
  ASSUME NEW m0, NEW last \in Nat, Agree(last, m0.iids, m0.objs),
         m0.iids \in [Objects -> Iids \cup {None}], m0.objs \in [Iids -> Objects \cup {None}],
         NEW order \in Seq(Objects),
         \A n, m \in 1 .. Len(order) : order[n] = order[m] => n = m,
         Assigned(m0, last, order).counter <= MaxIid
  PROVE  /\ Assigned(m0, last, order).counter \in last .. MaxIid
         /\ Assigned(m0, last, order).iids \in [Objects -> Iids \cup {None}]
         /\ Assigned(m0, last, order).objs \in [Iids -> Objects \cup {None}]
         /\ Agree(Assigned(m0, last, order).counter, Assigned(m0, last, order).iids,
                  Assigned(m0, last, order).objs)
         /\ \A i \in 1 .. last : i \in Iids => Assigned(m0, last, order).objs[i] = m0.objs[i]
<1> DEFINE iidOf == m0.iids
           objOf == m0.objs
           new == {n \in DOMAIN order : iidOf[order[n]] = None}
           iid(n) == last + Rank(new, n)
           count == last + Cardinality(new)
           newIids == [o \in Objects |-> IF \E n \in new : order[n] = o
                                         THEN iid(CHOOSE n \in new : order[n] = o)
                                         ELSE iidOf[o]]
           newObjs == [i \in Iids |-> IF \E n \in new : iid(n) = i
                                      THEN order[CHOOSE n \in new : iid(n) = i]
                                      ELSE objOf[i]]
<1>1. /\ Assigned(m0, last, order).counter = count
      /\ Assigned(m0, last, order).iids = newIids
      /\ Assigned(m0, last, order).objs = newObjs
  BY DEF Assigned, Rank
<1>2. Len(order) \in Nat /\ DOMAIN order = 1 .. Len(order) /\ new \in SUBSET (1 .. Len(order))
  OBVIOUS
<1>3. /\ Cardinality(new) \in Nat
      /\ \A n \in new : Rank(new, n) \in 1 .. Cardinality(new)
      /\ \A n, m \in new : Rank(new, n) = Rank(new, m) => n = m
  <2> HIDE DEF new
  <2> QED  BY <1>2, Ranks
<1>4. \A n \in new : n \in 1 .. Len(order) /\ iidOf[order[n]] = None /\ order[n] \in Objects
  BY <1>2
<1> HIDE DEF new
<1>5. MaxIid \in Nat /\ None \notin Nat /\ None \notin Objects
  BY AccessoriesAssumption
<1>6. count \in last .. MaxIid
  BY <1>1, <1>3, <1>5
<1>7. ASSUME NEW n \in new PROVE iid(n) \in Iids /\ iid(n) > last /\ iid(n) <= count
  BY <1>3, <1>5, <1>6 DEF Iids
<1>8. ASSUME NEW n \in new, NEW m \in new, iid(n) = iid(m) PROVE n = m
  <2>1. Rank(new, n) = Rank(new, m)
    <3>1. Rank(new, n) \in Int /\ Rank(new, m) \in Int
      BY <1>3
    <3> QED  BY <3>1, <1>8
  <2> QED  BY <1>3, <2>1
<1>9. ASSUME NEW n \in new PROVE newIids[order[n]] = iid(n)
  <2>1. \A k \in new : order[k] = order[n] => k = n
    BY <1>4
  <2>2. (CHOOSE k \in new : order[k] = order[n]) = n
    BY <2>1
  <2> HIDE DEF iid
  <2>3. newIids[order[n]] = iid(CHOOSE k \in new : order[k] = order[n])
    BY <1>4
  <2> QED  BY <2>2, <2>3
<1>10. ASSUME NEW o \in Objects, ~ \E n \in new : order[n] = o PROVE newIids[o] = iidOf[o]
  BY <1>10
<1>11. ASSUME NEW n \in new PROVE newObjs[iid(n)] = order[n]
  <2> HIDE DEF iid
  <2>1. (CHOOSE k \in new : iid(k) = iid(n)) = n
    BY <1>8
  <2>2. newObjs[iid(n)] = order[CHOOSE k \in new : iid(k) = iid(n)]
    BY <1>7
  <2> QED  BY <2>1, <2>2
<1>12. ASSUME NEW i \in Iids, ~ \E n \in new : iid(n) = i PROVE newObjs[i] = objOf[i]
  BY <1>12
<1>13. newIids \in [Objects -> Iids \cup {None}]
  <2>1. ASSUME NEW o \in Objects PROVE newIids[o] \in Iids \cup {None}
    <3> HIDE DEF iid, newIids
    <3> QED  BY <1>7, <1>9, <1>10
  <2>2. newIids = [o \in Objects |-> newIids[o]]
    OBVIOUS
  <2> HIDE DEF newIids
  <2> QED  BY <2>1, <2>2
<1>14. newObjs \in [Iids -> Objects \cup {None}]
  <2>1. ASSUME NEW i \in Iids PROVE newObjs[i] \in Objects \cup {None}
    <3> HIDE DEF iid, newObjs
    <3> QED  BY <1>4, <1>11, <1>12
  <2>2. newObjs = [i \in Iids |-> newObjs[i]]
    OBVIOUS
  <2> HIDE DEF newObjs
  <2> QED  BY <2>1, <2>2
<1>15. ASSUME NEW i \in Iids, i <= last PROVE newObjs[i] = objOf[i]
  <2>1. ~ \E n \in new : iid(n) = i
    <3> HIDE DEF iid
    <3>1. ASSUME NEW n \in new, iid(n) = i PROVE FALSE
      <4>1. iid(n) > last /\ iid(n) \in Int
        BY <1>7 DEF Iids
      <4> QED  BY <3>1, <4>1, <1>15
    <3> QED  BY <3>1
  <2> QED  BY <1>12, <2>1
<1>16. Agree(count, newIids, newObjs)
  <2> HIDE DEF iid, newIids, newObjs, count
  <2>1. ASSUME NEW o \in Objects, newIids[o] # None
        PROVE  newIids[o] <= count /\ newObjs[newIids[o]] = o
    <3>1. CASE \E n \in new : order[n] = o
      BY <3>1, <1>7, <1>9, <1>11
    <3>2. CASE ~ \E n \in new : order[n] = o
      <4>1. newIids[o] = iidOf[o] /\ iidOf[o] # None /\ iidOf[o] \in Iids
        BY <1>10, <2>1, <3>2
      <4>2. iidOf[o] <= last /\ objOf[iidOf[o]] = o
        BY <4>1 DEF Agree
      <4>3. newObjs[iidOf[o]] = o
        BY <1>15, <4>1, <4>2
      <4>4. iidOf[o] <= count
        BY <1>6, <4>1, <4>2 DEF Iids
      <4> QED  BY <4>1, <4>3, <4>4
    <3> QED  BY <3>1, <3>2
  <2>2. ASSUME NEW i \in Iids, newObjs[i] # None
        PROVE  newIids[newObjs[i]] = i
    <3>1. CASE \E n \in new : iid(n) = i
      BY <3>1, <1>9, <1>11
    <3>2. CASE ~ \E n \in new : iid(n) = i
      <4>1. newObjs[i] = objOf[i] /\ objOf[i] # None /\ objOf[i] \in Objects
        BY <1>12, <2>2, <3>2
      <4>2. iidOf[objOf[i]] = i
        BY <4>1 DEF Agree
      <4>3. i # None
        BY <1>5 DEF Iids
      <4>4. ~ \E n \in new : order[n] = objOf[i]
        BY <1>4, <4>2, <4>3
      <4>5. newIids[objOf[i]] = i
        BY <1>10, <4>1, <4>2, <4>4
      <4> QED  BY <4>1, <4>5
    <3> QED  BY <3>1, <3>2
  <2> QED  BY <2>1, <2>2 DEF Agree
<1> HIDE DEF newIids, newObjs, count
<1> QED  BY <1>1, <1>6, <1>13, <1>14, <1>15, <1>16

----------------------------------------------------------------------------
(* Accessories *)

ManagersAgree == \A acc \in All : Agree(counter[acc], iids[acc], objs[acc])

(* What is listed in an accessory belongs to it, and what is in a service to  *)
(* the accessory of the service; a characteristic is in one service.         *)
ListedIsOwned ==
  \A acc \in All : \A n \in 1 .. Len(listed[acc]) : broker[listed[acc][n]] = acc

CharsAreOwned ==
  \A s \in Services : \A n \in 1 .. Len(chars[s]) : broker[chars[s][n]] = broker[s]

CharsApart ==
  \A s, t \in Services : \A n \in 1 .. Len(chars[s]), m \in 1 .. Len(chars[t]) :
    chars[s][n] = chars[t][m] => s = t /\ n = m

OwnedAreListed ==
  \A c \in Chars : broker[c] # None =>
    \E s \in Services : \E n \in 1 .. Len(chars[s]) : chars[s][n] = c

Owned == ListedIsOwned /\ CharsAreOwned /\ CharsApart /\ OwnedAreListed

(* Nobody has the AID of another. *)
AidsApart ==
  /\ \A acc \in All : ~Constructed(acc) => aid[acc] = None
  /\ Constructed(Bridge) => aid[Bridge] = STANDALONE_AID
  /\ bridged # <<>> => Constructed(Bridge)
  /\ \A n \in 1 .. Len(bridged) : aid[bridged[n]] \in Nat \ {STANDALONE_AID}
  /\ \A n, m \in 1 .. Len(bridged) : aid[bridged[n]] = aid[bridged[m]] => n = m

AccessoriesInv == TypeOK /\ ManagersAgree /\ Owned /\ AidsApart

(* What a step may not take away; NeverReassigned says this of every step. *)
IdentifiersKept ==
  \A acc \in All :
    /\ aid[acc] # None => aid'[acc] = aid[acc]
    /\ \A i \in 1 .. counter[acc] : objs'[acc][i] \in {None, objs[acc][i]}

(* Nor are IIDs given back, or objects to another accessory. *)
OwnersKept ==
  /\ \A acc \in All : counter[acc] <= counter'[acc]
  /\ \A o \in Objects : broker[o] # None => broker'[o] = broker[o]

Kept == IdentifiersKept /\ OwnersKept

LEMMA CountersAreNumbers ==
  ASSUME AccessoriesInv PROVE \A acc \in All : counter[acc] \in Nat /\ counter[acc] <= counter[acc]
<1>1. counter \in [All -> 0 .. MaxIid] /\ MaxIid \in Nat
  BY AccessoriesAssumption DEF AccessoriesInv, TypeOK
<1> QED  BY <1>1

LEMMA UntouchedAccessories ==
  ASSUME AccessoriesInv, UNCHANGED vars PROVE AccessoriesInv' /\ Kept
<1> USE DEF vars
<1>1. TypeOK'
  BY DEF AccessoriesInv, TypeOK
<1>2. ManagersAgree' /\ Owned' /\ AidsApart'
  BY DEF AccessoriesInv, ManagersAgree, Agree, Owned, ListedIsOwned, CharsAreOwned, CharsApart,
         OwnedAreListed, AidsApart, Constructed
<1>3. Kept
  BY CountersAreNumbers DEF Kept, IdentifiersKept, OwnersKept
<1> QED  BY <1>1, <1>2, <1>3 DEF AccessoriesInv

(* The service and its characteristics, in the order of their IIDs. *)
LEMMA OrderOfService ==
  ASSUME TypeOK, Owned, NEW s \in Services
  PROVE  /\ <<s>> \o chars[s] \in Seq(Objects)
         /\ \A n, m \in 1 .. Len(<<s>> \o chars[s]) :
              (<<s>> \o chars[s])[n] = (<<s>> \o chars[s])[m] => n = m
<1>1. chars[s] \in Seq(Chars) /\ Len(chars[s]) \in Nat
        /\ \A n \in 1 .. Len(chars[s]) : chars[s][n] \in Chars
  BY DEF TypeOK
<1>2. <<s>> \in Seq(Objects) /\ chars[s] \in Seq(Objects) /\ Len(<<s>>) = 1 /\ <<s>>[1] = s
  BY <1>1 DEF Objects
<1>3. /\ <<s>> \o chars[s] \in Seq(Objects)
      /\ Len(<<s>> \o chars[s]) = 1 + Len(chars[s])
      /\ \A n \in 1 .. 1 + Len(chars[s]) :
           (<<s>> \o chars[s])[n] = IF n <= 1 THEN <<s>>[n] ELSE chars[s][n - 1]
  <2> DEFINE t == <<s>>
  <2> HIDE DEF t
  <2>1. /\ t \o chars[s] \in Seq(Objects)
        /\ Len(t \o chars[s]) = Len(t) + Len(chars[s])
        /\ \A n \in 1 .. Len(t) + Len(chars[s]) :
             (t \o chars[s])[n] = IF n <= Len(t) THEN t[n] ELSE chars[s][n - Len(t)]
    <3>1. t \in Seq(Objects) /\ chars[s] \in Seq(Objects)
      BY <1>2 DEF t
    <3> QED  BY <3>1, ConcatProperties
  <2> QED  BY <1>2, <2>1 DEF t
<1>4. s \notin Chars
  BY AccessoriesAssumption
<1> DEFINE o == <<s>> \o chars[s]
<1>5. o[1] = s /\ \A n \in 2 .. 1 + Len(chars[s]) : o[n] = chars[s][n - 1] /\ o[n] \in Chars
  <2> HIDE DEF o
  <2>1. \A n \in 1 .. 1 + Len(chars[s]) : o[n] = IF n <= 1 THEN <<s>>[n] ELSE chars[s][n - 1]
    BY <1>3 DEF o
  <2>2. o[1] = s
    BY <1>1, <1>2, <2>1
  <2>3. ASSUME NEW n \in 2 .. 1 + Len(chars[s]) PROVE o[n] = chars[s][n - 1] /\ o[n] \in Chars
    BY <1>1, <2>1
  <2> QED  BY <2>2, <2>3
<1>6. ASSUME NEW n \in 1 .. 1 + Len(chars[s]), NEW m \in 1 .. 1 + Len(chars[s]), o[n] = o[m]
      PROVE  n = m
  <2> HIDE DEF o
  <2>1. CASE n = 1 \/ m = 1
    BY <1>1, <1>4, <1>5, <1>6, <2>1
  <2>2. CASE n # 1 /\ m # 1
    <3>1. n - 1 \in 1 .. Len(chars[s]) /\ m - 1 \in 1 .. Len(chars[s])
      BY <1>1, <2>2
    <3>2. chars[s][n - 1] = chars[s][m - 1]
      BY <1>1, <1>5, <1>6, <2>2
    <3>3. n - 1 = m - 1
      BY <3>1, <3>2, Zenon DEF Owned, CharsApart
    <3> QED  BY <3>3
  <2> QED  BY <2>1, <2>2
<1> QED  BY <1>3, <1>6

(* What an accessory's manager becomes agrees, and keeps what was given. *)
LEMMA ManagerBecomes ==
  ASSUME AccessoriesInv, NEW acc \in All, NEW s \in Services,
         Becomes(acc, Assign(Manager(acc), <<s>> \o chars[s]))
  PROVE  /\ counter' \in [All -> 0 .. MaxIid]
         /\ iids' \in [All -> [Objects -> Iids \cup {None}]]
         /\ objs' \in [All -> [Iids -> Objects \cup {None}]]
         /\ ManagersAgree'
         /\ \A a \in All : \A i \in 1 .. counter[a] : objs'[a][i] = objs[a][i]
         /\ \A a \in All : counter[a] <= counter'[a]
<1> DEFINE order == <<s>> \o chars[s]
           m == Assigned(Manager(acc), counter[acc], order)
<1>1. /\ counter \in [All -> 0 .. MaxIid]
      /\ iids \in [All -> [Objects -> Iids \cup {None}]]
      /\ objs \in [All -> [Iids -> Objects \cup {None}]]
      /\ MaxIid \in Nat
  BY AccessoriesAssumption DEF AccessoriesInv, TypeOK
<1>2. /\ m.counter <= MaxIid
      /\ counter' = [counter EXCEPT ![acc] = m.counter]
      /\ iids' = [iids EXCEPT ![acc] = m.iids]
      /\ objs' = [objs EXCEPT ![acc] = m.objs]
  BY DEF Becomes, Assign, Manager
<1>3. /\ order \in Seq(Objects)
      /\ \A n, k \in 1 .. Len(order) : order[n] = order[k] => n = k
  BY OrderOfService DEF AccessoriesInv
<1>4. Agree(counter[acc], iids[acc], objs[acc])
  BY DEF AccessoriesInv, ManagersAgree
<1>5. Manager(acc).iids = iids[acc] /\ Manager(acc).objs = objs[acc]
  BY DEF Manager
<1>6. /\ m.counter \in counter[acc] .. MaxIid
      /\ m.iids \in [Objects -> Iids \cup {None}]
      /\ m.objs \in [Iids -> Objects \cup {None}]
      /\ Agree(m.counter, m.iids, m.objs)
      /\ \A i \in 1 .. counter[acc] : i \in Iids => m.objs[i] = objs[acc][i]
  <2>1. /\ counter[acc] \in Nat
        /\ iids[acc] \in [Objects -> Iids \cup {None}]
        /\ objs[acc] \in [Iids -> Objects \cup {None}]
    BY <1>1
  <2>2. /\ Agree(counter[acc], Manager(acc).iids, Manager(acc).objs)
        /\ Manager(acc).iids \in [Objects -> Iids \cup {None}] /\ Manager(acc).objs \in [Iids -> Objects \cup {None}]
    BY <1>4, <1>5, <2>1
  <2>3. /\ m.counter \in counter[acc] .. MaxIid
        /\ m.iids \in [Objects -> Iids \cup {None}]
        /\ m.objs \in [Iids -> Objects \cup {None}]
        /\ Agree(m.counter, m.iids, m.objs)
        /\ \A i \in 1 .. counter[acc] : i \in Iids => m.objs[i] = Manager(acc).objs[i]
    <3> HIDE DEF order
    <3> QED  BY <1>2, <1>3, <2>1, <2>2, Assigning
  <2> QED  BY <1>5, <2>3
<1> HIDE DEF m
<1>7. ManagersAgree'
  <2>1. ASSUME NEW a \in All PROVE Agree(counter'[a], iids'[a], objs'[a])
    BY <1>1, <1>2, <1>6 DEF AccessoriesInv, ManagersAgree
  <2> QED  BY <2>1 DEF ManagersAgree, Agree
<1>8. counter[acc] \in 0 .. MaxIid /\ m.counter \in 0 .. MaxIid
  BY <1>1, <1>6
<1>9. ASSUME NEW a \in All, NEW i \in 1 .. counter[a] PROVE objs'[a][i] = objs[a][i]
  <2>1. i \in Iids
    BY <1>1 DEF Iids
  <2> QED  BY <1>1, <1>2, <1>6, <2>1
<1>10. counter' \in [All -> 0 .. MaxIid]
  BY <1>1, <1>2, <1>8
<1>11. iids' \in [All -> [Objects -> Iids \cup {None}]] /\ objs' \in [All -> [Iids -> Objects \cup {None}]]
  BY <1>1, <1>2, <1>6
<1>12. ASSUME NEW a \in All PROVE counter[a] <= counter'[a]
  <2>1. CASE a = acc
    BY <1>1, <1>2, <1>6, <2>1
  <2>2. CASE a # acc
    BY <1>1, <1>2, <2>2
  <2> QED  BY <2>1, <2>2
<1> QED  BY <1>7, <1>9, <1>10, <1>11, <1>12

LEMMA AddedKeeps ==
  ASSUME AccessoriesInv, NEW acc \in All, NEW s \in Services, Added(acc, s), UNCHANGED chars
  PROVE  /\ listed' \in [All -> Seq(Services)]
         /\ broker' \in [Objects -> All \cup {None}]
         /\ Owned'
         /\ listed'[acc] # <<>> /\ \A a \in All \ {acc} : listed'[a] = listed[a]
         /\ \A o \in Objects : broker[o] # None => broker'[o] = broker[o]
<1>1. /\ broker' = [o \in Objects |-> IF o = s \/ o \in ToSet(chars[s]) THEN acc ELSE broker[o]]
      /\ listed' = [listed EXCEPT ![acc] = Append(@, s)]
      /\ broker[s] \in {None, acc}
  BY DEF Added
<1>2. /\ listed \in [All -> Seq(Services)] /\ chars \in [Services -> Seq(Chars)]
      /\ broker \in [Objects -> All \cup {None}]
      /\ Services \subseteq Objects /\ Chars \subseteq Objects
      /\ Services \cap Chars = {} /\ None \notin All
  BY AccessoriesAssumption DEF AccessoriesInv, TypeOK, Objects
<1>3. ToSet(chars[s]) = {chars[s][n] : n \in 1 .. Len(chars[s])}
  BY <1>2 DEF ToSet
<1>4. /\ Append(listed[acc], s) \in Seq(Services)
      /\ Len(Append(listed[acc], s)) = Len(listed[acc]) + 1
      /\ Len(listed[acc]) \in Nat
      /\ \A n \in 1 .. Len(listed[acc]) : Append(listed[acc], s)[n] = listed[acc][n]
      /\ Append(listed[acc], s)[Len(listed[acc]) + 1] = s
      /\ Append(listed[acc], s) # <<>>
  <2>1. listed[acc] \in Seq(Services)
    BY <1>2
  <2> QED  BY <2>1, AppendProperties
<1>5. listed'[acc] = Append(listed[acc], s) /\ \A a \in All \ {acc} : listed'[a] = listed[a]
  BY <1>1, <1>2
<1>6. broker' \in [Objects -> All \cup {None}]
  BY <1>1, <1>2
<1>7. listed' \in [All -> Seq(Services)]
  BY <1>1, <1>2, <1>4
<1>8. ASSUME NEW t \in Services PROVE broker'[t] = IF t = s THEN acc ELSE broker[t]
  <2>1. t \notin ToSet(chars[s])
    BY <1>2, <1>3
  <2> QED  BY <1>1, <1>2, <2>1
<1>9. ASSUME NEW t \in Services, NEW n \in 1 .. Len(chars[t])
      PROVE  broker'[chars[t][n]] = IF t = s THEN acc ELSE broker[chars[t][n]]
  <2>1. chars[t][n] \in Chars /\ chars[t][n] # s /\ chars[t][n] \in Objects
    BY <1>2
  <2>2. CASE t = s
    BY <1>1, <1>3, <2>1, <2>2
  <2>3. CASE t # s
    <3>1. chars[t][n] \notin ToSet(chars[s])
      BY <1>3, <2>3 DEF AccessoriesInv, Owned, CharsApart
    <3> QED  BY <1>1, <2>1, <2>3, <3>1
  <2> QED  BY <2>2, <2>3
<1>10. ListedIsOwned'
  <2>1. ASSUME NEW a \in All, NEW n \in 1 .. Len(listed[a])
        PROVE  listed[a][n] \in Services /\ broker'[listed[a][n]] = a
    <3>1. listed[a][n] \in Services /\ broker[listed[a][n]] = a
      BY <1>2 DEF AccessoriesInv, Owned, ListedIsOwned
    <3>2. CASE listed[a][n] = s
      BY <1>1, <1>2, <1>8, <3>1, <3>2
    <3>3. CASE listed[a][n] # s
      BY <1>8, <3>1, <3>3
    <3> QED  BY <3>1, <3>2, <3>3
  <2>2. ASSUME NEW a \in All, NEW n \in 1 .. Len(listed'[a]) PROVE broker'[listed'[a][n]] = a
    <3>1. CASE a = acc
      <4>1. n \in 1 .. Len(listed[acc]) \/ n = Len(listed[acc]) + 1
        BY <1>4, <1>5, <3>1
      <4> QED  BY <1>4, <1>5, <1>8, <2>1, <3>1, <4>1
    <3>2. CASE a # acc
      BY <1>5, <2>1, <3>2
    <3> QED  BY <3>1, <3>2
  <2> QED  BY <2>2 DEF ListedIsOwned
<1>11. CharsAreOwned'
  <2>1. ASSUME NEW t \in Services, NEW n \in 1 .. Len(chars[t]) PROVE broker'[chars[t][n]] = broker'[t]
    BY <1>8, <1>9 DEF AccessoriesInv, Owned, CharsAreOwned
  <2> QED  BY <2>1 DEF CharsAreOwned
<1>12. CharsApart'
  BY DEF AccessoriesInv, Owned, CharsApart
<1>13. OwnedAreListed'
  <2>1. ASSUME NEW c \in Chars, broker'[c] # None
        PROVE  \E t \in Services : \E n \in 1 .. Len(chars[t]) : chars[t][n] = c
    <3>1. c # s /\ c \in Objects
      BY <1>2
    <3>2. CASE c \in ToSet(chars[s])
      BY <1>3, <3>2
    <3>3. CASE c \notin ToSet(chars[s])
      <4>1. broker[c] # None
        BY <1>1, <2>1, <3>1, <3>3
      <4> QED  BY <4>1 DEF AccessoriesInv, Owned, OwnedAreListed
    <3> QED  BY <3>2, <3>3
  <2> QED  BY <2>1 DEF OwnedAreListed
<1>14. ASSUME NEW o \in Objects, broker[o] # None PROVE broker'[o] = broker[o]
  <2>1. CASE o = s
    BY <1>1, <1>14, <2>1
  <2>2. CASE o \in ToSet(chars[s])
    <3>1. broker[o] = broker[s]
      BY <1>3, <2>2 DEF AccessoriesInv, Owned, CharsAreOwned
    <3> QED  BY <1>1, <1>14, <2>2, <3>1
  <2>3. CASE o # s /\ o \notin ToSet(chars[s])
    BY <1>1, <2>3
  <2> QED  BY <2>1, <2>2, <2>3
<1> QED  BY <1>4, <1>5, <1>6, <1>7, <1>10, <1>11, <1>12, <1>13, <1>14 DEF Owned

(* One of Len(bridged) + 1 numbers is the AID of no bridged accessory. *)
LEMMA FreeAid ==
  ASSUME AccessoriesInv
  PROVE  /\ NextAid \in Nat \ {STANDALONE_AID}
         /\ \A n \in 1 .. Len(bridged) : aid[bridged[n]] # NextAid
<1> DEFINE L == Len(bridged)
           taken(n) == \E i \in 1 .. L : aid[bridged[i]] = n
           S == (2 .. L + 3) \ {7}
           free == {n \in 2 .. L + 3 : n # 7 /\ \A i \in 1 .. L : aid[bridged[i]] # n}
<1>1. L \in Nat
  BY DEF AccessoriesInv, TypeOK
<1> HIDE DEF L
<1>2. IsFiniteSet(S) /\ Cardinality(S) > L /\ Cardinality(S) \in Nat
  <2>1. IsFiniteSet(2 .. L + 3) /\ Cardinality(2 .. L + 3) = L + 2
    BY <1>1, FS_Interval
  <2>2. IsFiniteSet(S) /\ Cardinality(S) = IF 7 \in 2 .. L + 3 THEN Cardinality(2 .. L + 3) - 1
                                           ELSE Cardinality(2 .. L + 3)
    BY <2>1, FS_RemoveElement
  <2> HIDE DEF S
  <2> QED  BY <1>1, <2>1, <2>2
<1>3. IsFiniteSet(1 .. L) /\ Cardinality(1 .. L) = L
  BY <1>1, FS_Interval
<1>4. ASSUME \A n \in S : taken(n) PROVE FALSE
  <2> DEFINE f == [n \in S |-> CHOOSE i \in 1 .. L : aid[bridged[i]] = n]
  <2>1. \A n \in S : f[n] \in 1 .. L /\ aid[bridged[f[n]]] = n
    BY <1>4
  <2>2. f \in [S -> 1 .. L]
    BY <2>1
  <2> HIDE DEF f, S
  <2>3. Cardinality(1 .. L) < Cardinality(S)
    BY <1>1, <1>2, <1>3
  <2>4. PICK x \in S, y \in S : x # y /\ f[x] = f[y]
    BY <1>2, <1>3, <2>2, <2>3, FS_PigeonHole
  <2> QED  BY <2>1, <2>4
<1>5. free # {} /\ free \in SUBSET Nat
  <2>1. PICK n \in S : ~ taken(n)
    BY <1>4
  <2>2. n \in free
    BY <2>1
  <2>3. ASSUME NEW k \in free PROVE k \in Nat
    <3>1. k \in 2 .. L + 3
      OBVIOUS
    <3> QED  BY <1>1, <3>1
  <2> HIDE DEF free
  <2> QED  BY <2>2, <2>3
<1>6. PICK m \in free : \A n \in free : m <= n
  <2> HIDE DEF free
  <2> QED  BY <1>5, HasMin
<1>7. Min(free) = m
  <2>1. free \in SUBSET Int
    BY <1>1
  <2> HIDE DEF free
  <2> QED  BY <1>6, <2>1, MinIs
<1>8. NextAid = m
  BY <1>7 DEF NextAid, L
<1>9. m \in 2 .. L + 3 /\ \A n \in 1 .. L : aid[bridged[n]] # m
  BY <1>6
<1> QED  BY <1>1, <1>8, <1>9 DEF L, STANDALONE_AID

LEMMA ConstructKeeps ==
  ASSUME AccessoriesInv, NEW acc \in All, NEW given \in GivenAids \cup {None}, Construct(acc, given)
  PROVE  AccessoriesInv' /\ Kept
<1> DEFINE s == Info[acc]
<1>1. /\ s \in Services /\ GivenAids \subseteq Nat /\ None \notin Nat
      /\ MaxIid \in Nat
  BY AccessoriesAssumption
<1>2. /\ ~Constructed(acc) /\ (acc = Bridge => given = STANDALONE_AID)
      /\ aid' = [aid EXCEPT ![acc] = given]
      /\ Added(acc, s) /\ UNCHANGED <<bridged, chars, cached>>
      /\ Becomes(acc, Assign(Manager(acc), <<s>> \o chars[s]))
  BY DEF Construct, Added
<1> HIDE DEF s
<1>3. /\ counter' \in [All -> 0 .. MaxIid]
      /\ iids' \in [All -> [Objects -> Iids \cup {None}]]
      /\ objs' \in [All -> [Iids -> Objects \cup {None}]]
      /\ ManagersAgree'
      /\ \A a \in All : \A i \in 1 .. counter[a] : objs'[a][i] = objs[a][i]
      /\ \A a \in All : counter[a] <= counter'[a]
  BY <1>1, <1>2, ManagerBecomes
<1>4. /\ listed' \in [All -> Seq(Services)]
      /\ broker' \in [Objects -> All \cup {None}]
      /\ Owned'
      /\ listed'[acc] # <<>> /\ \A a \in All \ {acc} : listed'[a] = listed[a]
      /\ \A o \in Objects : broker[o] # None => broker'[o] = broker[o]
  BY <1>1, <1>2, AddedKeeps
<1>5. /\ aid \in [All -> GivenAids \cup {None} \cup Nat] /\ bridged \in Seq(Accessories)
      /\ chars \in [Services -> Seq(Chars)] /\ Accessories \subseteq All /\ Bridge \in All
  BY DEF AccessoriesInv, TypeOK, All
<1>6. TypeOK'
  <2>1. aid' \in [All -> GivenAids \cup {None} \cup Nat]
    BY <1>2, <1>5
  <2>2. bridged' = bridged /\ chars' = chars /\ cached' = cached
    BY <1>2
  <2>3. cached \in [Chars -> Iids \cup {None, NotCached}]
    BY DEF AccessoriesInv, TypeOK
  <2> QED  BY <1>3, <1>4, <1>5, <2>1, <2>2, <2>3 DEF TypeOK
<1>7. aid[acc] = None /\ \A n \in 1 .. Len(bridged) : bridged[n] # acc /\ bridged[n] \in All
  BY <1>1, <1>2, <1>5 DEF AccessoriesInv, AidsApart
<1>8. \A a \in All \ {acc} : aid'[a] = aid[a]
  BY <1>2, <1>5
<1>9. AidsApart'
  <2>1. ASSUME NEW a \in All, ~(listed'[a] # <<>>) PROVE aid'[a] = None
    BY <1>4, <1>8, <2>1 DEF AccessoriesInv, AidsApart, Constructed
  <2>2. listed'[Bridge] # <<>> => aid'[Bridge] = STANDALONE_AID
    BY <1>2, <1>4, <1>5, <1>8 DEF AccessoriesInv, AidsApart, Constructed
  <2>3. bridged' # <<>> => listed'[Bridge] # <<>>
    BY <1>2, <1>4, <1>5 DEF AccessoriesInv, AidsApart, Constructed
  <2>4. \A n \in 1 .. Len(bridged) : aid'[bridged[n]] = aid[bridged[n]]
    BY <1>7, <1>8
  <2> QED  BY <1>2, <2>1, <2>2, <2>3, <2>4 DEF AccessoriesInv, AidsApart, Constructed
<1>10. Kept
  BY <1>3, <1>4, <1>7, <1>8 DEF Kept, IdentifiersKept, OwnersKept
<1> QED  BY <1>3, <1>4, <1>6, <1>9, <1>10 DEF AccessoriesInv

LEMMA AddServiceKeeps ==
  ASSUME AccessoriesInv, NEW acc \in All, NEW s \in Services, AddService(acc, s)
  PROVE  AccessoriesInv' /\ Kept
<1>2. /\ Constructed(acc) /\ Added(acc, s) /\ UNCHANGED <<aid, bridged, chars, cached>>
      /\ Becomes(acc, Assign(Manager(acc), <<s>> \o chars[s]))
  BY DEF AddService, Added
<1>3. /\ counter' \in [All -> 0 .. MaxIid]
      /\ iids' \in [All -> [Objects -> Iids \cup {None}]]
      /\ objs' \in [All -> [Iids -> Objects \cup {None}]]
      /\ ManagersAgree'
      /\ \A a \in All : \A i \in 1 .. counter[a] : objs'[a][i] = objs[a][i]
      /\ \A a \in All : counter[a] <= counter'[a]
  BY <1>2, ManagerBecomes
<1>4. /\ listed' \in [All -> Seq(Services)]
      /\ broker' \in [Objects -> All \cup {None}]
      /\ Owned'
      /\ listed'[acc] # <<>> /\ \A a \in All \ {acc} : listed'[a] = listed[a]
      /\ \A o \in Objects : broker[o] # None => broker'[o] = broker[o]
  BY <1>2, AddedKeeps
<1>5. TypeOK'
  BY <1>2, <1>3, <1>4 DEF TypeOK, AccessoriesInv
<1>6. \A a \in All : (listed'[a] # <<>>) = (listed[a] # <<>>)
  BY <1>2, <1>4 DEF Constructed
<1>7. Bridge \in All
  BY DEF All
<1>8. AidsApart'
  BY <1>2, <1>6, <1>7 DEF AccessoriesInv, AidsApart, Constructed
<1>9. Kept
  BY <1>2, <1>3, <1>4 DEF Kept, IdentifiersKept, OwnersKept
<1> QED  BY <1>3, <1>4, <1>5, <1>8, <1>9 DEF AccessoriesInv

(* Both directions of an entry go. *)
LEMMA RemovalKeeps ==
  ASSUME AccessoriesInv, NEW acc \in All, NEW obj \in Objects, NEW iid \in Iids,
         iids[acc][obj] = iid, objs[acc][iid] = obj,
         iids' = [iids EXCEPT ![acc][obj] = None],
         objs' = [objs EXCEPT ![acc][iid] = None],
         UNCHANGED <<aid, bridged, listed, chars, broker, counter, cached>>
  PROVE  AccessoriesInv' /\ Kept
<1>1. /\ counter \in [All -> 0 .. MaxIid]
      /\ iids \in [All -> [Objects -> Iids \cup {None}]]
      /\ objs \in [All -> [Iids -> Objects \cup {None}]]
      /\ MaxIid \in Nat
  BY AccessoriesAssumption DEF AccessoriesInv, TypeOK
<1>2. /\ iids' \in [All -> [Objects -> Iids \cup {None}]]
      /\ objs' \in [All -> [Iids -> Objects \cup {None}]]
      /\ \A a \in All, o \in Objects : iids'[a][o] = IF a = acc /\ o = obj THEN None ELSE iids[a][o]
      /\ \A a \in All, i \in Iids : objs'[a][i] = IF a = acc /\ i = iid THEN None ELSE objs[a][i]
  BY <1>1
<1>3. TypeOK'
  BY <1>2 DEF AccessoriesInv, TypeOK
<1>4. ASSUME NEW a \in All PROVE Agree(counter[a], iids'[a], objs'[a])
  <2>1. /\ \A o \in Objects : iids[a][o] # None => iids[a][o] <= counter[a] /\ objs[a][iids[a][o]] = o
        /\ \A i \in Iids : objs[a][i] # None => iids[a][objs[a][i]] = i
    BY Zenon DEF AccessoriesInv, ManagersAgree, Agree
  <2>2. ASSUME NEW o \in Objects, iids'[a][o] # None
        PROVE  iids'[a][o] <= counter[a] /\ objs'[a][iids'[a][o]] = o
    <3>1. iids'[a][o] = iids[a][o] /\ iids[a][o] # None /\ iids[a][o] \in Iids /\ ~ (a = acc /\ o = obj)
      BY <1>1, <1>2, <2>2
    <3>2. objs[a][iids[a][o]] = o /\ iids[a][o] <= counter[a]
      BY <2>1, <3>1
    <3>3. ~ (a = acc /\ iids[a][o] = iid)
      BY <3>1, <3>2
    <3> QED  BY <1>2, <3>1, <3>2, <3>3
  <2>3. ASSUME NEW i \in Iids, objs'[a][i] # None
        PROVE  iids'[a][objs'[a][i]] = i
    <3>1. objs'[a][i] = objs[a][i] /\ objs[a][i] # None /\ objs[a][i] \in Objects /\ ~ (a = acc /\ i = iid)
      BY <1>1, <1>2, <2>3
    <3>2. iids[a][objs[a][i]] = i
      BY <2>1, <3>1
    <3>3. ~ (a = acc /\ objs[a][i] = obj)
      BY <3>1, <3>2
    <3> QED  BY <1>2, <3>1, <3>2, <3>3
  <2> QED  BY <2>2, <2>3 DEF Agree
<1>5. ManagersAgree'
  BY <1>4 DEF ManagersAgree, Agree
<1>6. Owned' /\ AidsApart'
  BY DEF AccessoriesInv, Owned, ListedIsOwned, CharsAreOwned, CharsApart, OwnedAreListed, AidsApart,
         Constructed
<1>7. Kept
  <2>1. ASSUME NEW a \in All, NEW i \in 1 .. counter[a] PROVE objs'[a][i] \in {None, objs[a][i]}
    <3>1. i \in Iids
      BY <1>1 DEF Iids
    <3> QED  BY <1>2, <3>1
  <2> QED  BY CountersAreNumbers, <2>1 DEF Kept, IdentifiersKept, OwnersKept
<1> QED  BY <1>3, <1>5, <1>6, <1>7 DEF AccessoriesInv

LEMMA RemoveKeeps ==
  ASSUME AccessoriesInv, NEW acc \in All,
         \/ \E obj \in Objects : RemoveObj(acc, obj)
         \/ \E iid \in Iids : RemoveIid(acc, iid)
  PROVE  AccessoriesInv' /\ Kept
<1>1. /\ iids[acc] \in [Objects -> Iids \cup {None}]
      /\ objs[acc] \in [Iids -> Objects \cup {None}]
      /\ Agree(counter[acc], iids[acc], objs[acc])
  BY DEF AccessoriesInv, TypeOK, ManagersAgree
<1>2. ASSUME NEW obj \in Objects, RemoveObj(acc, obj) PROVE AccessoriesInv' /\ Kept
  <2>1. iids[acc][obj] \in Iids /\ objs[acc][iids[acc][obj]] = obj
    BY <1>1, <1>2 DEF RemoveObj, Agree
  <2> QED  BY <1>2, <2>1, RemovalKeeps DEF RemoveObj
<1>3. ASSUME NEW iid \in Iids, RemoveIid(acc, iid) PROVE AccessoriesInv' /\ Kept
  <2>1. objs[acc][iid] \in Objects /\ iids[acc][objs[acc][iid]] = iid
    BY <1>1, <1>3 DEF RemoveIid, Agree
  <2> QED  BY <1>3, <2>1, RemovalKeeps DEF RemoveIid
<1> QED  BY <1>2, <1>3

LEMMA AddCharacteristicKeeps ==
  ASSUME AccessoriesInv, NEW s \in Services, NEW c \in Chars, AddCharacteristic(s, c)
  PROVE  AccessoriesInv' /\ Kept
<1>1. /\ broker[s] = None /\ \A t \in Services : c \notin ToSet(chars[t])
      /\ chars' = [chars EXCEPT ![s] = Append(@, c)]
      /\ UNCHANGED <<aid, bridged, listed, broker, counter, iids, objs, cached>>
  BY DEF AddCharacteristic, managers
<1>2. chars \in [Services -> Seq(Chars)]
  BY DEF AccessoriesInv, TypeOK
<1>3. ASSUME NEW t \in Services, NEW n \in 1 .. Len(chars[t]) PROVE chars[t][n] # c
  <2>1. c \notin ToSet(chars[t])
    BY <1>1
  <2> QED  BY <1>2, <2>1 DEF ToSet
<1>4. /\ Append(chars[s], c) \in Seq(Chars)
      /\ Len(Append(chars[s], c)) = Len(chars[s]) + 1
      /\ Len(chars[s]) \in Nat
      /\ \A n \in 1 .. Len(chars[s]) : Append(chars[s], c)[n] = chars[s][n]
      /\ Append(chars[s], c)[Len(chars[s]) + 1] = c
  <2>1. chars[s] \in Seq(Chars)
    BY <1>2
  <2> QED  BY <2>1, AppendProperties
<1>5. chars'[s] = Append(chars[s], c) /\ \A t \in Services \ {s} : chars'[t] = chars[t]
  BY <1>1, <1>2
<1>6. chars' \in [Services -> Seq(Chars)]
  BY <1>1, <1>2, <1>4
<1>7. ASSUME NEW t \in Services, NEW n \in 1 .. Len(chars'[t])
      PROVE  \/ n \in 1 .. Len(chars[t]) /\ chars'[t][n] = chars[t][n]
             \/ t = s /\ n = Len(chars[s]) + 1 /\ chars'[t][n] = c
  <2>1. CASE t = s
    <3>1. n \in 1 .. Len(chars[s]) \/ n = Len(chars[s]) + 1
      BY <1>4, <1>5, <2>1
    <3> QED  BY <1>4, <1>5, <2>1, <3>1
  <2>2. CASE t # s
    BY <1>5, <2>2
  <2> QED  BY <2>1, <2>2
<1>8. broker[c] = None
  BY <1>3 DEF AccessoriesInv, Owned, OwnedAreListed
<1>9. CharsAreOwned'
  <2>1. ASSUME NEW t \in Services, NEW n \in 1 .. Len(chars'[t]) PROVE broker[chars'[t][n]] = broker[t]
    BY <1>1, <1>7, <1>8 DEF AccessoriesInv, Owned, CharsAreOwned
  <2> QED  BY <1>1, <2>1 DEF CharsAreOwned
<1>10. CharsApart'
  <2>1. ASSUME NEW t \in Services, NEW u \in Services,
               NEW n \in 1 .. Len(chars'[t]), NEW m \in 1 .. Len(chars'[u]),
               chars'[t][n] = chars'[u][m]
        PROVE  t = u /\ n = m
    <3>1. CASE n \in 1 .. Len(chars[t]) /\ chars'[t][n] = chars[t][n]
      <4>1. m \in 1 .. Len(chars[u]) /\ chars'[u][m] = chars[u][m]
        BY <1>3, <1>7, <2>1, <3>1
      <4>2. n \in 1 .. Len(chars[t]) /\ chars[t][n] = chars[u][m]
        BY <2>1, <3>1, <4>1
      <4> QED  BY <4>1, <4>2, Zenon DEF AccessoriesInv, Owned, CharsApart
    <3>2. CASE t = s /\ n = Len(chars[s]) + 1 /\ chars'[t][n] = c
      <4>1. u = s /\ m = Len(chars[s]) + 1
        BY <1>3, <1>7, <2>1, <3>2
      <4> QED  BY <3>2, <4>1
    <3> QED  BY <1>7, <3>1, <3>2
  <2> QED  BY <2>1 DEF CharsApart
<1>11. OwnedAreListed'
  <2>1. ASSUME NEW d \in Chars, broker[d] # None
        PROVE  \E t \in Services : \E n \in 1 .. Len(chars'[t]) : chars'[t][n] = d
    <3>1. PICK t \in Services : \E n \in 1 .. Len(chars[t]) : chars[t][n] = d
      BY <2>1 DEF AccessoriesInv, Owned, OwnedAreListed
    <3>2. PICK n \in 1 .. Len(chars[t]) : chars[t][n] = d
      BY <3>1
    <3>3. n \in 1 .. Len(chars'[t]) /\ chars'[t][n] = d
      <4>1. CASE t = s
        BY <1>4, <1>5, <3>2, <4>1
      <4>2. CASE t # s
        BY <1>5, <3>2, <4>2
      <4> QED  BY <4>1, <4>2
    <3> QED  BY <3>3
  <2> QED  BY <1>1, <2>1 DEF OwnedAreListed
<1>12. ListedIsOwned' /\ ManagersAgree' /\ AidsApart'
  BY <1>1 DEF AccessoriesInv, Owned, ListedIsOwned, ManagersAgree, Agree, AidsApart, Constructed
<1>13. TypeOK'
  BY <1>1, <1>6 DEF AccessoriesInv, TypeOK
<1>14. Kept
  BY CountersAreNumbers, <1>1 DEF Kept, IdentifiersKept, OwnersKept
<1> QED  BY <1>9, <1>10, <1>11, <1>12, <1>13, <1>14 DEF AccessoriesInv, Owned

LEMMA AddAccessoryKeeps ==
  ASSUME AccessoriesInv, NEW acc \in Accessories, AddAccessory(acc)
  PROVE  AccessoriesInv' /\ Kept
<1>1. /\ Constructed(Bridge) /\ Constructed(acc)
      /\ bridged' = Append(bridged, acc)
      /\ UNCHANGED <<listed, chars, broker, counter, iids, objs, cached>>
  BY DEF AddAccessory, managers
<1>2. /\ aid \in [All -> GivenAids \cup {None} \cup Nat] /\ bridged \in Seq(Accessories)
      /\ Accessories \subseteq All /\ Bridge \in All /\ acc # Bridge /\ None \notin Nat
      /\ GivenAids \subseteq Nat
  BY AccessoriesAssumption DEF AccessoriesInv, TypeOK, All
<1>3. /\ Len(bridged') = Len(bridged) + 1 /\ Len(bridged) \in Nat
      /\ bridged' \in Seq(Accessories)
      /\ \A n \in 1 .. Len(bridged) : bridged'[n] = bridged[n]
      /\ bridged'[Len(bridged) + 1] = acc
  BY <1>1, <1>2, AppendProperties
<1>4. aid[Bridge] = STANDALONE_AID
  BY <1>1 DEF AccessoriesInv, AidsApart
<1>5. /\ aid' \in [All -> GivenAids \cup {None} \cup Nat]
      /\ aid'[acc] \in Nat \ {STANDALONE_AID}
      /\ \A n \in 1 .. Len(bridged) : aid[bridged[n]] # aid'[acc]
      /\ \A a \in All \ {acc} : aid'[a] = aid[a]
      /\ aid[acc] # None => aid'[acc] = aid[acc]
  <2>1. CASE aid[acc] = None
    <3>1. aid' = [aid EXCEPT ![acc] = NextAid]
      BY <2>1 DEF AddAccessory
    <3> QED  BY <1>2, <2>1, <3>1, FreeAid
  <2>2. CASE aid[acc] # None
    <3>1. /\ aid[acc] # aid[Bridge] /\ aid' = aid
          /\ \A n \in 1 .. Len(bridged) : aid[bridged[n]] # aid[acc]
      BY <2>2 DEF AddAccessory
    <3> QED  BY <1>2, <1>4, <2>2, <3>1
  <2> QED  BY <2>1, <2>2
<1>6. \A n \in 1 .. Len(bridged) :
        aid[bridged[n]] \in Nat \ {STANDALONE_AID} /\ bridged[n] \in All
  BY <1>2 DEF AccessoriesInv, AidsApart
<1>7. ASSUME NEW n \in 1 .. Len(bridged) PROVE aid'[bridged[n]] = aid[bridged[n]]
  <2>1. CASE bridged[n] = acc
    BY <1>2, <1>5, <1>6, <2>1
  <2>2. CASE bridged[n] # acc
    BY <1>5, <1>6, <2>2
  <2> QED  BY <2>1, <2>2
<1>8. ASSUME NEW n \in 1 .. Len(bridged')
      PROVE  \/ /\ n \in 1 .. Len(bridged) /\ bridged'[n] = bridged[n]
                /\ aid'[bridged'[n]] = aid[bridged[n]]
             \/ n = Len(bridged) + 1 /\ bridged'[n] = acc
  <2>1. n \in 1 .. Len(bridged) \/ n = Len(bridged) + 1
    BY <1>3
  <2> QED  BY <1>3, <1>7, <2>1
<1>9. AidsApart'
  <2>1. ASSUME NEW a \in All, ~(listed'[a] # <<>>) PROVE aid'[a] = None
    <3>1. a # acc /\ ~Constructed(a)
      BY <1>1, <2>1 DEF Constructed
    <3> QED  BY <1>5, <3>1 DEF AccessoriesInv, AidsApart
  <2>2. listed'[Bridge] # <<>> /\ aid'[Bridge] = STANDALONE_AID
    BY <1>1, <1>2, <1>4, <1>5 DEF Constructed
  <2>3. \A n \in 1 .. Len(bridged') : aid'[bridged'[n]] \in Nat \ {STANDALONE_AID}
    BY <1>5, <1>6, <1>8
  <2>4. ASSUME NEW n \in 1 .. Len(bridged'), NEW m \in 1 .. Len(bridged'),
               aid'[bridged'[n]] = aid'[bridged'[m]]
        PROVE  n = m
    BY <1>5, <1>8, <2>4 DEF AccessoriesInv, AidsApart
  <2> QED  BY <2>1, <2>2, <2>3, <2>4 DEF AidsApart, Constructed
<1>10. TypeOK'
  BY <1>1, <1>3, <1>5 DEF AccessoriesInv, TypeOK
<1>11. Owned' /\ ManagersAgree'
  BY <1>1 DEF AccessoriesInv, Owned, ListedIsOwned, CharsAreOwned, CharsApart, OwnedAreListed,
              ManagersAgree, Agree
<1>12. Kept
  BY CountersAreNumbers, <1>1, <1>5 DEF Kept, IdentifiersKept, OwnersKept
<1> QED  BY <1>9, <1>10, <1>11, <1>12 DEF AccessoriesInv

(* What is listed with an accessory is of that accessory, which has services. *)
LEMMA MembersAreOwned ==
  ASSUME AccessoriesInv, NEW acc \in Represented, NEW obj \in Members(acc)
  PROVE  broker[obj] = acc /\ acc \in All /\ obj \in Objects /\ Constructed(acc)
<1>1. /\ listed \in [All -> Seq(Services)] /\ chars \in [Services -> Seq(Chars)]
      /\ Represented \subseteq All /\ Services \subseteq Objects /\ Chars \subseteq Objects
  <2>1. /\ listed \in [All -> Seq(Services)] /\ chars \in [Services -> Seq(Chars)]
        /\ bridged \in Seq(Accessories)
    BY DEF AccessoriesInv, TypeOK
  <2>2. ToSet(bridged) \subseteq Accessories
    BY <2>1 DEF ToSet
  <2> QED  BY <2>1, <2>2 DEF Represented, All, Objects
<1>2. PICK s \in ToSet(listed[acc]) : obj \in {s} \cup ToSet(chars[s])
  BY DEF Members
<1>3. PICK n \in 1 .. Len(listed[acc]) : listed[acc][n] = s
  <2>1. listed[acc] \in Seq(Services)
    BY <1>1
  <2>2. DOMAIN listed[acc] = 1 .. Len(listed[acc])
    BY <2>1
  <2> QED  BY <1>2, <2>2 DEF ToSet
<1>4. s \in Services /\ broker[s] = acc /\ Constructed(acc)
  BY <1>1, <1>3 DEF AccessoriesInv, Owned, ListedIsOwned, Constructed
<1>5. obj \in Objects /\ broker[obj] = acc
  <2>1. CASE obj = s
    BY <1>1, <1>4, <2>1
  <2>2. CASE obj \in ToSet(chars[s])
    <3>1. PICK m \in 1 .. Len(chars[s]) : chars[s][m] = obj
      <4>1. chars[s] \in Seq(Chars)
        BY <1>1, <1>4
      <4>2. DOMAIN chars[s] = 1 .. Len(chars[s])
        BY <4>1
      <4> QED  BY <2>2, <4>2 DEF ToSet
    <3> QED  BY <1>1, <1>4, <3>1 DEF AccessoriesInv, Owned, CharsAreOwned
  <2> QED  BY <1>2, <2>1, <2>2
<1> QED  BY <1>1, <1>4, <1>5

LEMMA ListingKeeps ==
  ASSUME AccessoriesInv, GetAccessories \/ \E c \in Chars : ClearCache(c)
  PROVE  AccessoriesInv' /\ Kept
<1>1. UNCHANGED <<aid, bridged, listed, chars, broker, counter, iids, objs>>
  BY DEF GetAccessories, ClearCache, managers
<1>2. /\ iids \in [All -> [Objects -> Iids \cup {None}]] /\ broker \in [Objects -> All \cup {None}]
      /\ cached \in [Chars -> Iids \cup {None, NotCached}] /\ Chars \subseteq Objects
  BY DEF AccessoriesInv, TypeOK, Objects
<1>3. cached' \in [Chars -> Iids \cup {None, NotCached}]
  <2>1. CASE GetAccessories
    <3> SUFFICES ASSUME NEW c \in Chars, NEW acc \in Represented, c \in Members(acc)
                 PROVE  ListedIid(c) \in Iids \cup {None, NotCached}
      BY <1>2, <2>1 DEF GetAccessories
    <3>1. CASE cached[c] # NotCached
      BY <1>2, <3>1 DEF ListedIid
    <3>2. CASE cached[c] = NotCached
      <4>1. broker[c] = acc /\ acc \in All
        BY MembersAreOwned
      <4> QED  BY <1>2, <3>2, <4>1 DEF ListedIid
    <3> QED  BY <3>1, <3>2
  <2>2. CASE \E c \in Chars : ClearCache(c)
    BY <1>2, <2>2 DEF ClearCache
  <2> QED  BY <2>1, <2>2
<1>4. TypeOK'
  BY <1>1, <1>3 DEF AccessoriesInv, TypeOK
<1>5. ManagersAgree' /\ Owned' /\ AidsApart'
  BY <1>1 DEF AccessoriesInv, ManagersAgree, Agree, Owned, ListedIsOwned, CharsAreOwned, CharsApart,
              OwnedAreListed, AidsApart, Constructed
<1>6. Kept
  BY <1>1, CountersAreNumbers DEF Kept, IdentifiersKept, OwnersKept
<1> QED  BY <1>4, <1>5, <1>6 DEF AccessoriesInv

LEMMA AccessoriesStep ==
  ASSUME AccessoriesInv, Next \/ UNCHANGED vars PROVE AccessoriesInv' /\ Kept
BY UntouchedAccessories, ConstructKeeps, AddServiceKeeps, RemoveKeeps, AddCharacteristicKeeps,
   AddAccessoryKeeps, ListingKeeps DEF Next

LEMMA AccessoriesStart ==
  ASSUME Init PROVE AccessoriesInv
<1> USE AccessoriesAssumption DEF Init
<1>1. TypeOK
  <2>1. cached \in [Chars -> Iids \cup {None, NotCached}]
    OBVIOUS
  <2> QED  BY EmptySeq, <2>1 DEF TypeOK
<1>2. ManagersAgree
  BY DEF ManagersAgree, Agree
<1>3. 1 .. Len(<<>>) = {}
  OBVIOUS
<1>4. \A s \in Services : chars[s] = <<>>
  OBVIOUS
<1>5. ListedIsOwned /\ OwnedAreListed
  BY <1>3 DEF ListedIsOwned, OwnedAreListed, Objects
<1>6. CharsAreOwned /\ CharsApart
  BY <1>3, <1>4, Zenon DEF CharsAreOwned, CharsApart
<1>7. AidsApart
  <2>1. Bridge \in All
    BY DEF All
  <2> QED  BY <1>3, <2>1 DEF AidsApart, Constructed
<1>8. Owned
  BY <1>5, <1>6 DEF Owned
<1> QED  BY <1>1, <1>2, <1>7, <1>8 DEF AccessoriesInv

(* The accessory that an AID leads to is the one that has it. *)
LEMMA AccessoryIsFound ==
  ASSUME AccessoriesInv, NEW acc \in Represented, Constructed(acc)
  PROVE  AccessoryOf(aid[acc]) = acc /\ acc \in All /\ acc # None
<1>1. /\ aid \in [All -> GivenAids \cup {None} \cup Nat] /\ bridged \in Seq(Accessories)
      /\ Accessories \subseteq All /\ Bridge \in All /\ None \notin All
      /\ ToSet(bridged) = {bridged[n] : n \in 1 .. Len(bridged)}
  <2>1. aid \in [All -> GivenAids \cup {None} \cup Nat] /\ bridged \in Seq(Accessories)
    BY DEF AccessoriesInv, TypeOK
  <2>2. Accessories \subseteq All /\ Bridge \in All /\ None \notin All
    BY AccessoriesAssumption DEF All
  <2>3. ToSet(bridged) = {bridged[n] : n \in 1 .. Len(bridged)}
    <3>1. DOMAIN bridged = 1 .. Len(bridged)
      BY <2>1
    <3> QED  BY <3>1, Zenon DEF ToSet
  <2> QED  BY <2>1, <2>2, <2>3
<1>2. CASE acc = Bridge
  BY <1>1, <1>2 DEF AccessoriesInv, AidsApart, AccessoryOf
<1>3. CASE acc # Bridge
  <2>1. acc \in ToSet(bridged)
    BY <1>3 DEF Represented
  <2>2. PICK n \in 1 .. Len(bridged) : bridged[n] = acc
    BY <1>1, <2>1
  <2>3. aid[acc] # STANDALONE_AID /\ acc \in All
    BY <1>1, <2>2 DEF AccessoriesInv, AidsApart
  <2>4. {i \in 1 .. Len(bridged) : aid[bridged[i]] = aid[acc]} = {n}
    <3>1. \A i \in 1 .. Len(bridged) : aid[bridged[i]] = aid[acc] => i = n
      BY <2>2 DEF AccessoriesInv, AidsApart
    <3> QED  BY <2>2, <3>1
  <2>5. Max({n}) = n
    <3>1. {n} \in SUBSET Int /\ n \in {n} /\ \A x \in {n} : x <= n
      OBVIOUS
    <3> QED  BY <3>1, MaxIs
  <2>6. AccessoryOf(aid[acc]) = bridged[n]
    BY <2>1, <2>3, <2>4, <2>5 DEF AccessoryOf
  <2> QED  BY <1>1, <2>2, <2>3, <2>6
<1> QED  BY <1>2, <1>3

(* A cached IID is one that the accessory's manager gave to the             *)
(* characteristic, whether or not it still has it.                          *)
CachesLead ==
  \A c \in Chars : cached[c] \in Iids =>
    /\ broker[c] # None
    /\ cached[c] <= counter[broker[c]]
    /\ objs[broker[c]][cached[c]] \in {None, c}

LEMMA CachesStep ==
  ASSUME AccessoriesInv, CachesLead, Next \/ UNCHANGED vars PROVE CachesLead'
<1>1. AccessoriesInv' /\ Kept
  BY AccessoriesStep
<1>2. /\ cached \in [Chars -> Iids \cup {None, NotCached}] /\ Chars \subseteq Objects
      /\ broker \in [Objects -> All \cup {None}] /\ None \notin All
      /\ broker' \in [Objects -> All \cup {None}]
      /\ counter \in [All -> 0 .. MaxIid] /\ counter' \in [All -> 0 .. MaxIid] /\ MaxIid \in Nat
      /\ iids \in [All -> [Objects -> Iids \cup {None}]]
      /\ NotCached \notin Nat \cup {None} /\ None \notin Nat
  BY <1>1, AccessoriesAssumption DEF AccessoriesInv, TypeOK, Objects
<1>3. ASSUME NEW c \in Chars, cached'[c] \in Iids, cached'[c] = cached[c]
      PROVE  /\ broker'[c] # None
             /\ cached'[c] <= counter'[broker'[c]]
             /\ objs'[broker'[c]][cached'[c]] \in {None, c}
  <2> DEFINE b == broker[c]
             i == cached[c]
  <2>1. b # None /\ i \in Iids /\ i <= counter[b] /\ objs[b][i] \in {None, c} /\ b \in All
    BY <1>2, <1>3 DEF CachesLead
  <2>2. broker'[c] = b
    BY <1>1, <1>2, <2>1 DEF Kept, OwnersKept
  <2>3. counter[b] <= counter'[b] /\ counter[b] \in Nat /\ counter'[b] \in Nat
    BY <1>1, <1>2, <2>1 DEF Kept, OwnersKept
  <2>4. i \in 1 .. counter[b]
    BY <2>1, <2>3 DEF Iids
  <2>5. objs'[b][i] \in {None, objs[b][i]}
    BY <1>1, <2>1, <2>4 DEF Kept, IdentifiersKept
  <2>6. i <= counter'[b]
    BY <2>3, <2>4
  <2> QED  BY <1>3, <2>1, <2>2, <2>5, <2>6
<1>4. CASE UNCHANGED cached
  BY <1>3, <1>4 DEF CachesLead
<1>5. ASSUME GetAccessories, NEW c \in Chars, cached'[c] \in Iids, cached'[c] # cached[c]
      PROVE  /\ broker'[c] # None
             /\ cached'[c] <= counter'[broker'[c]]
             /\ objs'[broker'[c]][cached'[c]] \in {None, c}
  <2>1. PICK acc \in Represented : c \in Members(acc)
    BY <1>5 DEF GetAccessories
  <2>2. broker[c] = acc /\ acc \in All
    BY <2>1, MembersAreOwned
  <2>3. cached'[c] = iids[acc][c] /\ UNCHANGED <<broker, counter, objs>>
    BY <1>5, <2>1, <2>2 DEF GetAccessories, ListedIid, managers
  <2>4. iids[acc][c] # None
    BY <1>2, <1>5, <2>3 DEF Iids
  <2>5. iids[acc][c] <= counter[acc] /\ objs[acc][iids[acc][c]] = c
    BY <1>2, <2>2, <2>4 DEF AccessoriesInv, ManagersAgree, Agree
  <2> QED  BY <1>2, <2>2, <2>3, <2>5
<1>6. CASE GetAccessories
  BY <1>3, <1>5, <1>6 DEF CachesLead
<1>7. ASSUME NEW d \in Chars, ClearCache(d) PROVE CachesLead'
  <2>1. \A c \in Chars : cached'[c] = cached[c] \/ cached'[c] = NotCached
    BY <1>2, <1>7 DEF ClearCache
  <2>2. NotCached \notin Iids
    BY <1>2 DEF Iids
  <2> QED  BY <1>3, <2>1, <2>2 DEF CachesLead
<1>8. UNCHANGED cached \/ GetAccessories \/ \E d \in Chars : ClearCache(d)
  BY DEF Next, Construct, AddService, RemoveObj, RemoveIid, AddCharacteristic, AddAccessory, vars
<1> QED  BY <1>4, <1>6, <1>7, <1>8

LEMMA ListedAreFound ==
  ASSUME AccessoriesInv, CachesLead PROVE ListedIsFound
<1> SUFFICES ASSUME NEW acc \in Represented, NEW obj \in Members(acc), ListedIid(obj) # None
             PROVE  GetCharacteristic(aid[acc], ListedIid(obj))
                      = IF iids[broker[obj]][obj] = ListedIid(obj) THEN obj ELSE None
  BY DEF ListedIsFound, Representation
<1> DEFINE iid == ListedIid(obj)
<1>1. broker[obj] = acc /\ acc \in All /\ obj \in Objects /\ Constructed(acc)
  BY MembersAreOwned
<1>2. GetCharacteristic(aid[acc], iid) = objs[acc][iid]
  BY <1>1, AccessoryIsFound DEF GetCharacteristic
<1>3. /\ iids[acc] \in [Objects -> Iids \cup {None}] /\ objs[acc] \in [Iids -> Objects \cup {None}]
      /\ Agree(counter[acc], iids[acc], objs[acc])
      /\ cached \in [Chars -> Iids \cup {None, NotCached}]
  BY <1>1 DEF AccessoriesInv, TypeOK, ManagersAgree
<1>4. CASE iids[acc][obj] = iid
  <2> HIDE DEF iid
  <2> QED  BY <1>1, <1>2, <1>3, <1>4 DEF Agree, iid
<1>5. CASE iids[acc][obj] # iid
  <2>1. obj \in Chars /\ iid = cached[obj] /\ cached[obj] \in Iids
    BY <1>1, <1>3, <1>5 DEF ListedIid
  <2>2. objs[acc][iid] \in {None, obj}
    BY <1>1, <2>1 DEF CachesLead
  <2>3. objs[acc][iid] # obj
    <3>1. objs[acc][iid] = obj /\ obj # None => iids[acc][obj] = iid
      BY <1>3, <2>1 DEF Agree
    <3>2. obj # None
      BY <1>1, AccessoriesAssumption
    <3> QED  BY <1>5, <3>1, <3>2
  <2> HIDE DEF iid
  <2> QED  BY <1>1, <1>2, <1>5, <2>2, <2>3 DEF iid
<1> QED  BY <1>4, <1>5

----------------------------------------------------------------------------
(* Prepared writes *)

PreparedTypeOK ==
  /\ open \subseteq Peers
  /\ prepared \in [Peers -> [Pids -> Nat \cup {Missing}]]
  /\ now \in 0 .. MaxTime

PreparedInv == PreparedTypeOK /\ PreparesEndWithConnection

(* No action but ConnectionLost closes one's connection; what is prepared is *)
(* one's own.                                                                *)
LEMMA PreparedStep ==
  ASSUME PreparedInv, Writes!Next \/ UNCHANGED writeVars PROVE PreparedInv'
<1> USE DEF PreparedInv, PreparedTypeOK, PreparesEndWithConnection,
            Writes!PreparesEndWithConnection, Writes!NoPrepares
<1>1. ASSUME NEW p \in Peers, Writes!Connect(p) PROVE PreparedInv'
  BY <1>1 DEF Writes!Connect
<1>2. ASSUME NEW p \in Peers, Writes!ConnectionLost(p) PROVE PreparedInv'
  BY <1>2 DEF Writes!ConnectionLost
<1>3. ASSUME NEW p \in Peers, NEW pid \in Pids, NEW ttl \in TTLs, Writes!Prepare(p, pid, ttl)
      PROVE  PreparedInv'
  <2>1. now + ttl \in Nat
    BY DatabaseAssumption DEF Writes!WritesAssumption
  <2> QED  BY <2>1, <1>3 DEF Writes!Prepare
<1>4. ASSUME NEW p \in Peers, Writes!Write(p) PROVE PreparedInv'
  <2>1. PICK pid \in Pids \cup {Missing} :
          /\ p \in open /\ Writes!TakePrepared(p, pid) /\ UNCHANGED <<now, open>>
    BY <1>4 DEF Writes!Write, Writes!SetCharacteristics
  <2> QED  BY <2>1 DEF Writes!TakePrepared
<1>5. CASE Writes!ReplyArrives \/ Writes!Tick
  <2>1. MaxTime \in Nat
    BY DatabaseAssumption DEF Writes!WritesAssumption
  <2> QED  BY <1>5, <2>1 DEF Writes!ReplyArrives, Writes!Tick
<1>6. CASE UNCHANGED writeVars
  BY <1>6 DEF writeVars
<1> QED  BY <1>1, <1>2, <1>3, <1>4, <1>5, <1>6 DEF Writes!Next

----------------------------------------------------------------------------
(* Batches of writes *)

WrittenTypeOK ==
  /\ written \in [WrittenChars -> Stored \cup {Null}]
  /\ reply = Writes!NoReply \/ reply.kind \in {"204", "207", "500"}

WrittenInv == WrittenTypeOK /\ SuccessIsTrue

(* The places of a batch are the numbers from 1 on. *)
LEMMA BatchPlaces ==
  ASSUME NEW batch \in Writes!Batches
  PROVE  /\ \E n \in Nat : DOMAIN batch = 1 .. n
         /\ \A i \in DOMAIN batch :
              /\ batch[i].char \in WrittenChars \cup {Unknown}
              /\ batch[i].val \in Values \cup {Null, Missing}
<1>1. PICK n \in 1 .. MaxQueries : batch \in [1 .. n -> Writes!Queries]
  BY DEF Writes!Batches
<1>2. DOMAIN batch = 1 .. n /\ n \in Nat
  BY <1>1, DatabaseAssumption DEF Writes!WritesAssumption
<1> QED  BY <1>1, <1>2 DEF Writes!Queries

LEMMA LastIsThere ==
  ASSUME NEW batch \in Writes!Batches, NEW Q \in SUBSET DOMAIN batch, Q # {}
  PROVE  /\ Writes!Max(Q) \in Q
         /\ \A i \in Q : i <= Writes!Max(Q)
         /\ Writes!Max(Q) \in Int
<1>1. PICK n \in Nat : DOMAIN batch = 1 .. n
  BY BatchPlaces
<1>2. PICK m \in Q : \A x \in Q : x <= m
  BY <1>1, HasMax
<1>3. Writes!Max(Q) = m
  <2>1. Q \in SUBSET Int
    BY <1>1
  <2> QED  BY <1>2, <2>1, MaxIs
<1> QED  BY <1>1, <1>2, <1>3

(* Of two sets of places the one that has the last of the other has the same *)
(* last one.                                                                 *)
LEMMA SameLast ==
  ASSUME NEW batch \in Writes!Batches, NEW Q \in SUBSET DOMAIN batch, NEW P \in SUBSET Q,
         Q # {}, Writes!Max(Q) \in P
  PROVE  Writes!Max(P) = Writes!Max(Q)
<1>1. \A i \in P : i <= Writes!Max(Q)
  BY LastIsThere
<1>2. P \in SUBSET Int
  <2>1. PICK n \in Nat : DOMAIN batch = 1 .. n
    BY BatchPlaces
  <2> QED  BY <2>1
<1> QED  BY <1>1, <1>2, MaxIs

(* A value that is taken is one that a characteristic can hold. *)
LEMMA TakenTyped ==
  ASSUME NEW batch \in Writes!Batches, NEW i \in DOMAIN batch, batch[i].char \in WrittenChars,
         Writes!Takes(batch[i])
  PROVE  /\ batch[i].val \in Values
         /\ Taken[batch[i].char][batch[i].val] # Invalid
         /\ Taken[batch[i].char][batch[i].val] \in Stored
<1>1. batch[i].val \in Values /\ Taken[batch[i].char][batch[i].val] # Invalid
  BY DEF Writes!Takes
<1>2. Taken \in [WrittenChars -> [Values -> Stored \cup {Invalid}]]
  BY DatabaseAssumption DEF Writes!WritesAssumption
<1>3. Taken[batch[i].char] \in [Values -> Stored \cup {Invalid}]
  BY <1>2
<1> QED  BY <1>1, <1>3

(* A batch leaves values that characteristics can hold. *)
LEMMA AppliedTyped ==
  ASSUME WrittenTypeOK, NEW batch \in Writes!Batches, NEW done \in SUBSET DOMAIN batch,
         NEW raises, NEW sets \in Writes!Settings
  PROVE  Writes!Applied(batch, done, raises, sets) \in [WrittenChars -> Stored \cup {Null}]
<1> SUFFICES ASSUME NEW c \in WrittenChars
             PROVE  Writes!Applied(batch, done, raises, sets)[c] \in Stored \cup {Null}
  BY DEF Writes!Applied
<1> DEFINE stored == {i \in Writes!For(batch, done, c) : Writes!Takes(batch[i])}
           taken == Taken[c][batch[Writes!Max(stored)].val]
<1>1. Writes!Applied(batch, done, raises, sets)[c]
        = IF sets[c] # Missing THEN Writes!Kept(c, sets[c])
          ELSE IF stored = {} THEN written[c]
          ELSE IF c \in raises THEN taken ELSE Writes!Kept(c, taken)
  BY DEF Writes!Applied, Writes!LastOf
<1>2. stored \in SUBSET DOMAIN batch
  BY DEF Writes!For
<1>3. \A v \in Stored : Writes!Kept(c, v) \in Stored \cup {Null}
  BY DEF Writes!Kept
<1>4. CASE sets[c] # Missing
  <2>1. sets[c] \in Stored
    BY <1>4 DEF Writes!Settings
  <2> QED  BY <1>1, <1>3, <1>4, <2>1
<1>5. CASE sets[c] = Missing /\ stored = {}
  BY <1>1, <1>5 DEF WrittenTypeOK
<1>6. CASE sets[c] = Missing /\ stored # {}
  <2>1. Writes!Max(stored) \in stored
    BY <1>2, <1>6, LastIsThere
  <2>2. /\ Writes!Max(stored) \in DOMAIN batch /\ batch[Writes!Max(stored)].char = c
        /\ Writes!Takes(batch[Writes!Max(stored)])
    BY <1>2, <2>1 DEF Writes!For
  <2> HIDE DEF stored
  <2>3. taken \in Stored
    BY <2>2, TakenTyped
  <2> HIDE DEF taken
  <2> QED  BY <1>1, <1>3, <1>6, <2>3
<1> QED  BY <1>4, <1>5, <1>6

LEMMA UntouchedWrites ==
  ASSUME WrittenInv, UNCHANGED <<written, reply>> PROVE WrittenInv'
BY DEF WrittenInv, WrittenTypeOK, SuccessIsTrue, Writes!SuccessIsTrue, Writes!Results,
       Writes!SaidToSucceed, Writes!NoReply

(* A status that says success is that of a value that was taken. *)
LEMMA SuccessMeans ==
  ASSUME NEW batch \in Writes!Batches, NEW done \in SUBSET DOMAIN batch,
         NEW c \in Writes!Touched(batch, done), NEW raises,
         Writes!StatusOf(batch, done, c, raises) = "SUCCESS"
  PROVE  /\ Writes!LastOf(batch, Writes!For(batch, done, c)) \in Values
         /\ Taken[c][Writes!LastOf(batch, Writes!For(batch, done, c))] # Invalid
         /\ c \notin raises
         /\ \A s \in (WrittenServices \cup WrittenAccessories) \cap raises : c \notin s
<1> DEFINE Q == Writes!For(batch, done, c)
<1>1. Q \in SUBSET DOMAIN batch /\ Q # {}
  BY DEF Writes!For, Writes!Touched
<1>2. Writes!Max(Q) \in Q
  BY <1>1, LastIsThere
<1>3. Writes!LastOf(batch, Q) \in Values \cup {Null, Missing}
  BY <1>1, <1>2, BatchPlaces DEF Writes!LastOf
<1>4. Writes!CharStatus(batch, done, c, raises) = "SUCCESS"
        /\ \A s \in (WrittenServices \cup WrittenAccessories) \cap raises : c \notin s
  BY DEF Writes!StatusOf
<1>5. Writes!LastOf(batch, Q) \notin {Missing, Null} /\ Taken[c][Writes!LastOf(batch, Q)] # Invalid
        /\ c \notin raises
  <2> HIDE DEF Q
  <2>1. Writes!CharStatus(batch, done, c, raises)
          = IF Writes!LastOf(batch, Q) \in {Missing, Null} THEN "INVALID_VALUE_IN_REQUEST"
            ELSE IF Taken[c][Writes!LastOf(batch, Q)] = Invalid \/ c \in raises
                 THEN "SERVICE_COMMUNICATION_FAILURE"
                 ELSE "SUCCESS"
    BY DEF Writes!CharStatus, Q
  <2> QED  BY <2>1, <1>4
<1> QED  BY <1>3, <1>4, <1>5

(* What the response says to be written is the last that was asked for.  The *)
(* whole batch was executed, or there is an error for all of it.             *)
LEMMA WriteTells ==
  ASSUME WrittenInv, NEW p \in Peers, Writes!Write(p) PROVE WrittenInv'
<1>1. PICK raises \in SUBSET Writes!Callbacks, sets \in Writes!Settings,
          pid \in Pids \cup {Missing}, batch \in Writes!Batches :
        Writes!SetCharacteristics(p, pid, batch, raises, sets)
  BY DEF Writes!Write
<1> DEFINE expired == Writes!Expired(p, pid)
           queries == Writes!ToExecute(batch, expired)
           done == Writes!Executed(batch, queries)
           status == [c \in Writes!Touched(batch, done) |-> Writes!StatusOf(batch, done, c, raises)]
<1>2. PICK k \in Writes!KindsOf(done = queries, status) :
        /\ written' = Writes!Applied(batch, done, raises, sets)
        /\ reply' = Writes!Response(k, status, batch, pid # Missing, expired, raises, sets)
  BY <1>1 DEF Writes!SetCharacteristics
<1>3. /\ reply'.kind = k /\ reply'.status = status
      /\ reply'.batch = batch /\ reply'.raises = raises /\ reply'.sets = sets
  <2> HIDE DEF status, expired
  <2> QED  BY <1>2 DEF Writes!Response
<1>4. done \in SUBSET DOMAIN batch /\ queries \in SUBSET DOMAIN batch
  BY DEF Writes!Executed, Writes!ToExecute
<1>5. WrittenTypeOK'
  <2>1. k \in {"204", "207", "500"}
    BY <1>2 DEF Writes!KindsOf
  <2> HIDE DEF status, expired, queries, done
  <2> QED  BY <1>2, <1>3, <1>4, <2>1, AppliedTyped DEF WrittenInv, WrittenTypeOK
<1> DEFINE asked(c) == Writes!For(batch, Writes!ToExecute(batch, FALSE), c)
           last(c) == Writes!LastOf(batch, asked(c))
<1>6. ASSUME NEW c \in WrittenChars, Writes!Results', Writes!SaidToSucceed(c)'
      PROVE  /\ last(c) \in Values /\ Taken[c][last(c)] # Invalid
             /\ written'[c] = Writes!Kept(c, IF sets[c] # Missing THEN sets[c] ELSE Taken[c][last(c)])
             /\ c \notin raises
             /\ \A s \in (WrittenServices \cup WrittenAccessories) \cap raises : c \notin s
  <2>1. done = queries /\ (k = "204" => \A d \in DOMAIN status : status[d] = "SUCCESS")
    BY <1>2, <1>3, <1>6 DEF Writes!Results, Writes!KindsOf
  <2>2. Writes!ToExecute(batch, FALSE) \subseteq done
    BY <2>1 DEF Writes!ToExecute
  <2>3. c \in Writes!Touched(batch, done)
          /\ Writes!StatusOf(batch, done, c, raises) = "SUCCESS"
    <3>1. CASE k = "204"
      <4>1. c \in Writes!Touched(batch, Writes!ToExecute(batch, FALSE))
        BY <1>3, <1>6, <3>1 DEF Writes!SaidToSucceed
      <4>2. c \in Writes!Touched(batch, done)
        BY <2>2, <4>1 DEF Writes!Touched
      <4> QED  BY <2>1, <3>1, <4>2
    <3>2. CASE k # "204"
      <4>1. c \in DOMAIN status /\ status[c] = "SUCCESS"
        <5> HIDE DEF status
        <5> QED  BY <1>3, <1>6, <3>2 DEF Writes!SaidToSucceed
      <4> QED  BY <4>1
    <3> QED  BY <3>1, <3>2
  <2> DEFINE Q == Writes!For(batch, done, c)
             stored == {i \in Q : Writes!Takes(batch[i])}
  <2>4. /\ Writes!LastOf(batch, Q) \in Values /\ Taken[c][Writes!LastOf(batch, Q)] # Invalid
        /\ c \notin raises
        /\ \A s \in (WrittenServices \cup WrittenAccessories) \cap raises : c \notin s
    <3> HIDE DEF done, queries, expired
    <3> QED  BY <1>4, <2>3, SuccessMeans
  <2>5. Q \in SUBSET DOMAIN batch /\ Q # {} /\ asked(c) \subseteq Q
    <3> HIDE DEF done, queries, expired
    <3>1. Q \in SUBSET DOMAIN batch /\ Q # {}
      BY <1>4, <2>3 DEF Writes!For, Writes!Touched
    <3>2. asked(c) \subseteq Q
      BY <2>2 DEF Writes!For
    <3> QED  BY <3>1, <3>2
  <2>6. /\ Writes!Max(Q) \in Q /\ batch[Writes!Max(Q)].val \in Values
        /\ Taken[c][batch[Writes!Max(Q)].val] # Invalid
    <3> HIDE DEF Q
    <3> QED  BY <2>4, <2>5, LastIsThere DEF Writes!LastOf
  <2>7. Missing \notin Values
    BY DatabaseAssumption DEF Writes!WritesAssumption
  <2>8. batch[Writes!Max(Q)].char = c
    <3>1. \A i \in Q : batch[i].char = c
      BY DEF Writes!For
    <3> HIDE DEF Q
    <3> QED  BY <2>6, <3>1
  <2>9. Writes!Max(Q) \in asked(c)
    <3>1. Writes!Max(Q) \in Writes!ToExecute(batch, FALSE)
      <4>1. Writes!Max(Q) \in DOMAIN batch
        <5> HIDE DEF Q
        <5> QED  BY <2>5, <2>6
      <4> HIDE DEF Q
      <4> QED  BY <2>6, <2>7, <4>1 DEF Writes!ToExecute
    <3> HIDE DEF Q
    <3> QED  BY <2>8, <3>1 DEF Writes!For
  <2>10. Writes!Max(Q) \in stored /\ stored \subseteq Q /\ stored # {}
    <3>1. Writes!Takes(batch[Writes!Max(Q)])
      <4> HIDE DEF Q
      <4> QED  BY <2>6, <2>8 DEF Writes!Takes
    <3> HIDE DEF Q
    <3> QED  BY <2>6, <3>1
  <2>11. Writes!Max(asked(c)) = Writes!Max(Q) /\ Writes!Max(stored) = Writes!Max(Q)
    <3> HIDE DEF Q, asked, stored
    <3> QED  BY <2>5, <2>9, <2>10, SameLast
  <2>12. Writes!LastOf(batch, stored) = last(c) /\ Writes!LastOf(batch, Q) = last(c)
    <3> HIDE DEF Q, asked, stored
    <3> QED  BY <2>11 DEF Writes!LastOf
  <2>13. written'[c] = IF sets[c] # Missing THEN Writes!Kept(c, sets[c])
                       ELSE Writes!Kept(c, Taken[c][last(c)])
    <3>1. Writes!Applied(batch, done, raises, sets)[c]
            = IF sets[c] # Missing THEN Writes!Kept(c, sets[c])
              ELSE IF stored = {} THEN written[c]
              ELSE IF c \in raises THEN Taken[c][Writes!LastOf(batch, stored)]
              ELSE Writes!Kept(c, Taken[c][Writes!LastOf(batch, stored)])
      <4> HIDE DEF done
      <4> QED  BY DEF Writes!Applied
    <3> HIDE DEF stored, done, last
    <3> QED  BY <1>2, <2>4, <2>10, <2>12, <3>1
  <2> HIDE DEF Q, asked, stored, last
  <2> QED  BY <2>4, <2>12, <2>13
<1>7. SuccessIsTrue'
  <2> HIDE DEF expired, queries, done, status
  <2> QED  BY <1>3, <1>6 DEF SuccessIsTrue, Writes!SuccessIsTrue
<1> QED  BY <1>5, <1>7 DEF WrittenInv

LEMMA WrittenStep ==
  ASSUME WrittenInv, Writes!Next \/ UNCHANGED writeVars PROVE WrittenInv'
<1>1. ASSUME UNCHANGED <<written, reply>> PROVE WrittenInv'
  BY <1>1, UntouchedWrites
<1>2. CASE Writes!ReplyArrives
  BY <1>2 DEF Writes!ReplyArrives, WrittenInv, WrittenTypeOK, SuccessIsTrue,
              Writes!SuccessIsTrue, Writes!Results, Writes!NoReply
<1>3. ASSUME NEW p \in Peers,
             Writes!Connect(p) \/ Writes!ConnectionLost(p)
               \/ \E pid \in Pids, ttl \in TTLs : Writes!Prepare(p, pid, ttl)
      PROVE  WrittenInv'
  BY <1>1, <1>3 DEF Writes!Connect, Writes!ConnectionLost, Writes!Prepare
<1>4. CASE Writes!Tick \/ UNCHANGED writeVars
  BY <1>1, <1>4 DEF Writes!Tick, writeVars
<1> QED  BY <1>2, <1>3, <1>4, WriteTells DEF Writes!Next

----------------------------------------------------------------------------
(* The value: what an actor has still to do *)

Instructions == Value!Instructions

(* What comes after a step in what an actor has still to do. *)
Follows(s, n) ==
  /\ s[n].do = "store" =>
       /\ n + 2 <= Len(s)
       /\ s[n + 1] = [do |-> "clear", of |-> "plain"] /\ s[n + 2] = [do |-> "clear", of |-> "full"]
  /\ s[n].do \in {"adjust", "check", "fill"} => n = Len(s)
  /\ s[n].do = "valid_values" => n + 1 = Len(s) /\ s[n + 1].do = "adjust"
  /\ s[n].do = "properties" =>
       /\ n + 2 = Len(s) /\ s[n + 2].do = "adjust"
       /\ s[n + 1].do = "valid_values" /\ s[n + 1].of = s[n].of
  /\ s[n].do = "represent" =>
       /\ n + 1 <= Len(s)
       /\ s[n + 1].do = "get" \/ s[n + 1] = [do |-> "fill", of |-> "plain"]
  /\ s[n].do = "get" => n + 1 = Len(s) /\ s[n + 1] = [do |-> "fill", of |-> "full"]
  /\ n + 1 <= Len(s) =>
       /\ s[n + 1].do \in {"get", "fill"} => s[n].do \in {"represent", "get"}
       /\ s[n + 1].do = "adjust" => s[n].do = "valid_values"
       /\ s[n + 1].do = "valid_values" => s[n].do = "properties"

(* Only a type in ALWAYS_NULL stores None, and it does so at last.  In other  *)
(* calls a store is the first step, and a callback the last.                  *)
StoresLast(s, n) ==
  s[n].do = "store" /\ s[n].val # None =>
    \E m \in n + 1 .. Len(s) : s[m].do = "store" /\ s[m].val = None

StoresFirst(s, n) ==
  /\ s[n].do = "store" => n = 1 /\ s[n].val \in Int
  /\ s[n].do = "callback" => n = Len(s)

Proper(k, s) ==
  \A n \in 1 .. Len(s) : /\ Follows(s, n)
                         /\ k = "null" => StoresLast(s, n)
                         /\ k # "null" => StoresFirst(s, n)

Starts(s, dos) == s # <<>> /\ s[1].do \in dos

(* The cache will be cleared, and no callback can end the call before. *)
Clears(s, c) ==
  \E n \in 1 .. Len(s) :
    /\ s[n].do = "adjust" \/ s[n] = [do |-> "clear", of |-> c]
    /\ \A m \in 1 .. n : s[m].do # "callback"

Checks(s) == \E n \in 1 .. Len(s) : s[n].do = "check"

StoresNone(s) == \E n \in 1 .. Len(s) : s[n].do = "store" /\ s[n].val = None

LEMMA FollowsShifted ==
  ASSUME NEW s \in Seq(Instructions), NEW t \in Seq(Instructions), NEW k \in Nat,
         Len(s) = k + Len(t), \A n \in 1 .. Len(t) : s[n + k] = t[n],
         NEW n \in 1 .. Len(t)
  PROVE  Follows(t, n) <=> Follows(s, n + k)
<1>1. /\ n \in Int /\ k \in Nat /\ Len(t) \in Nat /\ Len(s) = Len(t) + k
      /\ (n + k) + 1 = (n + 1) + k /\ (n + k) + 2 = (n + 2) + k
  OBVIOUS
<1>2. s[n + k] = t[n]
  OBVIOUS
<1>3. ASSUME n + 1 <= Len(t) PROVE s[(n + 1) + k] = t[n + 1]
  BY <1>1, <1>3
<1>4. ASSUME n + 2 <= Len(t) PROVE s[(n + 2) + k] = t[n + 2]
  BY <1>1, <1>4
<1> DEFINE i == n + k
<1> HIDE DEF i
<1>5. CASE n + 2 <= Len(t)
  <2>1. n + 1 <= Len(t) /\ n # Len(t) /\ n + 1 # Len(t)
    BY <1>1, <1>5
  <2>2. i + 1 <= Len(s) /\ i + 2 <= Len(s) /\ i # Len(s) /\ i + 1 # Len(s)
    BY <1>1, <2>1, <1>5 DEF i
  <2>3. s[i] = t[n] /\ s[i + 1] = t[n + 1] /\ s[i + 2] = t[n + 2]
    BY <1>1, <1>2, <1>3, <1>4, <2>1, <1>5 DEF i
  <2>4. n + 2 = Len(t) <=> i + 2 = Len(s)
    <3> DEFINE x == Len(t)
    <3>1. x \in Nat /\ Len(s) = x + k
      BY <1>1
    <3> HIDE DEF x
    <3>2. n + 2 = x <=> (n + k) + 2 = x + k
      BY <1>1, <3>1
    <3> QED  BY <3>1, <3>2 DEF x, i
  <2> QED  BY <1>5, <2>1, <2>2, <2>3, <2>4, Zenon DEF Follows, i
<1>6. CASE n + 1 = Len(t)
  <2>1. n + 1 <= Len(t) /\ n # Len(t) /\ ~ (n + 2 <= Len(t)) /\ n + 2 # Len(t)
    BY <1>1, <1>6
  <2>2. i + 1 <= Len(s) /\ ~ (i + 2 <= Len(s)) /\ i # Len(s) /\ i + 1 = Len(s) /\ i + 2 # Len(s)
    BY <1>1, <2>1, <1>6 DEF i
  <2>3. s[i] = t[n] /\ s[i + 1] = t[n + 1]
    BY <1>1, <1>2, <1>3, <2>1, <1>6 DEF i
  <2> QED  BY <1>6, <2>1, <2>2, <2>3, Zenon DEF Follows, i
<1>7. CASE n = Len(t)
  <2>1. ~ (n + 1 <= Len(t)) /\ ~ (n + 2 <= Len(t)) /\ n + 1 # Len(t) /\ n + 2 # Len(t)
    BY <1>1, <1>7
  <2>2. ~ (i + 1 <= Len(s)) /\ ~ (i + 2 <= Len(s)) /\ i = Len(s) /\ i + 1 # Len(s) /\ i + 2 # Len(s)
    BY <1>1, <2>1, <1>7 DEF i
  <2> QED  BY <1>7, <1>2, <2>1, <2>2, Zenon DEF Follows, i
<1> QED  BY <1>1, <1>5, <1>6, <1>7

LEMMA TailIs ==
  ASSUME NEW s \in Seq(Instructions), s # <<>>
  PROVE  /\ Tail(s) \in Seq(Instructions)
         /\ Len(s) = 1 + Len(Tail(s)) /\ Len(Tail(s)) \in Nat
         /\ \A n \in 1 .. Len(Tail(s)) : s[n + 1] = Tail(s)[n]
         /\ s[1] \in Instructions
OBVIOUS

LEMMA TailIsProper ==
  ASSUME NEW k, NEW s \in Seq(Instructions), s # <<>>, Proper(k, s)
  PROVE  /\ Proper(k, Tail(s))
         /\ k # "null" => \A n \in 1 .. Len(Tail(s)) : Tail(s)[n].do # "store"
<1> DEFINE t == Tail(s)
<1>1. /\ t \in Seq(Instructions) /\ Len(s) = 1 + Len(t) /\ Len(t) \in Nat
      /\ \A n \in 1 .. Len(t) : s[n + 1] = t[n]
  BY TailIs
<1> HIDE DEF t
<1>2. ASSUME NEW n \in 1 .. Len(t) PROVE n + 1 \in 1 .. Len(s) /\ n + 1 # 1 /\ s[n + 1] = t[n]
  BY <1>1
<1>3. ASSUME NEW n \in 1 .. Len(t) PROVE Follows(t, n)
  <2>1. Follows(s, n + 1)
    BY <1>2 DEF Proper
  <2> QED  BY <1>1, <2>1, FollowsShifted
<1>4. ASSUME NEW n \in 1 .. Len(t), k = "null" PROVE StoresLast(t, n)
  <2>1. StoresLast(s, n + 1)
    BY <1>2, <1>4 DEF Proper
  <2>2. ASSUME NEW m \in (n + 1) + 1 .. Len(s)
        PROVE  m - 1 \in n + 1 .. Len(t) /\ t[m - 1] = s[m]
    <3>1. m - 1 \in n + 1 .. Len(t) /\ m - 1 \in 1 .. Len(t) /\ (m - 1) + 1 = m
      BY <1>1
    <3> QED  BY <1>1, <3>1
  <2> QED  BY <1>2, <2>1, <2>2 DEF StoresLast
<1>5. ASSUME NEW n \in 1 .. Len(t), k # "null" PROVE StoresFirst(t, n) /\ t[n].do # "store"
  <2>1. StoresFirst(s, n + 1)
    BY <1>2, <1>5 DEF Proper
  <2>2. n + 1 = Len(s) => n = Len(t)
    BY <1>1
  <2> QED  BY <1>2, <2>1, <2>2 DEF StoresFirst
<1> QED  BY <1>3, <1>4, <1>5 DEF Proper, t

(* What is left after the first step. *)
LEMMA TailKeeps ==
  ASSUME NEW s \in Seq(Instructions), s # <<>>
  PROVE  /\ \A c : Clears(s, c) /\ s[1].do # "adjust" /\ s[1] # [do |-> "clear", of |-> c]
                     => Clears(Tail(s), c)
         /\ Checks(Tail(s)) => Checks(s)
         /\ Checks(s) /\ s[1].do # "check" => Checks(Tail(s))
         /\ StoresNone(s) /\ ~ (s[1].do = "store" /\ s[1].val = None) => StoresNone(Tail(s))
<1> DEFINE t == Tail(s)
<1>1. /\ t \in Seq(Instructions) /\ Len(s) = 1 + Len(t) /\ Len(t) \in Nat
      /\ \A n \in 1 .. Len(t) : s[n + 1] = t[n]
  BY TailIs
<1> HIDE DEF t
<1>2. ASSUME NEW n \in 1 .. Len(s), n # 1
      PROVE  n - 1 \in 1 .. Len(t) /\ t[n - 1] = s[n]
  <2>1. n - 1 \in 1 .. Len(t) /\ (n - 1) + 1 = n
    BY <1>1, <1>2
  <2> QED  BY <1>1, <2>1
<1>3. ASSUME NEW n \in 1 .. Len(t) PROVE n + 1 \in 1 .. Len(s) /\ s[n + 1] = t[n]
  BY <1>1
<1>4. ASSUME NEW c, Clears(s, c), s[1].do # "adjust", s[1] # [do |-> "clear", of |-> c]
      PROVE  Clears(t, c)
  <2>1. PICK n \in 1 .. Len(s) :
          /\ s[n].do = "adjust" \/ s[n] = [do |-> "clear", of |-> c]
          /\ \A m \in 1 .. n : s[m].do # "callback"
    BY <1>4 DEF Clears
  <2>2. n # 1
    BY <1>4, <2>1
  <2>3. n - 1 \in 1 .. Len(t) /\ t[n - 1] = s[n]
    BY <1>2, <2>2
  <2>4. ASSUME NEW m \in 1 .. n - 1 PROVE t[m].do # "callback"
    <3>1. m \in 1 .. Len(t) /\ m + 1 \in 1 .. n
      BY <1>1, <2>2
    <3> QED  BY <1>3, <2>1, <3>1
  <2> QED  BY <2>1, <2>3, <2>4 DEF Clears
<1>5. Checks(t) => Checks(s)
  BY <1>3 DEF Checks
<1>6. Checks(s) /\ s[1].do # "check" => Checks(t)
  BY <1>2 DEF Checks
<1>7. StoresNone(s) /\ ~ (s[1].do = "store" /\ s[1].val = None) => StoresNone(t)
  BY <1>2 DEF StoresNone
<1> QED  BY <1>4, <1>5, <1>6, <1>7 DEF t

LEMMA OneAndTwo ==
  ASSUME NEW S, NEW a \in S, NEW b \in S, NEW c \in S
  PROVE  <<a>> \o <<b, c>> = <<a, b, c>>
<1>1. /\ <<a>> \in Seq(S) /\ <<b, c>> \in Seq(S) /\ <<a, b, c>> \in Seq(S)
      /\ Len(<<a>>) = 1 /\ Len(<<b, c>>) = 2 /\ Len(<<a, b, c>>) = 3
  OBVIOUS
<1>2. /\ <<a>> \o <<b, c>> \in Seq(S) /\ Len(<<a>> \o <<b, c>>) = 3
      /\ \A i \in 1 .. 3 : (<<a>> \o <<b, c>>)[i] = IF i <= 1 THEN <<a>>[i] ELSE <<b, c>>[i - 1]
  BY <1>1, ConcatProperties
<1>3. ASSUME NEW i \in 1 .. 3 PROVE (<<a>> \o <<b, c>>)[i] = <<a, b, c>>[i]
  <2>1. i = 1 \/ i = 2 \/ i = 3
    OBVIOUS
  <2> QED  BY <1>2, <2>1
<1> QED  BY <1>1, <1>2, <1>3, SeqEqual

LEMMA AssignIsASequence ==
  ASSUME NEW v \in Int \cup {None}
  PROVE  Value!Assign(v) \in Seq(Instructions)
<1>1. /\ [do |-> "store", val |-> v] \in Instructions
      /\ [do |-> "clear", of |-> "plain"] \in Instructions
      /\ [do |-> "clear", of |-> "full"] \in Instructions
  BY DEF Instructions, Value!Instructions, Value!Caches
<1>2. <<[do |-> "store", val |-> v]>> \in Seq(Instructions)
  BY <1>1
<1>3. <<[do |-> "clear", of |-> "plain"], [do |-> "clear", of |-> "full"]>> \in Seq(Instructions)
  BY <1>1
<1> QED  BY <1>2, <1>3, ConcatProperties DEF Value!Assign, Value!Store, Value!Clear

(* A call that assigns a value, and then does t. *)
LEMMA AssignIs ==
  ASSUME NEW v \in Int \cup {None}, NEW t \in Seq(Instructions)
  PROVE  /\ Value!Assign(v) \o t \in Seq(Instructions)
         /\ Len(Value!Assign(v) \o t) = 3 + Len(t) /\ Len(t) \in Nat
         /\ (Value!Assign(v) \o t)[1] = [do |-> "store", val |-> v]
         /\ (Value!Assign(v) \o t)[2] = [do |-> "clear", of |-> "plain"]
         /\ (Value!Assign(v) \o t)[3] = [do |-> "clear", of |-> "full"]
         /\ \A n \in 1 .. Len(t) : (Value!Assign(v) \o t)[n + 3] = t[n]
         /\ Value!Assign(v) \o t # <<>>
<1> DEFINE store == [do |-> "store", val |-> v]
           plain == [do |-> "clear", of |-> "plain"]
           full == [do |-> "clear", of |-> "full"]
<1>1. store \in Instructions /\ plain \in Instructions /\ full \in Instructions
  BY DEF Instructions, Value!Instructions, Value!Caches
<1> HIDE DEF store, plain, full
<1>2. Value!Assign(v) = <<store, plain, full>>
  <2>1. Value!Assign(v) = <<store>> \o <<plain, full>>
    BY Zenon DEF Value!Assign, Value!Store, Value!Clear, store, plain, full
  <2> QED  BY <1>1, <2>1, OneAndTwo
<1> DEFINE h == <<store, plain, full>>
<1>3. h \in Seq(Instructions) /\ Len(h) = 3 /\ h[1] = store /\ h[2] = plain /\ h[3] = full
  BY <1>1
<1> HIDE DEF h
<1>4. /\ h \o t \in Seq(Instructions)
      /\ Len(h \o t) = Len(h) + Len(t)
      /\ \A i \in 1 .. Len(h) + Len(t) :
           (h \o t)[i] = IF i <= Len(h) THEN h[i] ELSE t[i - Len(h)]
  BY <1>3, ConcatProperties
<1>5. Len(t) \in Nat
  OBVIOUS
<1>6. ASSUME NEW n \in 1 .. Len(t) PROVE (h \o t)[n + 3] = t[n]
  <2>1. n + 3 \in 1 .. 3 + Len(t) /\ ~ (n + 3 <= 3) /\ (n + 3) - 3 = n
    BY <1>5
  <2> QED  BY <1>3, <1>4, <2>1
<1>7. (h \o t)[1] = store /\ (h \o t)[2] = plain /\ (h \o t)[3] = full
  <2>1. /\ 1 \in 1 .. 3 + Len(t) /\ 2 \in 1 .. 3 + Len(t) /\ 3 \in 1 .. 3 + Len(t)
        /\ 1 <= 3 /\ 2 <= 3 /\ 3 <= 3
    BY <1>5
  <2> QED  BY <1>3, <1>4, <2>1
<1>8. h \o t # <<>>
  BY <1>3, <1>4, <1>5
<1> QED  BY <1>2, <1>3, <1>4, <1>5, <1>6, <1>7, <1>8 DEF h, store, plain, full

(* What a call may do after it assigned a value. *)
Continues(t) == t = <<>> \/ t[1].do \in {"store", "callback", "check"}

NeverStores(t) == \A n \in 1 .. Len(t) : t[n].do # "store"

(* s assigns v, before anything else. *)
Assigns(k, s, v) ==
  /\ s \in Seq(Instructions) /\ s # <<>> /\ Proper(k, s)
  /\ s[1] = [do |-> "store", val |-> v]
  /\ \A c \in Value!Caches : Clears(s, c)
  /\ k = "null" => StoresNone(s)

LEMMA AssignThen ==
  ASSUME NEW k, NEW v \in Int \cup {None}, NEW t \in Seq(Instructions),
         Proper(k, t), Continues(t),
         k = "null" => v = None \/ StoresNone(t),
         k # "null" => v \in Int /\ NeverStores(t)
  PROVE  /\ Assigns(k, Value!Assign(v) \o t, v)
         /\ Checks(Value!Assign(v) \o t) <=> Checks(t)
<1> DEFINE s == Value!Assign(v) \o t
<1>1. /\ s \in Seq(Instructions) /\ s # <<>>
      /\ Len(s) = 3 + Len(t) /\ Len(t) \in Nat
      /\ s[1] = [do |-> "store", val |-> v]
      /\ s[2] = [do |-> "clear", of |-> "plain"]
      /\ s[3] = [do |-> "clear", of |-> "full"]
      /\ \A n \in 1 .. Len(t) : s[n + 3] = t[n]
  BY AssignIs
<1> HIDE DEF s
<1>2. /\ s[1].do = "store" /\ s[1].val = v
      /\ s[2].do = "clear" /\ s[2].of = "plain" /\ s[3].do = "clear" /\ s[3].of = "full"
  BY <1>1
<1>3. /\ 1 \in 1 .. Len(s) /\ 2 \in 1 .. Len(s) /\ 3 \in 1 .. Len(s)
      /\ 1 + 1 = 2 /\ 1 + 2 = 3 /\ 2 + 1 = 3 /\ 3 + 1 = 4
      /\ 1 + 2 <= Len(s)
  BY <1>1
<1>4. ASSUME NEW n \in 1 .. Len(t) PROVE n + 3 \in 1 .. Len(s) /\ s[n + 3] = t[n] /\ n + 3 # 1
  BY <1>1
<1>5. ASSUME NEW n \in 1 .. Len(s), n # 1, n # 2, n # 3
      PROVE  n - 3 \in 1 .. Len(t) /\ (n - 3) + 3 = n /\ s[n] = t[n - 3]
  <2>1. n - 3 \in 1 .. Len(t) /\ (n - 3) + 3 = n
    BY <1>1, <1>5
  <2> QED  BY <1>1, <2>1
<1>6. 4 <= Len(s) => s[4].do \in {"store", "callback", "check"}
  <2>1. ASSUME 4 <= Len(s) PROVE t[1].do \in {"store", "callback", "check"} /\ s[4] = t[1]
    <3>1. 1 \in 1 .. Len(t) /\ 1 + 3 = 4
      BY <1>1, <2>1
    <3>2. t # <<>>
      BY <3>1
    <3> QED  BY <1>4, <3>1, <3>2 DEF Continues
  <2> QED  BY <2>1
<1>7. Follows(s, 1) /\ Follows(s, 2) /\ Follows(s, 3)
  <2>1. Follows(s, 1)
    BY <1>1, <1>2, <1>3 DEF Follows
  <2>2. Follows(s, 2)
    BY <1>1, <1>2, <1>3 DEF Follows
  <2>3. Follows(s, 3)
    BY <1>1, <1>2, <1>3, <1>6 DEF Follows
  <2> QED  BY <2>1, <2>2, <2>3
<1>8. ASSUME NEW n \in 1 .. Len(s) PROVE Follows(s, n)
  <2>1. CASE n = 1 \/ n = 2 \/ n = 3
    BY <1>7, <2>1
  <2>2. CASE n # 1 /\ n # 2 /\ n # 3
    <3>1. n - 3 \in 1 .. Len(t) /\ (n - 3) + 3 = n
      BY <1>5, <2>2
    <3>2. Follows(t, n - 3)
      BY <3>1 DEF Proper
    <3>3. Follows(s, (n - 3) + 3)
      <4>1. 3 \in Nat
        OBVIOUS
      <4> QED  BY <1>1, <3>1, <3>2, <4>1, FollowsShifted
    <3> QED  BY <3>1, <3>3
  <2> QED  BY <2>1, <2>2
<1>9. ASSUME k = "null" PROVE StoresNone(s)
  <2>1. CASE v = None
    BY <1>2, <1>3, <2>1 DEF StoresNone
  <2>2. CASE StoresNone(t)
    BY <1>4, <2>2 DEF StoresNone
  <2> QED  BY <1>9, <2>1, <2>2
<1>10. ASSUME NEW n \in 1 .. Len(s), k = "null" PROVE StoresLast(s, n)
  <2>1. CASE n = 1
    <3>1. ASSUME v # None PROVE \E m \in 1 + 1 .. Len(s) : s[m].do = "store" /\ s[m].val = None
      <4>1. PICK m \in 1 .. Len(t) : t[m].do = "store" /\ t[m].val = None
        BY <1>10, <3>1 DEF StoresNone
      <4>2. m + 3 \in 1 + 1 .. Len(s) /\ s[m + 3] = t[m]
        <5>1. m + 3 \in 1 + 1 .. Len(s)
          BY <1>1
        <5> QED  BY <1>4, <5>1
      <4> QED  BY <4>1, <4>2
    <3> QED  BY <1>2, <2>1, <3>1 DEF StoresLast
  <2>2. CASE n = 2 \/ n = 3
    BY <1>2, <2>2 DEF StoresLast
  <2>3. CASE n # 1 /\ n # 2 /\ n # 3
    <3>1. n - 3 \in 1 .. Len(t) /\ (n - 3) + 3 = n /\ s[n] = t[n - 3]
      BY <1>5, <2>3
    <3>2. StoresLast(t, n - 3)
      BY <1>10, <3>1 DEF Proper
    <3>3. ASSUME NEW m \in (n - 3) + 1 .. Len(t) PROVE m + 3 \in n + 1 .. Len(s) /\ s[m + 3] = t[m]
      <4>1. m \in 1 .. Len(t) /\ m + 3 \in n + 1 .. Len(s)
        BY <1>1, <3>1
      <4> QED  BY <1>4, <4>1
    <3> QED  BY <3>1, <3>2, <3>3 DEF StoresLast
  <2> QED  BY <2>1, <2>2, <2>3
<1>11. ASSUME NEW n \in 1 .. Len(s), k # "null" PROVE StoresFirst(s, n)
  <2>1. CASE n = 1
    BY <1>2, <1>11, <2>1 DEF StoresFirst
  <2>2. CASE n = 2 \/ n = 3
    BY <1>2, <2>2 DEF StoresFirst
  <2>3. CASE n # 1 /\ n # 2 /\ n # 3
    <3>1. n - 3 \in 1 .. Len(t) /\ (n - 3) + 3 = n /\ s[n] = t[n - 3]
      BY <1>5, <2>3
    <3>2. StoresFirst(t, n - 3)
      BY <1>11, <3>1 DEF Proper
    <3>3. t[n - 3].do # "store"
      BY <1>11, <3>1 DEF NeverStores
    <3>4. n - 3 = Len(t) => n = Len(s)
      BY <1>1, <3>1
    <3> QED  BY <3>1, <3>2, <3>3, <3>4 DEF StoresFirst
  <2> QED  BY <2>1, <2>2, <2>3
<1>12. ASSUME NEW c \in Value!Caches PROVE Clears(s, c)
  <2>1. PICK n \in 2 .. 3 : s[n] = [do |-> "clear", of |-> c]
    BY <1>1 DEF Value!Caches
  <2>2. n \in 1 .. Len(s)
    BY <1>1
  <2>3. ASSUME NEW m \in 1 .. n PROVE s[m].do # "callback"
    <3>1. m = 1 \/ m = 2 \/ m = 3
      OBVIOUS
    <3> QED  BY <1>2, <3>1
  <2> QED  BY <2>1, <2>2, <2>3 DEF Clears
<1>13. Checks(s) <=> Checks(t)
  <2>1. ASSUME NEW n \in 1 .. Len(s), s[n].do = "check" PROVE Checks(t)
    <3>1. n # 1 /\ n # 2 /\ n # 3
      BY <1>2, <2>1
    <3> QED  BY <1>5, <2>1, <3>1 DEF Checks
  <2>2. ASSUME NEW n \in 1 .. Len(t), t[n].do = "check" PROVE Checks(s)
    BY <1>4, <2>2 DEF Checks
  <2> QED  BY <2>1, <2>2 DEF Checks
<1>14. Proper(k, s)
  BY <1>8, <1>10, <1>11 DEF Proper
<1> QED  BY <1>1, <1>9, <1>12, <1>13, <1>14 DEF s, Assigns

LEMMA NothingLeft ==
  ASSUME NEW k
  PROVE  /\ <<>> \in Seq(Instructions) /\ Proper(k, <<>>) /\ Continues(<<>>)
         /\ NeverStores(<<>>) /\ ~ Checks(<<>>)
  BY DEF Proper, Continues, NeverStores, Checks

LEMMA AssignsAlone ==
  ASSUME NEW k, NEW v \in Int \cup {None}, k = "null" => v = None, k # "null" => v \in Int
  PROVE  Assigns(k, Value!Assign(v), v) /\ ~ Checks(Value!Assign(v))
<1>1. Value!Assign(v) \o <<>> = Value!Assign(v)
  BY AssignIsASequence, ConcatEmptySeq
<1>2. Assigns(k, Value!Assign(v) \o <<>>, v) /\ ~ Checks(Value!Assign(v) \o <<>>)
  BY NothingLeft, AssignThen
<1> QED  BY <1>1, <1>2

LEMMA ResetIs ==
  /\ Value!ResetIfNull \in Seq(Instructions)
  /\ Proper(kind, Value!ResetIfNull) /\ Continues(Value!ResetIfNull)
  /\ ~ Checks(Value!ResetIfNull)
  /\ kind = "null" => Assigns(kind, Value!ResetIfNull, None) /\ ~ Checks(Value!ResetIfNull)
  /\ kind # "null" => Value!ResetIfNull = <<>>
<1>1. CASE kind = "null"
  <2>1. Value!ResetIfNull = Value!Assign(None)
    BY <1>1 DEF Value!ResetIfNull
  <2>2. Assigns(kind, Value!Assign(None), None) /\ ~ Checks(Value!Assign(None))
    BY <1>1, AssignsAlone
  <2> QED  BY <1>1, <2>1, <2>2 DEF Assigns, Continues
<1>2. CASE kind # "null"
  BY <1>2, NothingLeft DEF Value!ResetIfNull
<1> QED  BY <1>1, <1>2

LEMMA AssignsAndResets ==
  ASSUME NEW v \in Int \cup {None}, kind # "null" => v \in Int
  PROVE  /\ Assigns(kind, Value!Assign(v) \o Value!ResetIfNull, v)
         /\ ~ Checks(Value!Assign(v) \o Value!ResetIfNull)
<1>1. kind = "null" => StoresNone(Value!ResetIfNull)
  BY ResetIs DEF Assigns
<1>2. kind # "null" => NeverStores(Value!ResetIfNull)
  BY ResetIs, NothingLeft
<1> QED  BY <1>1, <1>2, ResetIs, AssignThen DEF Assigns

(* A callback that sets the value resets it twice. *)
LEMMA AssignsAndResetsTwice ==
  ASSUME NEW v \in Int \cup {None}, kind # "null" => v \in Int
  PROVE  /\ Assigns(kind, Value!Assign(v) \o Value!ResetIfNull \o Value!ResetIfNull, v)
         /\ ~ Checks(Value!Assign(v) \o Value!ResetIfNull \o Value!ResetIfNull)
<1> DEFINE t == Value!ResetIfNull \o Value!ResetIfNull
<1>1. Value!Assign(v) \o Value!ResetIfNull \o Value!ResetIfNull = Value!Assign(v) \o t
  <2> DEFINE first == Value!Assign(v)
             reset == Value!ResetIfNull
  <2>1. first \in Seq(Instructions) /\ reset \in Seq(Instructions)
    BY AssignIsASequence, ResetIs
  <2> HIDE DEF first, reset
  <2>2. (first \o reset) \o reset = first \o (reset \o reset)
    BY <2>1, ConcatAssociative
  <2> QED  BY <2>2 DEF first, reset
<1>2. CASE kind = "null"
  <2>1. t = Value!Assign(None) \o Value!ResetIfNull
    BY <1>2 DEF Value!ResetIfNull
  <2>2. Assigns(kind, t, None) /\ ~ Checks(t)
    BY <1>2, <2>1, AssignsAndResets
  <2> HIDE DEF t
  <2>3. t \in Seq(Instructions) /\ Proper(kind, t) /\ Continues(t) /\ StoresNone(t) /\ ~ Checks(t)
    BY <1>2, <2>2 DEF Assigns, Continues
  <2>4. Assigns(kind, Value!Assign(v) \o t, v) /\ ~ Checks(Value!Assign(v) \o t)
    BY <1>2, <2>3, AssignThen
  <2> QED  BY <1>1, <2>4
<1>3. CASE kind # "null"
  <2>1. t = <<>>
    BY <1>3, ResetIs, NothingLeft, ConcatEmptySeq
  <2> HIDE DEF t
  <2>2. Assigns(kind, Value!Assign(v) \o t, v) /\ ~ Checks(Value!Assign(v) \o t)
    BY <1>3, <2>1, NothingLeft, AssignThen
  <2> QED  BY <1>1, <2>2
<1> QED  BY <1>2, <1>3

LEMMA AssignsAndChecks ==
  ASSUME NEW k, k # "null", NEW v \in Int
  PROVE  /\ Assigns(k, Value!Assign(v) \o <<[do |-> "check"]>>, v)
         /\ Checks(Value!Assign(v) \o <<[do |-> "check"]>>)
<1> DEFINE t == <<[do |-> "check"]>>
<1>1. t \in Seq(Instructions) /\ t # <<>> /\ Len(t) = 1 /\ t[1].do = "check"
  <2>1. [do |-> "check"] \in Instructions
    BY DEF Instructions, Value!Instructions
  <2> QED  BY <2>1
<1> HIDE DEF t
<1>2. \A n \in 1 .. Len(t) : n = 1 /\ n = Len(t) /\ t[n].do = "check" /\ ~ (n + 1 <= Len(t))
  BY <1>1
<1>3. Proper(k, t) /\ NeverStores(t) /\ Continues(t) /\ Checks(t)
  <2>1. \A n \in 1 .. Len(t) : Follows(t, n)
    BY <1>2 DEF Follows
  <2> QED  BY <1>1, <1>2, <2>1 DEF Proper, StoresFirst, NeverStores, Continues, Checks
<1>4. Assigns(k, Value!Assign(v) \o t, v) /\ Checks(Value!Assign(v) \o t)
  BY <1>1, <1>3, AssignThen
<1> QED  BY <1>4 DEF t

(* The setter callback is called, and a null type is reset. *)
LEMMA AssignsAndCalls ==
  ASSUME NEW v \in Int \cup {None}, kind # "null" => v \in Int
  PROVE  /\ Assigns(kind, Value!Assign(v) \o <<[do |-> "callback"]>> \o Value!ResetIfNull, v)
         /\ ~ Checks(Value!Assign(v) \o <<[do |-> "callback"]>> \o Value!ResetIfNull)
<1> DEFINE first == Value!Assign(v)
           call == <<[do |-> "callback"]>>
           reset == Value!ResetIfNull
           t == call \o reset
<1>1. first \in Seq(Instructions) /\ reset \in Seq(Instructions)
  BY AssignIsASequence, ResetIs
<1>2. call \in Seq(Instructions) /\ Len(call) = 1 /\ call[1].do = "callback"
  <2>1. [do |-> "callback"] \in Instructions
    BY DEF Instructions, Value!Instructions
  <2> QED  BY <2>1
<1>3. /\ Proper(kind, reset) /\ ~ Checks(reset)
      /\ kind = "null" => StoresNone(reset) /\ reset[1].do = "store"
      /\ kind # "null" => Len(reset) = 0
  BY ResetIs DEF Assigns
<1> HIDE DEF first, call, reset
<1>4. (first \o call) \o reset = first \o t
  BY <1>1, <1>2, ConcatAssociative
<1>5. /\ t \in Seq(Instructions) /\ Len(t) = 1 + Len(reset) /\ Len(reset) \in Nat
      /\ \A i \in 1 .. 1 + Len(reset) : t[i] = IF i <= 1 THEN call[i] ELSE reset[i - 1]
  <2>1. /\ call \o reset \in Seq(Instructions)
        /\ Len(call \o reset) = Len(call) + Len(reset)
        /\ \A i \in 1 .. Len(call) + Len(reset) :
             (call \o reset)[i] = IF i <= Len(call) THEN call[i] ELSE reset[i - Len(call)]
    BY <1>1, <1>2, ConcatProperties
  <2> QED  BY <1>1, <1>2, <2>1
<1> HIDE DEF t
<1>6. t[1].do = "callback" /\ t # <<>>
  <2>1. 1 \in 1 .. 1 + Len(reset) /\ 1 <= 1
    BY <1>5
  <2> QED  BY <1>2, <1>5, <2>1
<1>7. ASSUME NEW n \in 1 .. Len(reset) PROVE n + 1 \in 1 .. Len(t) /\ n + 1 # 1 /\ t[n + 1] = reset[n]
  <2>1. n + 1 \in 1 .. 1 + Len(reset) /\ ~ (n + 1 <= 1) /\ (n + 1) - 1 = n
    BY <1>5
  <2> QED  BY <1>5, <2>1
<1>8. ASSUME NEW n \in 1 .. Len(t), n # 1
      PROVE  n - 1 \in 1 .. Len(reset) /\ (n - 1) + 1 = n /\ t[n] = reset[n - 1] /\ kind = "null"
  <2>1. n - 1 \in 1 .. Len(reset) /\ (n - 1) + 1 = n /\ Len(reset) # 0
    BY <1>5, <1>8
  <2> QED  BY <1>3, <1>7, <2>1
<1>9. Follows(t, 1)
  <2>1. 1 + 1 <= Len(t) => t[1 + 1].do = "store"
    <3>1. ASSUME 1 + 1 <= Len(t) PROVE 1 \in 1 .. Len(reset) /\ Len(reset) # 0
      BY <1>5, <3>1
    <3> QED  BY <1>3, <1>7, <3>1
  <2> QED  BY <1>6, <2>1 DEF Follows
<1>10. ASSUME NEW n \in 1 .. Len(t) PROVE Follows(t, n)
  <2>1. CASE n = 1
    BY <1>9, <2>1
  <2>2. CASE n # 1
    <3>1. n - 1 \in 1 .. Len(reset) /\ (n - 1) + 1 = n
      BY <1>8, <2>2
    <3>2. Follows(reset, n - 1)
      BY <1>3, <3>1 DEF Proper
    <3>3. 1 \in Nat
      OBVIOUS
    <3>4. \A m \in 1 .. Len(reset) : t[m + 1] = reset[m]
      BY <1>7
    <3>5. Follows(t, (n - 1) + 1)
      BY <1>1, <1>5, <3>1, <3>2, <3>3, <3>4, FollowsShifted
    <3> QED  BY <3>1, <3>5
  <2> QED  BY <2>1, <2>2
<1>11. ASSUME NEW n \in 1 .. Len(t), kind = "null" PROVE StoresLast(t, n)
  <2>1. CASE n = 1
    BY <1>6, <2>1 DEF StoresLast
  <2>2. CASE n # 1
    <3>1. n - 1 \in 1 .. Len(reset) /\ (n - 1) + 1 = n /\ t[n] = reset[n - 1]
      BY <1>8, <2>2
    <3>2. StoresLast(reset, n - 1)
      BY <1>3, <1>11, <3>1 DEF Proper
    <3>3. ASSUME NEW m \in (n - 1) + 1 .. Len(reset)
          PROVE  m + 1 \in n + 1 .. Len(t) /\ t[m + 1] = reset[m]
      <4>1. m \in 1 .. Len(reset) /\ m + 1 \in n + 1 .. Len(t)
        BY <1>5, <3>1
      <4> QED  BY <1>7, <4>1
    <3> QED  BY <3>1, <3>2, <3>3 DEF StoresLast
  <2> QED  BY <2>1, <2>2
<1>12. ASSUME NEW n \in 1 .. Len(t), kind # "null"
       PROVE  StoresFirst(t, n) /\ t[n].do # "store"
  <2>1. n = 1 /\ n = Len(t)
    BY <1>3, <1>5, <1>12
  <2> QED  BY <1>6, <2>1 DEF StoresFirst
<1>13. Proper(kind, t) /\ Continues(t)
  BY <1>6, <1>10, <1>11, <1>12 DEF Proper, Continues
<1>14. kind = "null" => StoresNone(t)
  BY <1>3, <1>7 DEF StoresNone
<1>15. ~ Checks(t)
  BY <1>3, <1>6, <1>8 DEF Checks
<1>16. kind # "null" => NeverStores(t)
  BY <1>12 DEF NeverStores
<1>17. Assigns(kind, first \o t, v) /\ ~ Checks(first \o t)
  BY <1>5, <1>13, <1>14, <1>15, <1>16, AssignThen DEF first
<1> QED  BY <1>4, <1>17 DEF first, call, reset

----------------------------------------------------------------------------
(* The value: numbers *)

InRange(p, v) == v \in Int /\ p.min <= v /\ v <= p.max

Valid(p, v) == p.valid = {} \/ v \in p.valid

LEMMA HasLeast ==
  ASSUME NEW low \in Int, NEW S \in SUBSET Int, S # {}, \A x \in S : low <= x
  PROVE  \E m \in S : \A x \in S : m <= x
<1> DEFINE T == {x - low : x \in S}
<1>1. T \in SUBSET Nat /\ T # {}
  <2>1. ASSUME NEW x \in S PROVE x - low \in Nat
    OBVIOUS
  <2> QED  BY <2>1
<1>2. PICK t \in T : \A y \in T : t <= y
  BY <1>1, HasMin
<1>3. PICK m \in S : t = m - low
  BY <1>2
<1>4. ASSUME NEW x \in S PROVE m <= x
  <2>1. x - low \in T
    OBVIOUS
  <2>2. m - low <= x - low
    BY <1>2, <1>3, <2>1
  <2> QED  BY <2>2
<1> QED  BY <1>4

LEMMA ConfigsHave ==
  ASSUME NEW p \in Configs
  PROVE  /\ p \in Value!Properties
         /\ p.min \in Int /\ p.max \in Int /\ p.step \in Nat /\ p.valid \in SUBSET Int
         /\ p.min <= p.max /\ p.valid \subseteq p.min .. p.max
         /\ None # p /\ None \notin Int /\ None \notin Value!Properties
  BY DatabaseAssumption DEF Value!ValueAssumption, Value!Properties

LEMMA RoundedIsNumber ==
  ASSUME NEW step \in Nat, step # 0, NEW v \in Int
  PROVE  Value!Rounded(step, v) \in Int
<1>1. v \div step \in Int
  OBVIOUS
<1> DEFINE below == v \div step
           factor == IF 2 * (v % step) > step \/ (2 * (v % step) = step /\ below % 2 = 1)
                     THEN below + 1 ELSE below
<1>2. factor \in Int
  BY <1>1
<1> HIDE DEF factor
<1>3. step * factor \in Int
  BY <1>2
<1> QED  BY <1>3 DEF Value!Rounded, factor

LEMMA ToValidIsInRange ==
  ASSUME NEW p \in Value!Properties, p.min <= p.max, NEW v \in Int
  PROVE  InRange(p, Value!ToValidValue(p, v))
<1> DEFINE stepped == IF v = 0 \/ p.step = 0 THEN v ELSE Value!Rounded(p.step, v)
           least == IF p.max <= stepped THEN p.max ELSE stepped
           most == IF p.min <= least THEN least ELSE p.min
<1>1. p.min \in Int /\ p.max \in Int /\ p.step \in Nat
  BY DEF Value!Properties
<1>2. stepped \in Int
  BY <1>1, RoundedIsNumber
<1> HIDE DEF stepped
<1>3. Value!Min({p.max, stepped}) = least
  <2>1. {p.max, stepped} \in SUBSET Int /\ least \in {p.max, stepped}
    BY <1>1, <1>2
  <2>2. \A x \in {p.max, stepped} : least <= x
    BY <1>1, <1>2
  <2> HIDE DEF least
  <2> QED  BY <2>1, <2>2, MinIs
<1>4. least \in Int /\ p.min <= p.max /\ least <= p.max
  BY <1>1, <1>2
<1> HIDE DEF least
<1>5. Value!Max({p.min, least}) = most
  <2>1. {p.min, least} \in SUBSET Int /\ most \in {p.min, least}
    BY <1>1, <1>4
  <2>2. \A x \in {p.min, least} : x <= most
    BY <1>1, <1>4
  <2> HIDE DEF most
  <2> QED  BY <2>1, <2>2, MaxIs
<1>6. most \in Int /\ p.min <= most /\ most <= p.max
  BY <1>1, <1>4
<1>7. Value!ToValidValue(p, v) = Value!Max({p.min, Value!Min({p.max, stepped})})
  BY DEF Value!ToValidValue, stepped
<1> HIDE DEF most
<1> QED  BY <1>3, <1>5, <1>6, <1>7 DEF InRange

(* Properties of one configuration, with the valid values of another. *)
PropsOK == \E p, q \in Configs : props = [p EXCEPT !.valid = q.valid]

LEMMA PropsHave ==
  ASSUME PropsOK
  PROVE  /\ props \in Value!Properties /\ props # None
         /\ props.min \in Int /\ props.max \in Int /\ props.min <= props.max
         /\ \E q \in Configs : props.valid = q.valid
<1>1. PICK p \in Configs, q \in Configs : props = [p EXCEPT !.valid = q.valid]
  BY DEF PropsOK
<1>2. p \in Value!Properties /\ p.min <= p.max /\ q.valid \in SUBSET Int
  BY ConfigsHave
<1>3. /\ props \in Value!Properties
      /\ props.min = p.min /\ props.max = p.max /\ props.valid = q.valid
  BY <1>1, <1>2 DEF Value!Properties
<1>4. None \notin Value!Properties /\ p.min \in Int /\ p.max \in Int
  BY ConfigsHave
<1> QED  BY <1>2, <1>3, <1>4

(* The default is a number, and one that the properties allow. *)
LEMMA DefaultIs ==
  ASSUME PropsOK, kind # "null"
  PROVE  /\ Value!DefaultValue(props) \in Int
         /\ props \in Configs => /\ InRange(props, Value!DefaultValue(props))
                                 /\ Valid(props, Value!DefaultValue(props))
<1>1. CASE props.valid = {}
  <2>1. InRange(props, Value!ToValidValue(props, 0))
    BY PropsHave, ToValidIsInRange
  <2>2. Value!DefaultValue(props) = Value!ToValidValue(props, 0)
    BY <1>1 DEF Value!DefaultValue
  <2> QED  BY <1>1, <2>1, <2>2 DEF InRange, Valid
<1>2. CASE props.valid # {}
  <2>1. PICK q \in Configs : props.valid = q.valid
    BY PropsHave
  <2>2. q.min \in Int /\ q.max \in Int /\ q.valid \in SUBSET Int /\ q.valid \subseteq q.min .. q.max
    BY ConfigsHave
  <2>3. PICK m \in q.valid : \A x \in q.valid : m <= x
    <3>1. \A x \in q.valid : q.min <= x
      BY <2>2
    <3> QED  BY <1>2, <2>1, <2>2, <3>1, HasLeast
  <2>4. Value!DefaultValue(props) = m
    <3>1. Value!Min(q.valid) = m
      BY <2>2, <2>3, MinIs
    <3> QED  BY <1>2, <2>1, <3>1 DEF Value!DefaultValue
  <2>5. m \in Int /\ m \in props.valid
    BY <2>1, <2>2
  <2>6. props \in Configs => m \in props.min .. props.max
    BY <2>5, ConfigsHave
  <2>7. props \in Configs => InRange(props, m)
    BY <2>6, PropsHave DEF InRange
  <2> QED  BY <2>4, <2>5, <2>7 DEF Valid
<1> QED  BY <1>1, <1>2

----------------------------------------------------------------------------
(* The value: the invariant *)

Settling == {"valid_values", "adjust", "store"}

ProperInv == \A a \in Value!Actors : Proper(kind, todo[a])

(* The loop has a representation while it makes one; if no thread came in      *)
(* between, it has what the characteristic has.                                *)
RepInv ==
  IF Starts(todo[Loop], {"get", "fill"})
  THEN /\ rep.props # None
       /\ ~ raced["now"] =>
            /\ rep.props = props
            /\ Starts(todo[Loop], {"fill"}) /\ todo[Loop][1].of = "full" => rep.val = value
  ELSE rep = Value!NoRep

CacheInv ==
  \A c \in Value!Caches :
    Value!Stale(c) => raced[c] \/ \E a \in Value!Actors : Clears(todo[a], c)

(* A type in ALWAYS_NULL has no value, or loses it; others have one. *)
NullInv ==
  /\ kind = "null" => value = None \/ raised \/ \E a \in Value!Actors : StoresNone(todo[a])
  /\ kind # "null" => value \in Int

(* Properties are of one configuration, but for the time they are overridden. *)
WholeInv ==
  \A a \in Value!Actors :
    /\ Starts(todo[a], {"adjust"}) \/ Checks(todo[a]) => props \in Configs
    /\ Starts(todo[a], {"valid_values"}) =>
         /\ props.min = todo[a][1].of.min
         /\ props.max = todo[a][1].of.max
         /\ props.step = todo[a][1].of.step

(* The value is in its limits, or will be brought into them. *)
RangeInv ==
  /\ \A a \in Value!Actors : Starts(todo[a], {"store"}) => InRange(props, todo[a][1].val)
  /\ InRange(props, value) \/ \E a \in Value!Actors : Starts(todo[a], Settling)

(* A value that is not valid is about to be noticed. *)
ValidInv ==
  /\ \A a \in Value!Actors : Starts(todo[a], {"store"}) =>
       Checks(todo[a]) \/ Valid(props, todo[a][1].val)
  /\ \/ Valid(props, value)
     \/ \E a \in Value!Actors : Starts(todo[a], Settling) \/ Checks(todo[a])

AllowedInv ==
  ~ mixed /\ kind # "null" => WholeInv /\ RangeInv /\ (kind = "plain" => ValidInv)

ValueInv == Value!TypeOK /\ ProperInv /\ RepInv /\ CacheInv /\ NullInv /\ AllowedInv

LEMMA TodoIs ==
  ASSUME Value!TypeOK, NEW a \in Value!Actors
  PROVE  todo[a] \in Seq(Instructions)
  BY DEF Value!TypeOK, Instructions

LEMMA Idle ==
  /\ \A dos : ~ Starts(<<>>, dos)
  /\ \A c : ~ Clears(<<>>, c)
  /\ ~ Checks(<<>>) /\ ~ StoresNone(<<>>)
  BY DEF Starts, Clears, Checks, StoresNone

(* An actor goes on with something else; the characteristic stays as it is. *)
LEMMA Replaced ==
  ASSUME ValueInv, NEW a \in Value!Actors, NEW s \in Seq(Instructions),
         todo' = [todo EXCEPT ![a] = s],
         UNCHANGED <<kind, props, value, cache, raced, mixed>>,
         calls' \in 0 .. MaxCalls, raised' \in BOOLEAN, raised => raised',
         \/ rep' = rep /\ ~ Starts(todo[a], {"get", "fill"})
         \/ a = Loop /\ rep' = Value!NoRep,
         Proper(kind, s), ~ Starts(s, {"get", "fill", "adjust", "valid_values"}),
         \A c \in Value!Caches : Clears(todo[a], c) => Clears(s, c),
         kind = "null" /\ StoresNone(todo[a]) => StoresNone(s) \/ raised',
         ~ mixed /\ kind # "null" =>
           /\ Checks(s) => props \in Configs
           /\ Starts(s, {"store"}) => InRange(props, s[1].val)
           /\ Starts(todo[a], Settling) => InRange(props, value) \/ Starts(s, {"store"})
           /\ kind = "plain" =>
                /\ Starts(s, {"store"}) => Checks(s) \/ Valid(props, s[1].val)
                /\ Starts(todo[a], Settling) \/ Checks(todo[a]) =>
                     Valid(props, value) \/ Starts(s, {"store"}) \/ Checks(s)
  PROVE  ValueInv'
<1>1. /\ todo \in [Value!Actors -> Seq(Instructions)]
      /\ todo' \in [Value!Actors -> Seq(Instructions)]
      /\ todo'[a] = s
      /\ \A b \in Value!Actors : b # a => todo'[b] = todo[b]
      /\ Loop \in Value!Actors
  BY DEF ValueInv, Value!TypeOK, Instructions, Value!Actors
<1>2. Value!TypeOK'
  <2>1. rep' \in Value!Representations
    BY DEF ValueInv, Value!TypeOK, Value!Representations, Value!NoRep
  <2>2. todo' \in [Value!Actors -> Seq(Value!Instructions)]
    BY <1>1 DEF Instructions
  <2> QED  BY <2>1, <2>2 DEF ValueInv, Value!TypeOK
<1>3. ProperInv'
  BY <1>1 DEF ValueInv, ProperInv
<1>4. RepInv'
  <2>1. CASE a = Loop
    <3>1. ~ Starts(todo'[Loop], {"get", "fill"})
      BY <1>1, <2>1 DEF Starts
    <3>2. rep' = Value!NoRep
      BY <2>1 DEF ValueInv, RepInv
    <3> QED  BY <3>1, <3>2 DEF RepInv
  <2>2. CASE a # Loop
    <3>1. todo'[Loop] = todo[Loop] /\ rep' = rep
      BY <1>1, <2>2
    <3> QED  BY <3>1 DEF ValueInv, RepInv
  <2> QED  BY <2>1, <2>2
<1>5. CacheInv'
  <2>1. ASSUME NEW c \in Value!Caches, Value!Stale(c)', ~ raced[c]
        PROVE  \E b \in Value!Actors : Clears(todo'[b], c)
    <3>1. PICK b \in Value!Actors : Clears(todo[b], c)
      BY <2>1 DEF ValueInv, CacheInv, Value!Stale
    <3> QED  BY <1>1, <3>1
  <2> QED  BY <2>1 DEF CacheInv
<1>6. NullInv'
  <2>1. ASSUME kind = "null", NEW b \in Value!Actors, StoresNone(todo[b])
        PROVE  raised' \/ \E d \in Value!Actors : StoresNone(todo'[d])
    BY <1>1, <2>1
  <2> QED  BY <2>1 DEF ValueInv, NullInv
<1>7. ASSUME ~ mixed, kind # "null" PROVE WholeInv' /\ RangeInv' /\ (kind = "plain" => ValidInv')
  <2>1. WholeInv /\ RangeInv /\ (kind = "plain" => ValidInv)
    BY <1>7 DEF ValueInv, AllowedInv
  <2>2. ~ Starts(s, {"adjust"}) /\ ~ Starts(s, {"valid_values"})
    BY DEF Starts
  <2>3. WholeInv'
    BY <1>1, <1>7, <2>1, <2>2 DEF WholeInv
  <2>4. Starts(s, {"store"}) => Starts(s, Settling)
    BY DEF Starts, Settling
  <2>5. RangeInv'
    <3>1. ASSUME NEW b \in Value!Actors, Starts(todo'[b], {"store"}) PROVE InRange(props, todo'[b][1].val)
      BY <1>1, <1>7, <2>1, <3>1 DEF RangeInv
    <3>2. ASSUME NEW b \in Value!Actors, Starts(todo[b], Settling)
          PROVE  InRange(props, value) \/ \E d \in Value!Actors : Starts(todo'[d], Settling)
      BY <1>1, <1>7, <2>4, <3>2
    <3> QED  BY <2>1, <3>1, <3>2 DEF RangeInv
  <2>6. ASSUME kind = "plain" PROVE ValidInv'
    <3>1. ASSUME NEW b \in Value!Actors, Starts(todo'[b], {"store"})
          PROVE  Checks(todo'[b]) \/ Valid(props, todo'[b][1].val)
      BY <1>1, <1>7, <2>1, <2>6, <3>1 DEF ValidInv
    <3>2. ASSUME NEW b \in Value!Actors, Starts(todo[b], Settling) \/ Checks(todo[b])
          PROVE  \/ Valid(props, value)
                 \/ \E d \in Value!Actors : Starts(todo'[d], Settling) \/ Checks(todo'[d])
      BY <1>1, <1>7, <2>4, <2>6, <3>2
    <3> QED  BY <2>1, <2>6, <3>1, <3>2 DEF ValidInv
  <2> QED  BY <2>3, <2>5, <2>6
<1>8. AllowedInv'
  BY <1>7 DEF AllowedInv
<1> QED  BY <1>2, <1>3, <1>4, <1>5, <1>6, <1>8 DEF ValueInv

(* A call that assigns a value begins, or an actor goes on with one. *)
LEMMA GoesOnAssigning ==
  ASSUME ValueInv, NEW a \in Value!Actors, NEW v, NEW s, Assigns(kind, s, v),
         todo' = [todo EXCEPT ![a] = s],
         UNCHANGED <<kind, props, value, cache, raced, mixed, raised>>, calls' \in 0 .. MaxCalls,
         \/ rep' = rep /\ ~ Starts(todo[a], {"get", "fill"})
         \/ a = Loop /\ rep' = Value!NoRep,
         ~ mixed /\ kind # "null" =>
           /\ InRange(props, v)
           /\ Checks(s) => props \in Configs
           /\ kind = "plain" => Checks(s) \/ Valid(props, v)
  PROVE  ValueInv'
<1>1. /\ s \in Seq(Instructions) /\ Proper(kind, s) /\ Starts(s, {"store"}) /\ s[1].val = v
      /\ ~ Starts(s, {"get", "fill", "adjust", "valid_values"})
      /\ \A c \in Value!Caches : Clears(s, c)
      /\ kind = "null" => StoresNone(s)
  BY DEF Assigns, Starts
<1>2. raised \in BOOLEAN
  BY DEF ValueInv, Value!TypeOK
<1> QED  BY <1>1, <1>2, Replaced

(* What a step of a call finds: it is the first of the actor's steps. *)
LEMMA StepIs ==
  ASSUME ValueInv, NEW a \in Value!Actors, NEW do, Value!Step(a, do)
  PROVE  /\ todo[a] \in Seq(Instructions) /\ todo[a] # <<>> /\ todo[a][1].do = do
         /\ Proper(kind, todo[a]) /\ 1 \in 1 .. Len(todo[a])
         /\ Follows(todo[a], 1)
         /\ kind = "null" => StoresLast(todo[a], 1)
         /\ kind # "null" => StoresFirst(todo[a], 1)
<1>1. todo[a] \in Seq(Instructions) /\ todo[a] # <<>> /\ todo[a][1].do = do
  BY TodoIs DEF ValueInv, Value!Step
<1>2. Proper(kind, todo[a])
  BY DEF ValueInv, ProperInv
<1>3. 1 \in 1 .. Len(todo[a])
  BY <1>1
<1> QED  BY <1>1, <1>2, <1>3 DEF Proper

LEMMA ToValid ==
  ASSUME ValueInv, NEW v \in Int
  PROVE  /\ Value!ToValidValue(props, v) \in Int
         /\ InRange(props, Value!ToValidValue(props, v))
<1>1. InRange(props, Value!ToValidValue(props, v))
  BY PropsHave, ToValidIsInRange DEF ValueInv, Value!TypeOK, PropsOK
<1> QED  BY <1>1 DEF InRange

LEMMA AllowedIsValid ==
  ASSUME NEW v, kind # "null", Value!Allowed(props, v) PROVE Valid(props, v)
  BY DEF Value!Allowed, Valid

LEMMA InputIs == Inputs \subseteq Int /\ Loop \in Value!Actors /\ MaxCalls \in Nat
  BY DatabaseAssumption DEF Value!ValueAssumption, Value!Actors

LEMMA BeginIs ==
  ASSUME ValueInv, NEW a, NEW s, Value!Begin(a, s)
  PROVE  todo' = [todo EXCEPT ![a] = s] /\ calls' \in 0 .. MaxCalls
<1>1. calls \in 0 .. MaxCalls /\ MaxCalls \in Nat
  BY InputIs DEF ValueInv, Value!TypeOK
<1>2. calls' \in 0 .. MaxCalls
  BY <1>1 DEF Value!Begin
<1> QED  BY <1>2 DEF Value!Begin

LEMMA SetValueStep ==
  ASSUME ValueInv, NEW a \in Value!Actors, NEW v \in Inputs, Value!SetValue(a, v)
  PROVE  ValueInv'
<1> DEFINE valid == Value!ToValidValue(props, v)
           s == Value!Assign(valid) \o Value!ResetIfNull
<1>1. valid \in Int /\ InRange(props, valid)
  BY InputIs, ToValid
<1>2. /\ todo[a] = <<>> /\ Value!Allowed(props, valid)
      /\ Value!Begin(a, s)
      /\ UNCHANGED <<kind, props, value, cache, rep, raced, mixed, raised>>
  BY DEF Value!SetValue, Value!Unchanged
<1> HIDE DEF valid
<1>3. Assigns(kind, s, valid) /\ ~ Checks(s)
  BY <1>1, AssignsAndResets
<1>4. kind # "null" => Valid(props, valid)
  BY <1>2, AllowedIsValid
<1> HIDE DEF s
<1>5. todo' = [todo EXCEPT ![a] = s] /\ calls' \in 0 .. MaxCalls
  BY <1>2, BeginIs
<1>6. ~ Starts(todo[a], {"get", "fill"})
  BY <1>2, Idle
<1> QED  BY <1>1, <1>2, <1>3, <1>4, <1>5, <1>6, GoesOnAssigning

LEMMA ClientUpdateValueStep ==
  ASSUME ValueInv, NEW v \in Inputs \cup {None}, Value!ClientUpdateValue(v)
  PROVE  ValueInv'
<1> DEFINE valid == IF v = None THEN None ELSE Value!ToValidValue(props, v)
           s == Value!Assign(valid) \o <<[do |-> "callback"]>> \o Value!ResetIfNull
<1>1. valid \in Int \cup {None} /\ (v # None => valid \in Int /\ InRange(props, valid))
  BY InputIs, ToValid
<1>2. /\ todo[Loop] = <<>> /\ (v = None => kind = "null")
      /\ kind = "lenient" \/ Value!Allowed(props, valid)
      /\ Value!Begin(Loop, s)
      /\ UNCHANGED <<kind, props, value, cache, rep, raced, mixed, raised>>
  BY DEF Value!ClientUpdateValue, Value!Unchanged
<1> HIDE DEF valid
<1>3. Assigns(kind, s, valid) /\ ~ Checks(s)
  BY <1>1, <1>2, AssignsAndCalls
<1>4. kind = "plain" => Valid(props, valid)
  BY <1>2, AllowedIsValid
<1> HIDE DEF s
<1>5. todo' = [todo EXCEPT ![Loop] = s] /\ calls' \in 0 .. MaxCalls
  BY <1>2, BeginIs
<1>6. ~ Starts(todo[Loop], {"get", "fill"})
  BY <1>2, Idle
<1> QED  BY <1>1, <1>2, <1>3, <1>4, <1>5, <1>6, InputIs, GoesOnAssigning

LEMMA GetValueStep ==
  ASSUME ValueInv, NEW v \in Inputs, Value!GetValue(v)
  PROVE  ValueInv'
<1> DEFINE valid == Value!ToValidValue(props, v)
           s == Value!Assign(valid)
<1>1. valid \in Int /\ InRange(props, valid)
  BY InputIs, ToValid
<1>2. /\ todo[Loop] = <<>> /\ kind = "getter"
      /\ Value!Begin(Loop, s)
      /\ UNCHANGED <<kind, props, value, cache, rep, raced, mixed, raised>>
  BY DEF Value!GetValue, Value!Unchanged
<1> HIDE DEF valid
<1>3. Assigns(kind, s, valid) /\ ~ Checks(s)
  BY <1>1, <1>2, AssignsAlone
<1> HIDE DEF s
<1>4. todo' = [todo EXCEPT ![Loop] = s] /\ calls' \in 0 .. MaxCalls
  BY <1>2, BeginIs
<1>5. ~ Starts(todo[Loop], {"get", "fill"})
  BY <1>2, Idle
<1> QED  BY <1>1, <1>2, <1>3, <1>4, <1>5, InputIs, GoesOnAssigning

LEMMA ReadThroughGetterStep ==
  ASSUME ValueInv, NEW v \in Inputs, Value!ReadThroughGetter(v)
  PROVE  ValueInv'
<1> DEFINE valid == Value!ToValidValue(props, v)
           s == Value!Assign(valid)
<1>1. valid \in Int /\ InRange(props, valid)
  BY InputIs, ToValid
<1>2. /\ kind = "getter" /\ rep' = Value!NoRep
      /\ todo' = [todo EXCEPT ![Loop] = s]
      /\ UNCHANGED <<kind, props, value, cache, raced, mixed, raised, calls>>
  BY DEF Value!ReadThroughGetter
<1> HIDE DEF valid
<1>3. Assigns(kind, s, valid) /\ ~ Checks(s)
  BY <1>1, <1>2, AssignsAlone
<1> HIDE DEF s
<1>4. calls' \in 0 .. MaxCalls
  BY <1>2 DEF ValueInv, Value!TypeOK
<1> QED  BY <1>1, <1>2, <1>3, <1>4, InputIs, GoesOnAssigning

LEMMA CallbackSetsStep ==
  ASSUME ValueInv, NEW v \in Inputs, Value!CallbackSets(v)
  PROVE  ValueInv'
<1> DEFINE valid == Value!ToValidValue(props, v)
           s == Value!Assign(valid) \o Value!ResetIfNull \o Value!ResetIfNull
<1>1. valid \in Int /\ InRange(props, valid)
  BY InputIs, ToValid
<1>2. /\ Value!Step(Loop, "callback") /\ Value!Allowed(props, valid)
      /\ Value!Begin(Loop, s)
      /\ UNCHANGED <<kind, props, value, cache, rep, raced, mixed, raised>>
  BY DEF Value!CallbackSets, Value!Unchanged
<1> HIDE DEF valid
<1>3. Assigns(kind, s, valid) /\ ~ Checks(s)
  BY <1>1, AssignsAndResetsTwice
<1>4. kind # "null" => Valid(props, valid)
  BY <1>2, AllowedIsValid
<1> HIDE DEF s
<1>5. todo' = [todo EXCEPT ![Loop] = s] /\ calls' \in 0 .. MaxCalls
  BY <1>2, BeginIs
<1>6. ~ Starts(todo[Loop], {"get", "fill"})
  BY <1>2 DEF Value!Step, Starts
<1> QED  BY <1>1, <1>2, <1>3, <1>4, <1>5, <1>6, InputIs, GoesOnAssigning

LEMMA AdjustStep ==
  ASSUME ValueInv, NEW a \in Value!Actors, Value!Adjust(a)
  PROVE  ValueInv'
<1> DEFINE valid == IF kind = "null" THEN None ELSE Value!ToValidValue(props, value)
           s == IF kind = "null" THEN Value!Assign(None)
                ELSE Value!Assign(valid) \o <<[do |-> "check"]>>
<1>1. /\ Value!Step(a, "adjust") /\ todo' = [todo EXCEPT ![a] = s]
      /\ UNCHANGED <<kind, props, value, cache, rep, raced, mixed, raised, calls>>
  BY DEF Value!Adjust, Value!Unchanged
<1>2. kind # "null" => valid \in Int /\ InRange(props, valid)
  BY ToValid DEF ValueInv, NullInv
<1> HIDE DEF valid
<1>3. Assigns(kind, s, valid) /\ (kind # "null" => Checks(s))
  <2>1. CASE kind = "null"
    <3>1. valid = None
      BY <2>1 DEF valid
    <3> QED  BY <2>1, <3>1, AssignsAlone
  <2>2. CASE kind # "null"
    BY <1>2, <2>2, AssignsAndChecks
  <2> QED  BY <2>1, <2>2
<1> HIDE DEF s
<1>4. ~ Starts(todo[a], {"get", "fill"}) /\ Starts(todo[a], {"adjust"})
  BY <1>1 DEF Value!Step, Starts
<1>5. ~ mixed /\ kind # "null" => props \in Configs
  BY <1>4 DEF ValueInv, AllowedInv, WholeInv
<1>6. calls' \in 0 .. MaxCalls
  BY <1>1 DEF ValueInv, Value!TypeOK
<1> QED  BY <1>1, <1>2, <1>3, <1>4, <1>5, <1>6, GoesOnAssigning

LEMMA CallbackRaisesStep ==
  ASSUME ValueInv, Value!CallbackRaises
  PROVE  ValueInv'
<1>1. /\ Value!Step(Loop, "callback") /\ todo' = [todo EXCEPT ![Loop] = <<>>]
      /\ raised' = TRUE
      /\ UNCHANGED <<kind, props, value, cache, rep, raced, mixed, calls>>
  BY DEF Value!CallbackRaises
<1>2. /\ todo[Loop] \in Seq(Instructions) /\ todo[Loop][1].do = "callback"
      /\ 1 \in 1 .. Len(todo[Loop]) /\ (kind # "null" => StoresFirst(todo[Loop], 1))
  BY <1>1, StepIs, InputIs
<1>3. ~ Starts(todo[Loop], {"get", "fill"}) /\ ~ Starts(todo[Loop], Settling)
  BY <1>2 DEF Starts, Settling
<1>4. \A c : ~ Clears(todo[Loop], c)
  <2>1. ASSUME NEW n \in 1 .. Len(todo[Loop]) PROVE 1 \in 1 .. n
    OBVIOUS
  <2> QED  BY <1>2, <2>1 DEF Clears
<1>5. kind # "null" => ~ Checks(todo[Loop])
  <2>1. kind # "null" => Len(todo[Loop]) = 1
    BY <1>2 DEF StoresFirst
  <2>2. \A n \in 1 .. 1 : n = 1
    OBVIOUS
  <2> QED  BY <1>2, <2>1, <2>2 DEF Checks
<1>6. calls' \in 0 .. MaxCalls
  BY <1>1 DEF ValueInv, Value!TypeOK
<1> QED  BY <1>1, <1>3, <1>4, <1>5, <1>6, InputIs, Idle, NothingLeft, Replaced

LEMMA CallbackReturnsStep ==
  ASSUME ValueInv, Value!CallbackReturns
  PROVE  ValueInv'
<1> DEFINE s == Tail(todo[Loop])
<1>1. /\ Value!Step(Loop, "callback") /\ todo' = [todo EXCEPT ![Loop] = s]
      /\ UNCHANGED <<kind, props, value, cache, rep, raced, mixed, raised, calls>>
  BY DEF Value!CallbackReturns, Value!Rest, Value!Unchanged
<1>2. /\ todo[Loop] \in Seq(Instructions) /\ todo[Loop] # <<>> /\ todo[Loop][1].do = "callback"
      /\ 1 \in 1 .. Len(todo[Loop]) /\ (kind # "null" => StoresFirst(todo[Loop], 1))
      /\ Proper(kind, todo[Loop]) /\ Follows(todo[Loop], 1)
  BY <1>1, StepIs, InputIs
<1>3. ~ Starts(todo[Loop], {"get", "fill"}) /\ ~ Starts(todo[Loop], Settling)
  BY <1>2 DEF Starts, Settling
<1>4. \A c : ~ Clears(todo[Loop], c)
  <2>1. ASSUME NEW n \in 1 .. Len(todo[Loop]) PROVE 1 \in 1 .. n
    OBVIOUS
  <2> QED  BY <1>2, <2>1 DEF Clears
<1>5. /\ s \in Seq(Instructions) /\ Len(todo[Loop]) = 1 + Len(s) /\ Len(s) \in Nat
      /\ \A n \in 1 .. Len(s) : todo[Loop][n + 1] = s[n]
      /\ Proper(kind, s)
  BY <1>2, TailIs, TailIsProper
<1>6. kind # "null" => ~ Checks(todo[Loop]) /\ s = <<>>
  <2>1. kind # "null" => Len(todo[Loop]) = 1
    BY <1>2 DEF StoresFirst
  <2>2. \A n \in 1 .. 1 : n = 1
    OBVIOUS
  <2>3. s \in Seq(Instructions) /\ Len(todo[Loop]) = 1 + Len(s) /\ Len(s) \in Nat
    BY <1>5
  <2> HIDE DEF s
  <2>4. kind # "null" => s = <<>>
    BY <2>1, <2>3
  <2> QED  BY <1>2, <2>1, <2>2, <2>4 DEF Checks
<1>7. ~ Starts(s, {"get", "fill", "adjust", "valid_values"})
  <2>1. ASSUME s # <<>> PROVE s[1] = todo[Loop][1 + 1] /\ 1 + 1 <= Len(todo[Loop])
    BY <1>5, <2>1
  <2> QED  BY <1>2, <2>1 DEF Starts, Follows
<1>8. StoresNone(todo[Loop]) => StoresNone(s)
  BY <1>2, TailKeeps
<1>9. calls' \in 0 .. MaxCalls /\ raised \in BOOLEAN
  BY <1>1 DEF ValueInv, Value!TypeOK
<1> HIDE DEF s
<1> QED  BY <1>1, <1>3, <1>4, <1>5, <1>6, <1>7, <1>8, <1>9, InputIs, Idle, Replaced

LEMMA CheckAdjustedStep ==
  ASSUME ValueInv, NEW a \in Value!Actors, Value!CheckAdjusted(a)
  PROVE  ValueInv'
<1>1. /\ Value!Step(a, "check")
      /\ UNCHANGED <<kind, props, value, cache, rep, raced, mixed, raised, calls>>
  BY DEF Value!CheckAdjusted, Value!Unchanged
<1>2. /\ todo[a] \in Seq(Instructions) /\ todo[a][1].do = "check"
      /\ 1 \in 1 .. Len(todo[a]) /\ Follows(todo[a], 1)
  BY <1>1, StepIs
<1>3. Len(todo[a]) = 1 /\ (\A n \in 1 .. Len(todo[a]) : n = 1)
  BY <1>2 DEF Follows
<1>4. ~ Starts(todo[a], {"get", "fill"}) /\ ~ Starts(todo[a], Settling)
  BY <1>2 DEF Starts, Settling
<1>5. Checks(todo[a]) /\ ~ StoresNone(todo[a])
  BY <1>2, <1>3 DEF Checks, StoresNone
<1>6. \A c : ~ Clears(todo[a], c)
  BY <1>2, <1>3 DEF Clears
<1>7. ~ mixed /\ kind # "null" => props \in Configs
  BY <1>5 DEF ValueInv, AllowedInv, WholeInv
<1>8. calls' \in 0 .. MaxCalls /\ raised \in BOOLEAN
  BY <1>1 DEF ValueInv, Value!TypeOK
<1>9. CASE Value!Allowed(props, value)
  <2>1. todo' = [todo EXCEPT ![a] = <<>>]
    BY <1>9 DEF Value!CheckAdjusted
  <2>2. kind # "null" => Valid(props, value)
    BY <1>9, AllowedIsValid
  <2> QED  BY <1>1, <1>4, <1>5, <1>6, <1>8, <2>1, <2>2, Idle, NothingLeft, Replaced
<1>10. CASE ~ Value!Allowed(props, value)
  <2> DEFINE default == Value!DefaultValue(props)
             s == Value!Assign(default)
  <2>1. todo' = [todo EXCEPT ![a] = s] /\ kind # "null"
    BY <1>10 DEF Value!CheckAdjusted, Value!Allowed
  <2>2. default \in Int /\ (props \in Configs => InRange(props, default) /\ Valid(props, default))
    BY <2>1, DefaultIs DEF ValueInv, Value!TypeOK, PropsOK
  <2> HIDE DEF default
  <2>3. Assigns(kind, s, default) /\ ~ Checks(s)
    BY <2>1, <2>2, AssignsAlone
  <2> HIDE DEF s
  <2> QED  BY <1>1, <1>4, <1>7, <1>8, <2>1, <2>2, <2>3, GoesOnAssigning
<1> QED  BY <1>9, <1>10

LEMMA OverridePropertiesStep ==
  ASSUME ValueInv, NEW a \in Value!Actors, NEW p \in Configs, Value!OverrideProperties(a, p)
  PROVE  ValueInv'
<1> DEFINE first == Value!Clear
           last == <<[do |-> "properties", of |-> p], [do |-> "valid_values", of |-> p],
                     [do |-> "adjust"]>>
           s == first \o last
<1>1. /\ todo[a] = <<>> /\ Value!Begin(a, s)
      /\ UNCHANGED <<kind, props, value, cache, rep, raced, mixed, raised>>
  BY DEF Value!OverrideProperties, Value!Unchanged
<1>2. /\ first \in Seq(Instructions) /\ Len(first) = 2
      /\ first[1].do = "clear" /\ first[2].do = "clear"
  <2>1. /\ [do |-> "clear", of |-> "plain"] \in Instructions
        /\ [do |-> "clear", of |-> "full"] \in Instructions
    BY DEF Instructions, Value!Instructions, Value!Caches
  <2> QED  BY <2>1 DEF Value!Clear
<1>3. /\ last \in Seq(Instructions) /\ Len(last) = 3
      /\ last[1] = [do |-> "properties", of |-> p]
      /\ last[2] = [do |-> "valid_values", of |-> p]
      /\ last[3] = [do |-> "adjust"]
  <2>1. /\ [do |-> "properties", of |-> p] \in Instructions
        /\ [do |-> "valid_values", of |-> p] \in Instructions
        /\ [do |-> "adjust"] \in Instructions
    BY DEF Instructions, Value!Instructions
  <2> QED  BY <2>1
<1> HIDE DEF first, last
<1>4. /\ s \in Seq(Instructions) /\ Len(s) = Len(first) + Len(last)
      /\ \A i \in 1 .. Len(first) + Len(last) :
           s[i] = IF i <= Len(first) THEN first[i] ELSE last[i - Len(first)]
  BY <1>2, <1>3, ConcatProperties
<1> HIDE DEF s
<1>5. /\ Len(s) = 5 /\ s # <<>>
      /\ s[1] = first[1] /\ s[2] = first[2] /\ s[3] = last[1] /\ s[4] = last[2] /\ s[5] = last[3]
  <2>1. Len(s) = 5
    BY <1>2, <1>3, <1>4
  <2>2. \A i \in 1 .. 5 : s[i] = IF i <= 2 THEN first[i] ELSE last[i - 2]
    BY <1>2, <1>3, <1>4
  <2>3. 1 \in 1 .. 5 /\ 2 \in 1 .. 5 /\ 3 \in 1 .. 5 /\ 4 \in 1 .. 5 /\ 5 \in 1 .. 5
    OBVIOUS
  <2>4. /\ s[1] = first[1] /\ s[2] = first[2]
        /\ s[3] = last[3 - 2] /\ s[4] = last[4 - 2] /\ s[5] = last[5 - 2]
    BY <2>2, <2>3
  <2>5. s # <<>>
    <3>1. Len(<<>>) = 0
      OBVIOUS
    <3>2. Len(s) # 0
      BY <2>1
    <3> QED  BY <3>1, <3>2, Zenon
  <2>6. last[3 - 2] = last[1] /\ last[4 - 2] = last[2] /\ last[5 - 2] = last[3]
    <3>1. 3 - 2 = 1 /\ 4 - 2 = 2 /\ 5 - 2 = 3
      OBVIOUS
    <3> QED  BY <3>1
  <2> QED  BY <2>1, <2>4, <2>5, <2>6
<1>6. /\ s[1].do = "clear" /\ s[2].do = "clear" /\ s[3].do = "properties"
      /\ s[4].do = "valid_values" /\ s[5].do = "adjust" /\ s[4].of = s[3].of
  BY <1>2, <1>3, <1>5
<1>7. \A n \in 1 .. Len(s) : n = 1 \/ n = 2 \/ n = 3 \/ n = 4 \/ n = 5
  BY <1>5
<1>8. Follows(s, 1) /\ Follows(s, 2) /\ Follows(s, 3) /\ Follows(s, 4) /\ Follows(s, 5)
  <2>1. /\ 1 + 1 = 2 /\ 2 + 1 = 3 /\ 3 + 1 = 4 /\ 4 + 1 = 5 /\ 3 + 2 = 5
        /\ ~ (5 + 1 <= Len(s))
    BY <1>5
  <2> QED  BY <1>5, <1>6, <2>1 DEF Follows
<1>9. Proper(kind, s)
  BY <1>6, <1>7, <1>8 DEF Proper, StoresLast, StoresFirst
<1>10. ~ Checks(s) /\ ~ StoresNone(s)
  BY <1>6, <1>7 DEF Checks, StoresNone
<1>11. ~ Starts(s, {"get", "fill", "adjust", "valid_values"}) /\ ~ Starts(s, {"store"})
  BY <1>6 DEF Starts
<1>12. todo' = [todo EXCEPT ![a] = s] /\ calls' \in 0 .. MaxCalls
  BY <1>1, BeginIs
<1>13. ~ Starts(todo[a], {"get", "fill"}) /\ ~ Starts(todo[a], Settling)
  BY <1>1, Idle
<1>14. raised \in BOOLEAN
  BY DEF ValueInv, Value!TypeOK
<1>15. /\ \A c : ~ Clears(todo[a], c)
       /\ ~ Checks(todo[a]) /\ ~ StoresNone(todo[a])
  BY <1>1, Idle
<1> QED  BY <1>1, <1>4, <1>9, <1>10, <1>11, <1>12, <1>13, <1>14, <1>15, Replaced

LEMMA ToHAPStep ==
  ASSUME ValueInv, NEW which \in Value!Caches, Value!ToHAP(which)
  PROVE  ValueInv'
<1> DEFINE first == <<[do |-> "represent"]>>
           second == IF which = "full" THEN <<[do |-> "get"]>> ELSE <<>>
           last == <<[do |-> "fill", of |-> which]>>
           s == (first \o second) \o last
<1>1. /\ todo[Loop] = <<>> /\ todo' = [todo EXCEPT ![Loop] = s]
      /\ UNCHANGED <<kind, props, value, cache, rep, raced, mixed, raised, calls>>
  BY DEF Value!ToHAP, Value!Unchanged
<1>2. /\ first \in Seq(Instructions) /\ Len(first) = 1 /\ first[1].do = "represent"
      /\ second \in Seq(Instructions)
      /\ which = "full" => Len(second) = 1 /\ second[1].do = "get"
      /\ which # "full" => Len(second) = 0
      /\ last \in Seq(Instructions) /\ Len(last) = 1 /\ last[1] = [do |-> "fill", of |-> which]
  <2>1. /\ [do |-> "represent"] \in Instructions /\ [do |-> "get"] \in Instructions
        /\ [do |-> "fill", of |-> which] \in Instructions
    BY DEF Instructions, Value!Instructions
  <2> QED  BY <2>1
<1> HIDE DEF first, second, last
<1> DEFINE begun == first \o second
<1>3. /\ begun \in Seq(Instructions) /\ Len(begun) = Len(first) + Len(second)
      /\ \A i \in 1 .. Len(first) + Len(second) :
           begun[i] = IF i <= Len(first) THEN first[i] ELSE second[i - Len(first)]
  BY <1>2, ConcatProperties
<1> HIDE DEF begun
<1>4. /\ s \in Seq(Instructions) /\ Len(s) = Len(begun) + Len(last)
      /\ \A i \in 1 .. Len(begun) + Len(last) :
           s[i] = IF i <= Len(begun) THEN begun[i] ELSE last[i - Len(begun)]
  <2>1. s = begun \o last
    BY DEF begun
  <2> QED  BY <1>2, <1>3, <2>1, ConcatProperties
<1> HIDE DEF s
<1>5. /\ which = "full" => Len(s) = 3 /\ s[1].do = "represent" /\ s[2].do = "get"
                           /\ s[3] = [do |-> "fill", of |-> "full"]
      /\ which # "full" => Len(s) = 2 /\ s[1].do = "represent"
                           /\ s[2] = [do |-> "fill", of |-> "plain"]
  <2>1. CASE which = "full"
    <3>1. begun[1] = first[1] /\ begun[2] = second[1] /\ Len(begun) = 2
      <4>1. Len(begun) = 2 /\ \A i \in 1 .. 2 : begun[i] = IF i <= 1 THEN first[i] ELSE second[i - 1]
        <5>1. Len(first) = 1 /\ Len(second) = 1
          BY <1>2, <2>1
        <5>2. Len(first) + Len(second) = 2
          BY <5>1
        <5> QED  BY <1>3, <5>1, <5>2
      <4>2. 1 \in 1 .. 2 /\ 2 \in 1 .. 2
        OBVIOUS
      <4> QED  BY <4>1, <4>2
    <3>2. Len(s) = 3 /\ \A i \in 1 .. 3 : s[i] = IF i <= 2 THEN begun[i] ELSE last[i - 2]
      BY <1>2, <1>4, <3>1
    <3>3. 1 \in 1 .. 3 /\ 2 \in 1 .. 3 /\ 3 \in 1 .. 3
      OBVIOUS
    <3>4. s[1] = begun[1] /\ s[2] = begun[2] /\ s[3] = last[1]
      BY <3>2, <3>3
    <3> QED  BY <1>2, <2>1, <3>1, <3>2, <3>4
  <2>2. CASE which # "full"
    <3>1. begun[1] = first[1] /\ Len(begun) = 1
      <4>1. Len(begun) = 1 /\ \A i \in 1 .. 1 : begun[i] = IF i <= 1 THEN first[i] ELSE second[i - 1]
        <5>1. Len(first) = 1 /\ Len(second) = 0
          BY <1>2, <2>2
        <5>2. Len(first) + Len(second) = 1
          BY <5>1
        <5> QED  BY <1>3, <5>1, <5>2
      <4>2. 1 \in 1 .. 1
        OBVIOUS
      <4> QED  BY <4>1, <4>2
    <3>2. Len(s) = 2 /\ \A i \in 1 .. 2 : s[i] = IF i <= 1 THEN begun[i] ELSE last[i - 1]
      BY <1>2, <1>4, <3>1
    <3>3. 1 \in 1 .. 2 /\ 2 \in 1 .. 2
      OBVIOUS
    <3>4. s[1] = begun[1] /\ s[2] = last[1]
      BY <3>2, <3>3
    <3>5. which = "plain"
      BY <2>2 DEF Value!Caches
    <3> QED  BY <1>2, <2>2, <3>1, <3>2, <3>4, <3>5
  <2> QED  BY <2>1, <2>2
<1>6. \A n \in 1 .. Len(s) : /\ Follows(s, n)
                             /\ s[n].do \in {"represent", "get", "fill"}
  <2>1. CASE which = "full"
    <3>1. /\ Len(s) = 3 /\ s[1].do = "represent" /\ s[2].do = "get"
          /\ s[3] = [do |-> "fill", of |-> "full"] /\ s[3].do = "fill"
      BY <1>5, <2>1
    <3>2. 1 + 1 = 2 /\ 2 + 1 = 3 /\ ~ (3 + 1 <= Len(s))
      BY <3>1
    <3>3. Follows(s, 1) /\ Follows(s, 2) /\ Follows(s, 3)
      BY <3>1, <3>2 DEF Follows
    <3>4. \A n \in 1 .. Len(s) : n = 1 \/ n = 2 \/ n = 3
      BY <3>1
    <3> QED  BY <3>1, <3>3, <3>4
  <2>2. CASE which # "full"
    <3>1. /\ Len(s) = 2 /\ s[1].do = "represent"
          /\ s[2] = [do |-> "fill", of |-> "plain"] /\ s[2].do = "fill"
      BY <1>5, <2>2
    <3>2. 1 + 1 = 2 /\ ~ (2 + 1 <= Len(s))
      BY <3>1
    <3>3. Follows(s, 1) /\ Follows(s, 2)
      BY <3>1, <3>2 DEF Follows
    <3>4. \A n \in 1 .. Len(s) : n = 1 \/ n = 2
      BY <3>1
    <3> QED  BY <3>1, <3>3, <3>4
  <2> QED  BY <2>1, <2>2
<1>7. Proper(kind, s) /\ ~ Checks(s) /\ ~ StoresNone(s)
  BY <1>6 DEF Proper, StoresLast, StoresFirst, Checks, StoresNone
<1>8. ~ Starts(s, {"get", "fill", "adjust", "valid_values"}) /\ ~ Starts(s, {"store"})
  BY <1>5 DEF Starts
<1>9. /\ ~ Starts(todo[Loop], {"get", "fill"}) /\ ~ Starts(todo[Loop], Settling)
      /\ ~ Checks(todo[Loop]) /\ ~ StoresNone(todo[Loop])
      /\ \A c : ~ Clears(todo[Loop], c)
  BY <1>1, Idle
<1>10. calls' \in 0 .. MaxCalls /\ raised \in BOOLEAN
  BY <1>1 DEF ValueInv, Value!TypeOK
<1> QED  BY <1>1, <1>4, <1>7, <1>8, <1>9, <1>10, InputIs, Replaced

----------------------------------------------------------------------------
(* The value: steps that change it *)

(* An actor has taken the first of its steps. *)
LEMMA Advances ==
  ASSUME ValueInv, NEW a \in Value!Actors, todo[a] # <<>>, todo' = Value!Rest(a)
  PROVE  /\ todo' \in [Value!Actors -> Seq(Value!Instructions)]
         /\ todo'[a] = Tail(todo[a])
         /\ \A b \in Value!Actors : b # a => todo'[b] = todo[b]
         /\ \A b \in Value!Actors : Proper(kind, todo'[b])
         /\ Starts(todo'[a], {"get", "fill"}) => todo[a][1].do \in {"represent", "get"}
         /\ Starts(todo'[a], {"adjust"}) => todo[a][1].do = "valid_values"
         /\ Starts(todo'[a], {"valid_values"}) => todo[a][1].do = "properties"
         /\ kind # "null" => ~ Starts(todo'[a], {"store"})
         /\ Len(todo[a]) = 1 + Len(todo'[a]) /\ Len(todo'[a]) \in Nat
         /\ todo'[a] # <<>> => todo'[a][1] = todo[a][2] /\ 2 <= Len(todo[a])
         /\ Len(todo[a]) = 1 => todo'[a] = <<>>
<1> DEFINE s == todo[a]
           t == Tail(s)
<1>1. todo \in [Value!Actors -> Seq(Instructions)] /\ s \in Seq(Instructions) /\ s # <<>>
  BY TodoIs DEF ValueInv, Value!TypeOK, Instructions
<1>2. Proper(kind, s)
  BY DEF ValueInv, ProperInv
<1> HIDE DEF s
<1>3. /\ t \in Seq(Instructions) /\ Len(s) = 1 + Len(t) /\ Len(t) \in Nat
      /\ \A n \in 1 .. Len(t) : s[n + 1] = t[n]
  BY <1>1, TailIs
<1>4. Proper(kind, t) /\ (kind # "null" => \A n \in 1 .. Len(t) : t[n].do # "store")
  BY <1>1, <1>2, TailIsProper
<1>5. todo' = [todo EXCEPT ![a] = t]
  BY DEF Value!Rest, s
<1> HIDE DEF t
<1>6. t # <<>> => t[1] = s[2] /\ 2 <= Len(s) /\ 1 \in 1 .. Len(t)
  <2>1. ASSUME t # <<>> PROVE 1 \in 1 .. Len(t) /\ 1 + 1 = 2
    BY <1>3, <2>1
  <2> QED  BY <1>3, <2>1
<1>7. Follows(s, 1)
  <2>1. 1 \in 1 .. Len(s)
    BY <1>3
  <2> QED  BY <1>2, <2>1 DEF Proper
<1>8. todo'[a] = t /\ (\A b \in Value!Actors : b # a => todo'[b] = todo[b])
  BY <1>1, <1>5
<1>9. todo' \in [Value!Actors -> Seq(Value!Instructions)]
  BY <1>1, <1>3, <1>5 DEF Instructions
<1>10. \A b \in Value!Actors : Proper(kind, todo'[b])
  BY <1>4, <1>8 DEF ValueInv, ProperInv
<1>11. /\ Starts(t, {"get", "fill"}) => s[1].do \in {"represent", "get"}
       /\ Starts(t, {"adjust"}) => s[1].do = "valid_values"
       /\ Starts(t, {"valid_values"}) => s[1].do = "properties"
  <2>1. 1 + 1 = 2
    OBVIOUS
  <2> QED  BY <1>6, <1>7, <2>1 DEF Starts, Follows
<1>12. kind # "null" => ~ Starts(t, {"store"})
  BY <1>4, <1>6 DEF Starts
<1>13. Len(s) = 1 => t = <<>>
  <2>1. t \in Seq(Instructions) /\ Len(t) \in Nat
    BY <1>3
  <2>2. Len(s) = 1 => Len(t) = 0
    <3> DEFINE n == Len(t)
    <3>1. Len(s) = 1 + n /\ n \in Nat
      BY <1>3
    <3> HIDE DEF n
    <3>2. 1 + n = 1 => n = 0
      BY <3>1
    <3> QED  BY <3>1, <3>2 DEF n
  <2>3. Len(t) = 0 => t = <<>>
    BY <2>1
  <2> QED  BY <2>2, <2>3
<1> QED  BY <1>3, <1>6, <1>8, <1>9, <1>10, <1>11, <1>12, <1>13 DEF s, t

LEMMA RacesIs ==
  ASSUME ValueInv, NEW a \in Value!Actors, Value!Races(a)
  PROVE  /\ raced' \in [Value!Caches \cup {"now"} -> BOOLEAN]
         /\ \A c \in Value!Caches : raced'[c] = raced[c]
         /\ a # Loop /\ rep # Value!NoRep => raced'["now"] = TRUE
<1>1. raced \in [Value!Caches \cup {"now"} -> BOOLEAN] /\ "now" \notin Value!Caches
  BY DEF ValueInv, Value!TypeOK, Value!Caches
<1> QED  BY <1>1 DEF Value!Races

LEMMA StoreValueStep ==
  ASSUME ValueInv, NEW a \in Value!Actors, Value!StoreValue(a)
  PROVE  ValueInv'
<1> DEFINE s == todo[a]
<1>1. /\ Value!Step(a, "store") /\ value' = s[1].val /\ todo' = Value!Rest(a) /\ Value!Races(a)
      /\ UNCHANGED <<kind, props, cache, rep, mixed, raised, calls>>
  BY DEF Value!StoreValue
<1>2. /\ s \in Seq(Instructions) /\ s # <<>> /\ s[1].do = "store"
      /\ Proper(kind, s) /\ 1 \in 1 .. Len(s) /\ Follows(s, 1)
      /\ kind = "null" => StoresLast(s, 1)
      /\ kind # "null" => StoresFirst(s, 1)
  BY <1>1, StepIs
<1>3. s[1] \in Instructions /\ s[1].val \in Int \cup {None}
  <2>1. s[1] \in Instructions
    BY <1>2, TailIs
  <2> QED  BY <1>2, <2>1 DEF Instructions, Value!Instructions
<1>4. /\ todo' \in [Value!Actors -> Seq(Value!Instructions)]
      /\ todo'[a] = Tail(s)
      /\ \A b \in Value!Actors : b # a => todo'[b] = todo[b]
      /\ \A b \in Value!Actors : Proper(kind, todo'[b])
      /\ Len(s) = 1 + Len(todo'[a]) /\ Len(todo'[a]) \in Nat
      /\ ~ Starts(todo'[a], {"get", "fill"}) /\ ~ Starts(todo'[a], {"adjust"})
      /\ ~ Starts(todo'[a], {"valid_values"})
      /\ kind # "null" => ~ Starts(todo'[a], {"store"})
  BY <1>1, <1>2, Advances
<1>5. /\ raced' \in [Value!Caches \cup {"now"} -> BOOLEAN]
      /\ \A c \in Value!Caches : raced'[c] = raced[c]
      /\ a # Loop /\ rep # Value!NoRep => raced'["now"] = TRUE
  BY <1>1, RacesIs
<1>6. /\ Checks(Tail(s)) <=> Checks(s)
      /\ StoresNone(s) /\ s[1].val # None => StoresNone(Tail(s))
  BY <1>2, TailKeeps
<1>7. \A n \in 1 .. Len(Tail(s)) : s[n + 1] = Tail(s)[n]
  BY <1>2, TailIs
<1> HIDE DEF s
<1>8. Value!TypeOK'
  BY <1>1, <1>3, <1>4, <1>5 DEF ValueInv, Value!TypeOK
<1>9. ProperInv'
  BY <1>1, <1>4 DEF ProperInv
<1>10. RepInv'
  <2>1. CASE a = Loop
    <3>1. rep = Value!NoRep
      <4>1. ~ Starts(todo[Loop], {"get", "fill"})
        BY <1>2, <2>1 DEF Starts, s
      <4> QED  BY <4>1 DEF ValueInv, RepInv
    <3> QED  BY <1>1, <1>4, <2>1, <3>1 DEF RepInv
  <2>2. CASE a # Loop
    <3>1. todo'[Loop] = todo[Loop] /\ rep' = rep
      BY <1>1, <1>4, <2>2, InputIs
    <3>2. CASE Starts(todo[Loop], {"get", "fill"})
      <4>1. rep.props # None
        BY <3>2 DEF ValueInv, RepInv
      <4>2. rep # Value!NoRep
        BY <4>1 DEF Value!NoRep
      <4> QED  BY <1>5, <2>2, <3>1, <3>2, <4>1, <4>2 DEF RepInv
    <3>3. CASE ~ Starts(todo[Loop], {"get", "fill"})
      BY <3>1, <3>3 DEF ValueInv, RepInv
    <3> QED  BY <3>2, <3>3
  <2> QED  BY <2>1, <2>2
<1>11. CacheInv'
  <2>1. ASSUME NEW c \in Value!Caches PROVE Clears(todo'[a], c)
    <3>1. /\ 2 <= Len(todo'[a])
          /\ Tail(s)[1] = [do |-> "clear", of |-> "plain"]
          /\ Tail(s)[2] = [do |-> "clear", of |-> "full"]
      <4>1. /\ 1 + 2 <= Len(s)
            /\ s[1 + 1] = [do |-> "clear", of |-> "plain"]
            /\ s[1 + 2] = [do |-> "clear", of |-> "full"]
        BY <1>2 DEF Follows
      <4>2. 1 \in 1 .. Len(Tail(s)) /\ 2 \in 1 .. Len(Tail(s)) /\ 2 + 1 = 1 + 2
        BY <1>4, <4>1
      <4> QED  BY <1>4, <1>7, <4>1, <4>2
    <3> DEFINE t == Tail(s)
    <3>2. /\ t[1] = [do |-> "clear", of |-> "plain"] /\ t[2] = [do |-> "clear", of |-> "full"]
          /\ todo'[a] = t /\ 2 <= Len(t) /\ Len(t) \in Nat
      BY <1>4, <3>1
    <3> HIDE DEF t
    <3>3. t[1].do = "clear" /\ t[2].do = "clear"
      BY <3>2
    <3>4. PICK n \in 1 .. 2 : t[n] = [do |-> "clear", of |-> c]
      BY <3>2 DEF Value!Caches
    <3>5. n \in 1 .. Len(t)
      BY <3>2
    <3>6. \A m \in 1 .. n : m = 1 \/ m = 2
      OBVIOUS
    <3> QED  BY <3>2, <3>3, <3>4, <3>5, <3>6 DEF Clears
  <2> QED  BY <2>1 DEF CacheInv
<1>12. NullInv'
  <2>1. CASE kind = "null"
    <3>1. CASE s[1].val = None
      BY <1>1, <2>1, <3>1 DEF NullInv
    <3>2. CASE s[1].val # None
      <4>1. StoresNone(s)
        <5>1. PICK m \in 1 + 1 .. Len(s) : s[m].do = "store" /\ s[m].val = None
          BY <1>2, <2>1, <3>2 DEF StoresLast
        <5>2. m \in 1 .. Len(s)
          BY <1>4
        <5> QED  BY <5>1, <5>2 DEF StoresNone
      <4>2. StoresNone(todo'[a])
        BY <1>4, <1>6, <3>2, <4>1
      <4> QED  BY <1>1, <2>1, <4>2 DEF NullInv
    <3> QED  BY <3>1, <3>2
  <2>2. CASE kind # "null"
    BY <1>1, <1>2, <2>2 DEF NullInv, StoresFirst
  <2> QED  BY <2>1, <2>2
<1>13. ASSUME ~ mixed, kind # "null" PROVE WholeInv' /\ RangeInv' /\ (kind = "plain" => ValidInv')
  <2>1. WholeInv /\ RangeInv /\ (kind = "plain" => ValidInv)
    BY <1>13 DEF ValueInv, AllowedInv
  <2>2. Starts(s, {"store"})
    BY <1>2 DEF Starts
  <2>3. WholeInv'
    BY <1>1, <1>4, <1>6, <2>1 DEF WholeInv, s
  <2>4. RangeInv'
    <3>1. InRange(props, value')
      BY <1>1, <2>1, <2>2 DEF RangeInv, s
    <3> QED  BY <1>1, <1>4, <1>13, <2>1, <3>1 DEF RangeInv
  <2>5. ASSUME kind = "plain" PROVE ValidInv'
    <3>1. Checks(todo'[a]) \/ Valid(props, value')
      BY <1>1, <1>4, <1>6, <2>1, <2>2, <2>5 DEF ValidInv, s
    <3> QED  BY <1>1, <1>4, <1>13, <2>1, <2>5, <3>1 DEF ValidInv
  <2> QED  BY <2>3, <2>4, <2>5
<1>14. AllowedInv'
  BY <1>1, <1>13 DEF AllowedInv
<1> QED  BY <1>8, <1>9, <1>10, <1>11, <1>12, <1>14 DEF ValueInv

LEMMA ClearCacheStep ==
  ASSUME ValueInv, NEW a \in Value!Actors, Value!ClearCache(a)
  PROVE  ValueInv'
<1> DEFINE s == todo[a]
           of == s[1].of
<1>1. /\ Value!Step(a, "clear") /\ todo' = Value!Rest(a)
      /\ cache' = [cache EXCEPT ![of] = Value!NoRep]
      /\ UNCHANGED <<kind, props, value, rep, raced, mixed, raised, calls>>
  BY DEF Value!ClearCache
<1>2. /\ s \in Seq(Instructions) /\ s # <<>> /\ s[1].do = "clear"
  BY <1>1, StepIs
<1>3. of \in Value!Caches /\ s[1] = [do |-> "clear", of |-> of]
  <2>1. s[1] \in Instructions
    BY <1>2, TailIs
  <2> QED  BY <1>2, <2>1 DEF Instructions, Value!Instructions
<1>4. /\ todo' \in [Value!Actors -> Seq(Value!Instructions)]
      /\ todo'[a] = Tail(s)
      /\ \A b \in Value!Actors : b # a => todo'[b] = todo[b]
      /\ \A b \in Value!Actors : Proper(kind, todo'[b])
      /\ ~ Starts(todo'[a], {"get", "fill"}) /\ ~ Starts(todo'[a], {"adjust"})
      /\ ~ Starts(todo'[a], {"valid_values"})
      /\ kind # "null" => ~ Starts(todo'[a], {"store"})
  BY <1>1, <1>2, Advances
<1>5. /\ \A c : Clears(s, c) /\ c # of => Clears(Tail(s), c)
      /\ Checks(Tail(s)) <=> Checks(s)
      /\ StoresNone(s) => StoresNone(Tail(s))
  <2>1. \A c : c # of => s[1] # [do |-> "clear", of |-> c]
    BY DEF of
  <2> QED  BY <1>2, <2>1, TailKeeps
<1>6. ~ Starts(s, {"get", "fill"}) /\ ~ Starts(s, Settling)
  BY <1>2 DEF Starts, Settling
<1> HIDE DEF of
<1>7. Value!TypeOK'
  <2>1. Value!NoRep \in Value!Representations
    BY DEF Value!NoRep, Value!Representations
  <2>2. cache' \in [Value!Caches -> Value!Representations]
    BY <1>1, <2>1 DEF ValueInv, Value!TypeOK
  <2> QED  BY <1>1, <1>4, <2>2 DEF ValueInv, Value!TypeOK
<1>8. ProperInv'
  BY <1>1, <1>4 DEF ProperInv
<1>9. RepInv'
  <2>1. CASE a = Loop
    BY <1>1, <1>4, <1>6, <2>1 DEF ValueInv, RepInv
  <2>2. CASE a # Loop
    <3>1. todo'[Loop] = todo[Loop]
      BY <1>4, <2>2, InputIs
    <3> QED  BY <1>1, <3>1 DEF ValueInv, RepInv
  <2> QED  BY <2>1, <2>2
<1>10. CacheInv'
  <2>1. ASSUME NEW c \in Value!Caches, Value!Stale(c)', ~ raced[c]
        PROVE  \E b \in Value!Actors : Clears(todo'[b], c)
    <3>1. c # of /\ cache'[c] = cache[c]
      BY <1>1, <1>3, <2>1 DEF ValueInv, Value!TypeOK, Value!Stale
    <3>2. PICK b \in Value!Actors : Clears(todo[b], c)
      BY <1>1, <2>1, <3>1 DEF ValueInv, CacheInv, Value!Stale
    <3> QED  BY <1>4, <1>5, <3>1, <3>2
  <2> QED  BY <1>1, <2>1 DEF CacheInv
<1>11. NullInv'
  <2>1. ASSUME NEW b \in Value!Actors, StoresNone(todo[b])
        PROVE  \E d \in Value!Actors : StoresNone(todo'[d])
    BY <1>4, <1>5, <2>1
  <2> QED  BY <1>1, <2>1 DEF ValueInv, NullInv
<1>12. ASSUME ~ mixed, kind # "null" PROVE WholeInv' /\ RangeInv' /\ (kind = "plain" => ValidInv')
  <2>1. WholeInv /\ RangeInv /\ (kind = "plain" => ValidInv)
    BY <1>12 DEF ValueInv, AllowedInv
  <2>2. WholeInv'
    BY <1>1, <1>4, <1>5, <2>1 DEF WholeInv
  <2>3. RangeInv'
    <3>1. ASSUME NEW b \in Value!Actors, Starts(todo[b], Settling)
          PROVE  \E d \in Value!Actors : Starts(todo'[d], Settling)
      BY <1>4, <1>6, <3>1
    <3>2. ASSUME NEW b \in Value!Actors, Starts(todo'[b], {"store"})
          PROVE  InRange(props, todo'[b][1].val)
      BY <1>4, <1>12, <2>1, <3>2 DEF RangeInv
    <3> QED  BY <1>1, <2>1, <3>1, <3>2 DEF RangeInv
  <2>4. ASSUME kind = "plain" PROVE ValidInv'
    <3>1. ASSUME NEW b \in Value!Actors, Starts(todo[b], Settling) \/ Checks(todo[b])
          PROVE  \E d \in Value!Actors : Starts(todo'[d], Settling) \/ Checks(todo'[d])
      BY <1>4, <1>5, <1>6, <3>1
    <3>2. ASSUME NEW b \in Value!Actors, Starts(todo'[b], {"store"})
          PROVE  Checks(todo'[b]) \/ Valid(props, todo'[b][1].val)
      BY <1>4, <1>12, <2>1, <2>4, <3>2 DEF ValidInv
    <3> QED  BY <1>1, <2>1, <2>4, <3>1, <3>2 DEF ValidInv
  <2> QED  BY <2>2, <2>3, <2>4
<1>13. AllowedInv'
  BY <1>1, <1>12 DEF AllowedInv
<1> QED  BY <1>7, <1>8, <1>9, <1>10, <1>11, <1>13 DEF ValueInv

(* Properties change: the call has still to adjust the value. *)
LEMMA OverridesStep ==
  ASSUME ValueInv, NEW a \in Value!Actors, todo[a] # <<>>,
         todo[a][1].do \in {"properties", "valid_values"},
         NEW p, \E q, r \in Configs : p = [q EXCEPT !.valid = r.valid],
         Value!Overrides(a, p),
         Starts(todo'[a], {"valid_values", "adjust"}), ~ Checks(todo'[a]),
         \A c \in Value!Caches : Clears(todo'[a], c),
         ~ mixed /\ kind # "null" /\ Starts(todo'[a], {"adjust"}) => p \in Configs,
         Starts(todo'[a], {"valid_values"}) =>
           /\ p.min = todo'[a][1].of.min
           /\ p.max = todo'[a][1].of.max
           /\ p.step = todo'[a][1].of.step
  PROVE  ValueInv'
<1>1. /\ props' = p /\ todo' = Value!Rest(a) /\ Value!Races(a)
      /\ mixed' = (mixed \/ \E b \in Value!Actors \ {a} : todo[b] # <<>>)
      /\ UNCHANGED <<kind, value, cache, rep, raised, calls>>
  BY DEF Value!Overrides
<1>2. /\ todo' \in [Value!Actors -> Seq(Value!Instructions)]
      /\ todo'[a] = Tail(todo[a])
      /\ \A b \in Value!Actors : b # a => todo'[b] = todo[b]
      /\ \A b \in Value!Actors : Proper(kind, todo'[b])
  BY <1>1, Advances
<1>3. /\ raced' \in [Value!Caches \cup {"now"} -> BOOLEAN]
      /\ \A c \in Value!Caches : raced'[c] = raced[c]
      /\ a # Loop /\ rep # Value!NoRep => raced'["now"] = TRUE
  BY <1>1, RacesIs
<1>4. Value!TypeOK'
  <2>1. mixed' \in BOOLEAN
    BY <1>1, Zenon
  <2> QED  BY <1>1, <1>2, <1>3, <2>1 DEF ValueInv, Value!TypeOK
<1>5. ProperInv'
  BY <1>1, <1>2 DEF ProperInv
<1>6. RepInv'
  <2>1. CASE a = Loop
    <3>1. ~ Starts(todo[Loop], {"get", "fill"})
      BY <2>1 DEF Starts
    <3>2. ~ Starts(todo'[Loop], {"get", "fill"})
      BY <2>1 DEF Starts
    <3> QED  BY <1>1, <3>1, <3>2 DEF ValueInv, RepInv
  <2>2. CASE a # Loop
    <3>1. todo'[Loop] = todo[Loop] /\ rep' = rep
      BY <1>1, <1>2, <2>2, InputIs
    <3>2. CASE Starts(todo[Loop], {"get", "fill"})
      <4>1. rep.props # None
        BY <3>2 DEF ValueInv, RepInv
      <4>2. rep # Value!NoRep
        BY <4>1 DEF Value!NoRep
      <4> QED  BY <1>3, <2>2, <3>1, <3>2, <4>1, <4>2 DEF RepInv
    <3>3. CASE ~ Starts(todo[Loop], {"get", "fill"})
      BY <3>1, <3>3 DEF ValueInv, RepInv
    <3> QED  BY <3>2, <3>3
  <2> QED  BY <2>1, <2>2
<1>7. CacheInv'
  BY DEF CacheInv
<1>8. NullInv'
  <2>1. StoresNone(todo[a]) => StoresNone(todo'[a])
    BY <1>2, TodoIs, TailKeeps DEF ValueInv
  <2>2. ASSUME NEW b \in Value!Actors, StoresNone(todo[b])
        PROVE  \E d \in Value!Actors : StoresNone(todo'[d])
    BY <1>2, <2>1, <2>2
  <2> QED  BY <1>1, <2>2 DEF ValueInv, NullInv
<1>9. ASSUME ~ mixed', kind # "null"
      PROVE  WholeInv' /\ RangeInv' /\ (kind = "plain" => ValidInv')
  <2>1. ~ mixed /\ \A b \in Value!Actors : b # a => todo[b] = <<>>
    BY <1>1, <1>9
  <2>2. \A b \in Value!Actors : b # a => todo'[b] = <<>>
    BY <1>2, <2>1
  <2>3. WholeInv'
    BY <1>1, <1>9, <2>1, <2>2, Idle DEF WholeInv
  <2>4. ~ Starts(todo'[a], {"store"}) /\ Starts(todo'[a], Settling)
    BY DEF Starts, Settling
  <2>5. RangeInv'
    BY <2>2, <2>4, Idle DEF RangeInv
  <2>6. ValidInv'
    BY <2>2, <2>4, Idle DEF ValidInv
  <2> QED  BY <2>3, <2>5, <2>6
<1>10. AllowedInv'
  BY <1>1, <1>9 DEF AllowedInv
<1> QED  BY <1>4, <1>5, <1>6, <1>7, <1>8, <1>10 DEF ValueInv

LEMMA OverriddenIs ==
  ASSUME ValueInv, NEW a \in Value!Actors, todo[a] # <<>>,
         todo[a][1].do \in {"properties", "valid_values"}
  PROVE  todo[a][1].of \in Configs
<1>1. todo[a][1] \in Instructions
  BY TodoIs, TailIs DEF ValueInv
<1> QED  BY <1>1 DEF Instructions, Value!Instructions

LEMMA NotEmpty ==
  ASSUME NEW s, Len(s) \in {1, 2} PROVE s # <<>>
<1>1. Len(<<>>) = 0
  OBVIOUS
<1>2. Len(s) # 0
  OBVIOUS
<1> QED  BY <1>1, <1>2, Zenon

LEMMA SameLength ==
  ASSUME NEW n \in Nat, NEW k \in Nat, 1 + n = 1 + k PROVE n = k
OBVIOUS

LEMMA UpdatePropertiesStep ==
  ASSUME ValueInv, NEW a \in Value!Actors, Value!UpdateProperties(a)
  PROVE  ValueInv'
<1> DEFINE p == todo[a][1].of
           new == [props EXCEPT !.min = p.min, !.max = p.max, !.step = p.step]
<1>1. Value!Step(a, "properties") /\ Value!Overrides(a, new)
  BY DEF Value!UpdateProperties
<1>2. /\ todo[a] # <<>> /\ todo[a][1].do = "properties" /\ Follows(todo[a], 1)
      /\ todo[a] \in Seq(Instructions)
  BY <1>1, StepIs
<1>3. /\ 1 + 2 = Len(todo[a]) /\ todo[a][1 + 2].do = "adjust"
      /\ todo[a][1 + 1].do = "valid_values" /\ todo[a][1 + 1].of = p
  BY <1>2 DEF Follows
<1>4. p \in Configs
  BY <1>2, OverriddenIs
<1> HIDE DEF p
<1>5. /\ \E q, r \in Configs : new = [q EXCEPT !.valid = r.valid]
      /\ new.min = p.min /\ new.max = p.max /\ new.step = p.step
  <2>1. PICK q \in Configs, r \in Configs : props = [q EXCEPT !.valid = r.valid]
    BY DEF ValueInv, Value!TypeOK
  <2>2. p \in Value!Properties /\ q \in Value!Properties /\ r \in Value!Properties
    BY <1>4, ConfigsHave
  <2>3. new = [p EXCEPT !.valid = r.valid]
    BY <2>1, <2>2 DEF Value!Properties
  <2>4. new.min = p.min /\ new.max = p.max /\ new.step = p.step
    BY <2>2, <2>3 DEF Value!Properties
  <2> QED  BY <1>4, <2>3, <2>4
<1> HIDE DEF new
<1>6. todo' = Value!Rest(a)
  BY <1>1 DEF Value!Overrides
<1> DEFINE t == Tail(todo[a])
<1>7. todo'[a] = t /\ t \in Seq(Instructions) /\ Len(t) = 2
  <2>1. todo'[a] = t
    BY <1>2, <1>6, Advances
  <2>2. t \in Seq(Instructions) /\ Len(todo[a]) = 1 + Len(t) /\ Len(t) \in Nat
    BY <1>2, TailIs
  <2> HIDE DEF t
  <2>3. Len(t) = 2
    BY <1>3, <2>2, SameLength
  <2> QED  BY <2>1, <2>2, <2>3
<1>8. t[1].do = "valid_values" /\ t[1].of = p /\ t[2].do = "adjust"
  <2>1. \A n \in 1 .. Len(t) : todo[a][n + 1] = t[n]
    BY <1>2, TailIs
  <2> HIDE DEF t
  <2>2. 1 \in 1 .. Len(t) /\ 2 \in 1 .. Len(t) /\ 2 + 1 = 1 + 2
    BY <1>7
  <2> QED  BY <1>3, <2>1, <2>2
<1> HIDE DEF t
<1>9. t # <<>>
  <2>1. Len(t) \in {1, 2}
    BY <1>7
  <2> QED  BY <2>1, NotEmpty
<1>10. \A n \in 1 .. Len(t) : n = 1 \/ n = 2
  BY <1>7
<1>11. ~ Checks(t)
  BY <1>8, <1>10 DEF Checks
<1>12. \A c \in Value!Caches : Clears(t, c)
  <2>1. 2 \in 1 .. Len(t) /\ \A m \in 1 .. 2 : m = 1 \/ m = 2
    BY <1>7
  <2> QED  BY <1>8, <2>1 DEF Clears
<1>13. Starts(t, {"valid_values", "adjust"}) /\ ~ Starts(t, {"adjust"})
  BY <1>8, <1>9 DEF Starts
<1> QED  BY <1>1, <1>2, <1>5, <1>7, <1>8, <1>11, <1>12, <1>13, OverridesStep

LEMMA UpdateValidValuesStep ==
  ASSUME ValueInv, NEW a \in Value!Actors, Value!UpdateValidValues(a)
  PROVE  ValueInv'
<1> DEFINE p == todo[a][1].of
           new == [props EXCEPT !.valid = p.valid]
<1>1. Value!Step(a, "valid_values") /\ Value!Overrides(a, new)
  BY DEF Value!UpdateValidValues
<1>2. /\ todo[a] # <<>> /\ todo[a][1].do = "valid_values" /\ Follows(todo[a], 1)
      /\ todo[a] \in Seq(Instructions)
  BY <1>1, StepIs
<1>3. 1 + 1 = Len(todo[a]) /\ todo[a][1 + 1].do = "adjust"
  BY <1>2 DEF Follows
<1>4. p \in Configs /\ p \in Value!Properties
  BY <1>2, OverriddenIs, ConfigsHave
<1>5. ~ mixed /\ kind # "null" => props.min = p.min /\ props.max = p.max /\ props.step = p.step
  <2>1. Starts(todo[a], {"valid_values"})
    BY <1>2 DEF Starts
  <2> QED  BY <2>1 DEF ValueInv, AllowedInv, WholeInv
<1> HIDE DEF p
<1>6. \E q, r \in Configs : new = [q EXCEPT !.valid = r.valid]
  <2>1. PICK q \in Configs, r \in Configs : props = [q EXCEPT !.valid = r.valid]
    BY DEF ValueInv, Value!TypeOK
  <2>2. q \in Value!Properties /\ r \in Value!Properties
    BY ConfigsHave
  <2>3. new = [q EXCEPT !.valid = p.valid]
    BY <2>1, <2>2, <1>4 DEF Value!Properties
  <2> QED  BY <1>4, <2>3
<1>7. ~ mixed /\ kind # "null" => new = p
  <2>1. props \in Value!Properties
    BY PropsHave DEF ValueInv, Value!TypeOK, PropsOK
  <2> QED  BY <1>4, <1>5, <2>1 DEF Value!Properties
<1> HIDE DEF new
<1>8. todo' = Value!Rest(a)
  BY <1>1 DEF Value!Overrides
<1> DEFINE t == Tail(todo[a])
<1>9. todo'[a] = t /\ t \in Seq(Instructions) /\ Len(t) = 1
  <2>1. todo'[a] = t
    BY <1>2, <1>8, Advances
  <2>2. t \in Seq(Instructions) /\ Len(todo[a]) = 1 + Len(t) /\ Len(t) \in Nat
    BY <1>2, TailIs
  <2> HIDE DEF t
  <2>3. Len(t) = 1
    BY <1>3, <2>2, SameLength
  <2> QED  BY <2>1, <2>2, <2>3
<1>10. t[1].do = "adjust"
  <2>1. \A n \in 1 .. Len(t) : todo[a][n + 1] = t[n]
    BY <1>2, TailIs
  <2> HIDE DEF t
  <2>2. 1 \in 1 .. Len(t)
    BY <1>9
  <2> QED  BY <1>3, <2>1, <2>2
<1> HIDE DEF t
<1>11. t # <<>> /\ \A n \in 1 .. Len(t) : n = 1
  <2>1. t # <<>>
    <3>1. Len(t) \in {1, 2}
      BY <1>9
    <3> QED  BY <3>1, NotEmpty
  <2>2. \A n \in 1 .. Len(t) : n = 1
    BY <1>9
  <2> QED  BY <2>1, <2>2
<1>12. ~ Checks(t)
  BY <1>10, <1>11 DEF Checks
<1>13. \A c \in Value!Caches : Clears(t, c)
  <2>1. 1 \in 1 .. Len(t) /\ \A m \in 1 .. 1 : m = 1
    BY <1>9
  <2> QED  BY <1>10, <2>1 DEF Clears
<1>14. Starts(t, {"valid_values", "adjust"}) /\ ~ Starts(t, {"valid_values"})
  BY <1>10, <1>11 DEF Starts
<1> QED  BY <1>1, <1>2, <1>4, <1>6, <1>7, <1>9, <1>12, <1>13, <1>14, OverridesStep

(* The loop takes a step of to_HAP, which changes no value and no property. *)
LEMMA RepresentsStep ==
  ASSUME ValueInv, todo[Loop] # <<>>, todo[Loop][1].do \in {"represent", "get", "fill"},
         todo' = Value!Rest(Loop),
         UNCHANGED <<kind, props, value, mixed, raised, calls>>,
         cache' \in [Value!Caches -> Value!Representations],
         rep' \in Value!Representations,
         raced' \in [Value!Caches \cup {"now"} -> BOOLEAN],
         RepInv',
         \A c \in Value!Caches :
           Value!Stale(c)' /\ ~ raced'[c] => Value!Stale(c) /\ ~ raced[c]
  PROVE  ValueInv'
<1> DEFINE s == todo[Loop]
<1>1. /\ todo' \in [Value!Actors -> Seq(Value!Instructions)]
      /\ todo'[Loop] = Tail(s)
      /\ \A b \in Value!Actors : b # Loop => todo'[b] = todo[b]
      /\ \A b \in Value!Actors : Proper(kind, todo'[b])
      /\ ~ Starts(todo'[Loop], {"adjust"}) /\ ~ Starts(todo'[Loop], {"valid_values"})
      /\ kind # "null" => ~ Starts(todo'[Loop], {"store"})
      /\ Loop \in Value!Actors
  BY InputIs, Advances
<1>2. s \in Seq(Instructions) /\ s # <<>>
  BY <1>1, TodoIs DEF ValueInv
<1>3. /\ \A c : Clears(s, c) => Clears(Tail(s), c)
      /\ Checks(Tail(s)) <=> Checks(s)
      /\ StoresNone(s) => StoresNone(Tail(s))
  <2>1. \A c : s[1] # [do |-> "clear", of |-> c]
    OBVIOUS
  <2> QED  BY <1>2, <2>1, TailKeeps
<1>4. ~ Starts(s, Settling)
  BY DEF Starts, Settling
<1>5. Value!TypeOK'
  BY <1>1 DEF ValueInv, Value!TypeOK
<1>6. ProperInv'
  BY <1>1 DEF ProperInv
<1>7. CacheInv'
  <2>1. ASSUME NEW c \in Value!Caches, Value!Stale(c)', ~ raced'[c]
        PROVE  \E b \in Value!Actors : Clears(todo'[b], c)
    <3>1. Value!Stale(c) /\ ~ raced[c]
      BY <2>1
    <3>2. PICK b \in Value!Actors : Clears(todo[b], c)
      BY <3>1 DEF ValueInv, CacheInv
    <3> QED  BY <1>1, <1>3, <3>2
  <2> QED  BY <2>1 DEF CacheInv
<1>8. NullInv'
  <2>1. ASSUME NEW b \in Value!Actors, StoresNone(todo[b])
        PROVE  \E d \in Value!Actors : StoresNone(todo'[d])
    BY <1>1, <1>3, <2>1
  <2> QED  BY <2>1 DEF ValueInv, NullInv
<1>9. ASSUME ~ mixed, kind # "null" PROVE WholeInv' /\ RangeInv' /\ (kind = "plain" => ValidInv')
  <2>1. WholeInv /\ RangeInv /\ (kind = "plain" => ValidInv)
    BY <1>9 DEF ValueInv, AllowedInv
  <2>2. WholeInv'
    BY <1>1, <1>3, <2>1 DEF WholeInv
  <2>3. RangeInv'
    <3>1. ASSUME NEW b \in Value!Actors, Starts(todo[b], Settling)
          PROVE  \E d \in Value!Actors : Starts(todo'[d], Settling)
      BY <1>1, <1>4, <3>1
    <3>2. ASSUME NEW b \in Value!Actors, Starts(todo'[b], {"store"})
          PROVE  InRange(props, todo'[b][1].val)
      BY <1>1, <1>9, <2>1, <3>2 DEF RangeInv
    <3> QED  BY <2>1, <3>1, <3>2 DEF RangeInv
  <2>4. ASSUME kind = "plain" PROVE ValidInv'
    <3>1. ASSUME NEW b \in Value!Actors, Starts(todo[b], Settling) \/ Checks(todo[b])
          PROVE  \E d \in Value!Actors : Starts(todo'[d], Settling) \/ Checks(todo'[d])
      BY <1>1, <1>3, <1>4, <3>1
    <3>2. ASSUME NEW b \in Value!Actors, Starts(todo'[b], {"store"})
          PROVE  Checks(todo'[b]) \/ Valid(props, todo'[b][1].val)
      BY <1>1, <1>9, <2>1, <2>4, <3>2 DEF ValidInv
    <3> QED  BY <2>1, <2>4, <3>1, <3>2 DEF ValidInv
  <2> QED  BY <2>2, <2>3, <2>4
<1>10. AllowedInv'
  BY <1>9 DEF AllowedInv
<1> QED  BY <1>5, <1>6, <1>7, <1>8, <1>10 DEF ValueInv

LEMMA RepresentStep ==
  ASSUME ValueInv, Value!Represent
  PROVE  ValueInv'
<1>1. /\ Value!Step(Loop, "represent") /\ todo' = Value!Rest(Loop)
      /\ rep' = [props |-> props, val |-> None]
      /\ raced' = [raced EXCEPT !["now"] = FALSE]
      /\ UNCHANGED <<kind, props, value, cache, mixed, raised, calls>>
  BY DEF Value!Represent
<1>2. /\ todo[Loop] # <<>> /\ todo[Loop][1].do = "represent" /\ Follows(todo[Loop], 1)
      /\ todo[Loop] \in Seq(Instructions)
  BY <1>1, InputIs, StepIs
<1>3. raced \in [Value!Caches \cup {"now"} -> BOOLEAN] /\ cache \in [Value!Caches -> Value!Representations]
  BY DEF ValueInv, Value!TypeOK
<1>4. props \in Value!Properties /\ props # None
  BY PropsHave DEF ValueInv, Value!TypeOK, PropsOK
<1>5. rep' \in Value!Representations /\ rep'.props = props
  BY <1>1, <1>4 DEF Value!Representations
<1>6. /\ raced' \in [Value!Caches \cup {"now"} -> BOOLEAN]
      /\ \A c \in Value!Caches : raced'[c] = raced[c]
  BY <1>1, <1>3 DEF Value!Caches
<1>7. /\ todo'[Loop] # <<>>
      /\ todo'[Loop][1].do = "get" \/ todo'[Loop][1] = [do |-> "fill", of |-> "plain"]
  <2>1. 1 + 1 <= Len(todo[Loop])
        /\ (todo[Loop][1 + 1].do = "get" \/ todo[Loop][1 + 1] = [do |-> "fill", of |-> "plain"])
    BY <1>2 DEF Follows
  <2>2. /\ Len(todo[Loop]) = 1 + Len(todo'[Loop]) /\ Len(todo'[Loop]) \in Nat
        /\ todo'[Loop] # <<>> => todo'[Loop][1] = todo[Loop][2]
    BY <1>1, <1>2, InputIs, Advances
  <2>3. todo'[Loop] # <<>>
    <3>1. Len(todo'[Loop]) # 0
      BY <2>1, <2>2
    <3>2. Len(<<>>) = 0
      OBVIOUS
    <3> QED  BY <3>1, <3>2, Zenon
  <2>4. 1 + 1 = 2
    OBVIOUS
  <2> QED  BY <2>1, <2>2, <2>3, <2>4
<1>8. RepInv'
  <2>1. Starts(todo'[Loop], {"get", "fill"})
    BY <1>7 DEF Starts
  <2>2. ~ (Starts(todo'[Loop], {"fill"}) /\ todo'[Loop][1].of = "full")
    BY <1>7 DEF Starts
  <2> QED  BY <1>1, <1>4, <1>5, <2>1, <2>2 DEF RepInv
<1>9. \A c \in Value!Caches : Value!Stale(c)' => Value!Stale(c)
  BY <1>1 DEF Value!Stale
<1> QED  BY <1>1, <1>2, <1>3, <1>5, <1>6, <1>8, <1>9, RepresentsStep

LEMMA ReadValueStep ==
  ASSUME ValueInv, Value!ReadValue
  PROVE  ValueInv'
<1>1. /\ Value!Step(Loop, "get") /\ todo' = Value!Rest(Loop)
      /\ rep' = [rep EXCEPT !.val = value]
      /\ UNCHANGED <<kind, props, value, cache, raced, mixed, raised, calls>>
  BY DEF Value!ReadValue
<1>2. /\ todo[Loop] # <<>> /\ todo[Loop][1].do = "get" /\ Follows(todo[Loop], 1)
      /\ todo[Loop] \in Seq(Instructions)
  BY <1>1, InputIs, StepIs
<1>3. /\ raced \in [Value!Caches \cup {"now"} -> BOOLEAN]
      /\ cache \in [Value!Caches -> Value!Representations]
      /\ rep \in Value!Representations /\ value \in Int \cup {None}
  BY DEF ValueInv, Value!TypeOK
<1>4. rep' \in Value!Representations /\ rep'.props = rep.props /\ rep'.val = value
  BY <1>1, <1>3 DEF Value!Representations
<1>5. todo'[Loop] # <<>> /\ todo'[Loop][1] = [do |-> "fill", of |-> "full"]
  <2>1. 1 + 1 = Len(todo[Loop]) /\ todo[Loop][1 + 1] = [do |-> "fill", of |-> "full"]
    BY <1>2 DEF Follows
  <2>2. /\ Len(todo[Loop]) = 1 + Len(todo'[Loop]) /\ Len(todo'[Loop]) \in Nat
        /\ todo'[Loop] # <<>> => todo'[Loop][1] = todo[Loop][2]
    BY <1>1, <1>2, InputIs, Advances
  <2>3. todo'[Loop] # <<>>
    <3>1. Len(todo'[Loop]) # 0
      BY <2>1, <2>2
    <3>2. Len(<<>>) = 0
      OBVIOUS
    <3> QED  BY <3>1, <3>2, Zenon
  <2>4. 1 + 1 = 2
    OBVIOUS
  <2> QED  BY <2>1, <2>2, <2>3, <2>4
<1>6. RepInv'
  <2>1. Starts(todo[Loop], {"get", "fill"}) /\ Starts(todo'[Loop], {"get", "fill"})
    BY <1>2, <1>5 DEF Starts
  <2>2. rep.props # None /\ (~ raced["now"] => rep.props = props)
    BY <2>1 DEF ValueInv, RepInv
  <2> QED  BY <1>1, <1>4, <2>1, <2>2 DEF RepInv
<1>7. \A c \in Value!Caches : Value!Stale(c)' => Value!Stale(c)
  BY <1>1 DEF Value!Stale
<1> QED  BY <1>1, <1>2, <1>3, <1>4, <1>6, <1>7, RepresentsStep

LEMMA FillStep ==
  ASSUME ValueInv, Value!Fill
  PROVE  ValueInv'
<1> DEFINE which == todo[Loop][1].of
<1>1. /\ Value!Step(Loop, "fill") /\ todo' = Value!Rest(Loop) /\ rep' = Value!NoRep
      /\ cache' = [cache EXCEPT ![which] = rep]
      /\ raced' = [raced EXCEPT ![which] = raced["now"], !["now"] = FALSE]
      /\ UNCHANGED <<kind, props, value, mixed, raised, calls>>
  BY DEF Value!Fill
<1>2. /\ todo[Loop] # <<>> /\ todo[Loop][1].do = "fill" /\ Follows(todo[Loop], 1)
      /\ todo[Loop] \in Seq(Instructions)
  BY <1>1, InputIs, StepIs
<1>3. which \in Value!Caches
  <2>1. todo[Loop][1] \in Instructions
    BY <1>2, TailIs
  <2> QED  BY <1>2, <2>1 DEF Instructions, Value!Instructions
<1>4. /\ raced \in [Value!Caches \cup {"now"} -> BOOLEAN]
      /\ cache \in [Value!Caches -> Value!Representations]
      /\ rep \in Value!Representations
  BY DEF ValueInv, Value!TypeOK
<1>5. rep' \in Value!Representations
  BY <1>1 DEF Value!NoRep, Value!Representations
<1>6. cache' \in [Value!Caches -> Value!Representations]
  <2> HIDE DEF which
  <2> QED  BY <1>1, <1>3, <1>4
<1>7. /\ raced' \in [Value!Caches \cup {"now"} -> BOOLEAN]
      /\ raced'[which] = raced["now"]
      /\ \A c \in Value!Caches : c # which => raced'[c] = raced[c] /\ cache'[c] = cache[c]
      /\ cache'[which] = rep
  <2>1. "now" \notin Value!Caches
    BY DEF Value!Caches
  <2> HIDE DEF which
  <2> QED  BY <1>1, <1>3, <1>4, <2>1
<1>8. RepInv'
  <2>1. 1 = Len(todo[Loop])
    BY <1>2 DEF Follows
  <2>2. todo'[Loop] = <<>>
    BY <1>1, <1>2, <2>1, InputIs, Advances
  <2> QED  BY <1>1, <2>2, Idle DEF RepInv
<1>9. ASSUME ~ raced["now"] PROVE rep.props = props /\ (which = "full" => rep.val = value)
  <2>1. Starts(todo[Loop], {"get", "fill"}) /\ Starts(todo[Loop], {"fill"})
    BY <1>2 DEF Starts
  <2> QED  BY <1>9, <2>1 DEF ValueInv, RepInv
<1>10. ASSUME NEW c \in Value!Caches, Value!Stale(c)', ~ raced'[c]
       PROVE  Value!Stale(c) /\ ~ raced[c]
  <2> HIDE DEF which
  <2>1. CASE c = which
    <3>1. /\ cache'[c].props # props \/ (c = "full" /\ cache'[c].val # value)
      BY <1>1, <1>10 DEF Value!Stale
    <3>2. cache'[c] = rep /\ ~ raced["now"]
      BY <1>7, <1>10, <2>1
    <3> QED  BY <1>9, <2>1, <3>1, <3>2
  <2>2. CASE c # which
    <3>1. raced'[c] = raced[c] /\ cache'[c] = cache[c]
      BY <1>7, <2>2
    <3> QED  BY <1>1, <1>10, <3>1 DEF Value!Stale
  <2> QED  BY <2>1, <2>2
<1> QED  BY <1>1, <1>2, <1>5, <1>6, <1>7, <1>8, <1>10, RepresentsStep

LEMMA ValueStep ==
  ASSUME ValueInv, Value!Next \/ UNCHANGED valueVars
  PROVE  ValueInv'
<1>1. ASSUME Value!Calls PROVE ValueInv'
  BY <1>1, SetValueStep, OverridePropertiesStep, ClientUpdateValueStep, ToHAPStep, GetValueStep
     DEF Value!Calls
<1>2. ASSUME Value!Steps PROVE ValueInv'
  BY <1>2, StoreValueStep, ClearCacheStep, UpdatePropertiesStep, UpdateValidValuesStep, AdjustStep,
     CheckAdjustedStep, CallbackReturnsStep, CallbackSetsStep, CallbackRaisesStep, RepresentStep,
     ReadValueStep, ReadThroughGetterStep, FillStep
     DEF Value!Steps
<1>3. ASSUME UNCHANGED valueVars PROVE ValueInv'
  BY <1>3 DEF valueVars, ValueInv, Value!TypeOK, ProperInv, RepInv, CacheInv, Value!Stale, NullInv,
              AllowedInv, WholeInv, RangeInv, ValidInv
<1> QED  BY <1>1, <1>2, <1>3 DEF Value!Next

LEMMA ValueStart ==
  ASSUME Value!Init PROVE ValueInv
<1>1. /\ kind \in Value!Kinds /\ props \in Configs /\ value = Value!DefaultValue(props)
      /\ cache = [c \in Value!Caches |-> Value!NoRep]
      /\ todo = [a \in Value!Actors |-> <<>>]
      /\ rep = Value!NoRep
      /\ raced = [c \in Value!Caches \cup {"now"} |-> FALSE]
      /\ mixed = FALSE /\ raised = FALSE /\ calls = 0
  BY DEF Value!Init
<1>2. /\ \A a \in Value!Actors : todo[a] = <<>>
      /\ Loop \in Value!Actors
  BY <1>1, InputIs
<1>3. props = [props EXCEPT !.valid = props.valid]
  <2>1. props \in Value!Properties
    BY <1>1, ConfigsHave
  <2> QED  BY <2>1 DEF Value!Properties
<1>4. Value!NoRep \in Value!Representations
  BY DEF Value!NoRep, Value!Representations
<1>5. /\ todo \in [Value!Actors -> Seq(Value!Instructions)]
      /\ cache \in [Value!Caches -> Value!Representations]
      /\ raced \in [Value!Caches \cup {"now"} -> BOOLEAN]
      /\ rep \in Value!Representations /\ calls \in 0 .. MaxCalls
  BY <1>1, <1>4, InputIs
<1>6. PropsOK
  BY <1>1, <1>3 DEF PropsOK
<1>7. /\ kind = "null" => value = None
      /\ kind # "null" => value \in Int /\ InRange(props, value) /\ Valid(props, value)
  <2>1. kind = "null" => value = None
    BY <1>1 DEF Value!DefaultValue
  <2>2. kind # "null" => InRange(props, value) /\ Valid(props, value)
    BY <1>1, <1>6, DefaultIs
  <2> QED  BY <2>1, <2>2 DEF InRange
<1>8. Value!TypeOK
  BY <1>1, <1>5, <1>6, <1>7 DEF Value!TypeOK, PropsOK
<1>9. ProperInv
  BY <1>2, NothingLeft DEF ProperInv
<1>10. RepInv
  BY <1>1, <1>2, Idle DEF RepInv
<1>11. CacheInv
  BY <1>1 DEF CacheInv, Value!Stale
<1>12. NullInv
  BY <1>7 DEF NullInv
<1>13. AllowedInv
  BY <1>2, <1>7, Idle DEF AllowedInv, WholeInv, RangeInv, ValidInv
<1> QED  BY <1>8, <1>9, <1>10, <1>11, <1>12, <1>13 DEF ValueInv

LEMMA ValueInvSaysCurrent ==
  ASSUME ValueInv PROVE CacheIsCurrentUnlessRaced
<1>1. ASSUME Value!Quiet, NEW c \in Value!Caches, Value!Stale(c) PROVE raced[c]
  <2>1. \A a \in Value!Actors : ~ Clears(todo[a], c)
    BY <1>1, Idle DEF Value!Quiet
  <2>2. raced[c] \/ \E a \in Value!Actors : Clears(todo[a], c)
    BY <1>1 DEF ValueInv, CacheInv
  <2> QED  BY <2>1, <2>2, Zenon
<1> QED  BY <1>1 DEF CacheIsCurrentUnlessRaced, Value!CacheIsCurrentUnlessRaced

LEMMA ValueInvSaysAllowed ==
  ASSUME ValueInv PROVE ValueIsAllowed
<1> SUFFICES ASSUME Value!Quiet, ~ mixed
             PROVE  IF kind = "null" THEN value = None \/ raised
                    ELSE /\ value \in props.min .. props.max
                         /\ kind = "plain" => Value!Allowed(props, value)
  BY DEF ValueIsAllowed, Value!ValueIsAllowed
<1>1. /\ \A a \in Value!Actors : ~ Starts(todo[a], Settling)
      /\ \A a \in Value!Actors : ~ Checks(todo[a]) /\ ~ StoresNone(todo[a])
  BY Idle DEF Value!Quiet
<1>2. CASE kind = "null"
  BY <1>1, <1>2 DEF ValueInv, NullInv
<1>3. CASE kind # "null"
  <2>1. RangeInv /\ (kind = "plain" => ValidInv)
    BY <1>3 DEF ValueInv, AllowedInv
  <2>2. InRange(props, value)
    BY <1>1, <2>1 DEF RangeInv
  <2>3. value \in props.min .. props.max
    BY <2>2, PropsHave DEF InRange, ValueInv, Value!TypeOK, PropsOK
  <2>4. kind = "plain" => Valid(props, value)
    BY <1>1, <2>1 DEF ValidInv
  <2> QED  BY <1>3, <2>3, <2>4 DEF Valid, Value!Allowed
<1> QED  BY <1>2, <1>3

----------------------------------------------------------------------------
(* The database *)

DatabaseInv == AccessoriesInv /\ CachesLead /\ ValueInv /\ PreparedInv /\ WrittenInv

LEMMA DatabaseStart == DatabaseInit => DatabaseInv
<1> SUFFICES ASSUME DatabaseInit PROVE DatabaseInv
  OBVIOUS
<1>1. Init /\ Value!Init /\ Writes!Init
  BY DEF DatabaseInit
<1>2. AccessoriesInv /\ ValueInv
  BY <1>1, AccessoriesStart, ValueStart
<1>6. CachesLead
  <2>1. NotCached \notin Iids
    BY AccessoriesAssumption DEF Iids
  <2> QED  BY <1>1, <2>1 DEF Init, CachesLead
<1>3. MaxTime \in Nat /\ Start \in Stored
  BY DatabaseAssumption DEF Writes!WritesAssumption
<1>4. PreparedInv
  <2>1. Writes!NoPrepares \in [Pids -> Nat \cup {Missing}]
    BY DEF Writes!NoPrepares
  <2> QED  BY <1>1, <1>3, <2>1 DEF Writes!Init, PreparedInv, PreparedTypeOK,
                PreparesEndWithConnection, Writes!PreparesEndWithConnection
<1>5. WrittenInv
  <2>1. \A c \in WrittenChars : Writes!Kept(c, Start) \in Stored \cup {Null}
    BY <1>3 DEF Writes!Kept
  <2> QED  BY <1>1, <2>1 DEF Writes!Init, WrittenInv, WrittenTypeOK, SuccessIsTrue,
                Writes!SuccessIsTrue, Writes!Results, Writes!NoReply
<1> QED  BY <1>2, <1>4, <1>5, <1>6 DEF DatabaseInv

LEMMA DatabaseStep ==
  DatabaseInv /\ [DatabaseNext]_<<part, vars, valueVars, writeVars>>
    => DatabaseInv' /\ (IdentifiersKept \/ UNCHANGED vars)
<1> SUFFICES ASSUME DatabaseInv, [DatabaseNext]_<<part, vars, valueVars, writeVars>>
             PROVE  DatabaseInv' /\ (IdentifiersKept \/ UNCHANGED vars)
  OBVIOUS
<1>1. /\ Next \/ UNCHANGED vars
      /\ Value!Next \/ UNCHANGED valueVars
      /\ Writes!Next \/ UNCHANGED writeVars
  BY DEF DatabaseNext, ConfiguresAccessories, UsesValue, WritesBatches
<1>2. AccessoriesInv' /\ CachesLead' /\ IdentifiersKept
  BY <1>1, AccessoriesStep, CachesStep DEF DatabaseInv, Kept
<1>3. ValueInv'
  BY <1>1, ValueStep DEF DatabaseInv
<1>4. PreparedInv' /\ WrittenInv'
  BY <1>1, PreparedStep, WrittenStep DEF DatabaseInv
<1> QED  BY <1>2, <1>3, <1>4 DEF DatabaseInv

THEOREM DatabaseInvariant == DatabaseSpec => []DatabaseInv
<1>1. DatabaseInv /\ [DatabaseNext]_<<part, vars, valueVars, writeVars>> => DatabaseInv'
  BY DatabaseStep
<1> QED  BY <1>1, DatabaseStart, PTL DEF DatabaseSpec

(* The managers, services, values, caches, calls under way, prepared writes   *)
(* and replies have the values the code gives them (accessory.py:45,          *)
(* iid_manager.py:18, characteristic.py:162, accessory_driver.py:201).        *)
THEOREM AllTypesCorrect == DatabaseSpec => []AllTypesOK
<1>1. DatabaseInv => AllTypesOK
  BY DEF DatabaseInv, AccessoriesInv, ValueInv, PreparedInv, PreparedTypeOK, WrittenInv,
         WrittenTypeOK, AllTypesOK, Writes!TypeOK
<1> QED  BY <1>1, DatabaseInvariant, PTL

(* What GET /accessories lists can be read and written by the identifiers it  *)
(* is listed with as long as they are its own; an IID that is listed from a   *)
(* cache after it was removed leads nowhere (accessory.py:155, :385,          *)
(* iid_manager.py:24, characteristic.py:433).                                 *)
THEOREM ListedAreAlwaysFound == DatabaseSpec => []ListedIsFound
<1>1. DatabaseInv => ListedIsFound
  BY ListedAreFound DEF DatabaseInv
<1> QED  BY <1>1, DatabaseInvariant, PTL

(* An identifier a controller has seen is never given to another accessory,   *)
(* service or characteristic (iid_manager.py:48, accessory.py:360).           *)
THEOREM IdentifiersNeverReassigned == DatabaseSpec => NeverReassigned
<1>1. DatabaseInv /\ [DatabaseNext]_<<part, vars, valueVars, writeVars>>
        => [ \A acc \in All :
               /\ aid[acc] # None => aid'[acc] = aid[acc]
               /\ \A i \in 1 .. counter[acc] : objs'[acc][i] \in {None, objs[acc][i]} ]_vars
  BY DatabaseStep DEF IdentifiersKept
<1> QED  BY <1>1, DatabaseInvariant, PTL DEF DatabaseSpec, NeverReassigned

(* Between calls a cached representation is the characteristic's, unless a    *)
(* thread changed it while the loop made that representation                  *)
(* (characteristic.py:345, :424).                                             *)
THEOREM CachesAreCurrent == DatabaseSpec => []CacheIsCurrentUnlessRaced
<1>1. DatabaseInv => CacheIsCurrentUnlessRaced
  BY ValueInvSaysCurrent DEF DatabaseInv
<1> QED  BY <1>1, DatabaseInvariant, PTL

(* Between calls the value agrees with the properties, if they were not       *)
(* overridden during another call (characteristic.py:280, :308).              *)
THEOREM ValuesAreAllowed == DatabaseSpec => []ValueIsAllowed
<1>1. DatabaseInv => ValueIsAllowed
  BY ValueInvSaysAllowed DEF DatabaseInv
<1> QED  BY <1>1, DatabaseInvariant, PTL

(* A prepared write is never there for the next connection from its address   *)
(* (accessory_driver.py:545).                                                 *)
THEOREM PreparesEnd == DatabaseSpec => []PreparesEndWithConnection
<1>1. DatabaseInv => PreparesEndWithConnection
  BY DEF DatabaseInv, PreparedInv
<1> QED  BY <1>1, DatabaseInvariant, PTL

(* What a controller is told succeeded did: the value is what the last value  *)
(* it asked for was converted to, or what a callback set                      *)
(* (accessory_driver.py:867, characteristic.py:379).                          *)
THEOREM SuccessesAreTrue == DatabaseSpec => []SuccessIsTrue
<1>1. DatabaseInv => SuccessIsTrue
  BY DEF DatabaseInv, WrittenInv
<1> QED  BY <1>1, DatabaseInvariant, PTL
=============================================================================
