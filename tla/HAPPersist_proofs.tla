-------------------------- MODULE HAPPersist_proofs --------------------------
(***************************************************************************)
(* What HAPPersist guarantees, for any number of threads, changes and      *)
(* crashes: the state file is complete at any time; and it catches up with *)
(* the state as long as no two persists run at the same time and no file   *)
(* whose dictionaries disagree was loaded.                                 *)
(***************************************************************************)
EXTENDS HAPPersist, TLAPS

-----------------------------------------------------------------------------
(* What the operations of HAPState keep true. *)

(* Adding a client keeps a state a state. *)
LEMMA AddTyped ==
  ASSUME NEW s \in States, NEW c \in Clients, NEW perms \in Perms
  PROVE  AddPairedClient(s, c, perms) \in States
BY DEF AddPairedClient, States, Perms, Absent

(* Removing a client keeps a state a state. *)
LEMMA RemoveTyped ==
  ASSUME NEW s \in States, NEW c \in Clients
  PROVE  RemovePairedClient(s, c) \in States
BY DEF RemovePairedClient, DropIfNoAdmin, NoProps, States, Perms, Absent

(* Remembering the username bytes of a client keeps a state a state. *)
LEMMA RememberTyped ==
  ASSUME NEW s \in States, NEW c \in Clients
  PROVE  RememberBytes(s, c) \in States
BY DEF RememberBytes, States

(* Adding a client, new or not, keeps the dictionaries in agreement. *)
LEMMA AddConsistent ==
  ASSUME NEW s \in States, NEW c \in Clients, NEW perms \in Perms, Consistent(s)
  PROVE  Consistent(AddPairedClient(s, c, perms))
BY DEF AddPairedClient, States, Consistent, PropsKeys, Perms, Absent

(* Removing a client keeps the dictionaries in agreement. *)
LEMMA RemoveConsistent ==
  ASSUME NEW s \in States, NEW c \in s.paired, Consistent(s)
  PROVE  Consistent(RemovePairedClient(s, c))
<1> DEFINE rest == [ paired |-> s.paired \ {c},
                     props  |-> [s.props EXCEPT ![c] = Absent],
                     bytes  |-> s.bytes \ {c} ]
<1>1. c \in Clients /\ s.props[c] # Absent
  BY DEF States, Consistent, PropsKeys
<1>2. RemovePairedClient(s, c) = DropIfNoAdmin(rest)
  BY <1>1 DEF RemovePairedClient
<1>3. Consistent(rest)
  BY <1>1 DEF States, Consistent, PropsKeys
<1>4. Consistent([paired |-> {}, props |-> NoProps, bytes |-> rest.bytes])
  BY DEF Consistent, PropsKeys, NoProps
<1> HIDE DEF rest
<1>5. QED
  BY <1>2, <1>3, <1>4 DEF DropIfNoAdmin

-----------------------------------------------------------------------------
(* What replaces the state file is complete by then. *)
CompleteBeforeReplace == \A t \in Threads : pc[t] = "replace" => tmp[t] = "complete"

LoadInv ==
  /\ pc \in [Threads -> Steps]
  /\ tmp \in [Threads -> TmpStates]
  /\ CompleteBeforeReplace
  /\ AlwaysLoadable

(* The initial state has a complete file. *)
LEMMA InitLoadInv == Init => LoadInv
BY DEF Init, LoadInv, Steps, TmpStates, CompleteBeforeReplace, AlwaysLoadable

(* Every step keeps it complete. *)
LEMMA NextLoadInv == LoadInv /\ [Next]_vars => LoadInv'
<1> SUFFICES ASSUME LoadInv, [Next]_vars PROVE LoadInv'
  OBVIOUS
<1> USE DEF LoadInv, Steps, Reads, TmpStates, CompleteBeforeReplace, AlwaysLoadable
<1>1. ASSUME NEW s, Change(s) PROVE LoadInv'
  BY <1>1 DEF Change
<1>2. ASSUME NEW t \in Threads, Open(t), UNCHANGED intact PROVE LoadInv'
  BY <1>2 DEF Open
<1>3. ASSUME NEW t \in Threads, NEW from \in Steps, NEW to \in Steps \ {"replace"},
             ReadStep(t, from, to)
      PROVE  LoadInv'
  BY <1>3 DEF ReadStep, Go
<1>4. ASSUME NEW t \in Threads, PersistFails(t) PROVE LoadInv'
  BY <1>4 DEF PersistFails
<1>5. ASSUME NEW t \in Threads, Dump(t) PROVE LoadInv'
  BY <1>5 DEF Dump, Go
<1>6. ASSUME NEW t \in Threads, Replace(t) PROVE LoadInv'
  BY <1>6 DEF Replace, Go
<1>7. CASE Crash
  BY <1>7 DEF Crash
<1>8. CASE Restart
  BY <1>8 DEF Restart, jobVars
<1>9. CASE UNCHANGED vars
  BY <1>9 DEF vars
<1>10. ASSUME NEW t \in Threads, Persist(t) PROVE LoadInv'
  BY <1>3, <1>4, <1>5, <1>6, <1>10 DEF Persist, ReadPaired, ReadProps, ReadBytes
<1>11. QED
  BY <1>1, <1>2, <1>7, <1>8, <1>9, <1>10
     DEF Next, Pair, Unpair, VerifyRemembers, StartQueued, ConfigChanged, Threads

(* The state file is never incomplete, whatever runs and dies. *)
THEOREM FileIsLoadable == Spec => []AlwaysLoadable
<1>1. LoadInv => AlwaysLoadable
  BY DEF LoadInv
<1>2. QED
  BY <1>1, InitLoadInv, NextLoadInv, PTL DEF Spec

-----------------------------------------------------------------------------
(* Type correctness. *)

LEMMA VersionTyped ==
  ASSUME NEW v \in 1..MaxVersion
  PROVE  NextVersion(v) \in 1..MaxVersion
BY BoundsAssumption DEF NextVersion

LEMMA SnapshotTyped ==
  ASSUME NEW s \in States, NEW v \in 1..MaxVersion
  PROVE  Snapshot(s, v) \in Snapshots
BY DEF Snapshot, Snapshots, States

LEMMA InitStateTyped == InitState \in States /\ Consistent(InitState)
BY DEF InitState, NoProps, States, Consistent, PropsKeys

LEMMA NothingReadTyped == NothingRead \in Snapshots
BY InitStateTyped, SnapshotTyped, BoundsAssumption DEF NothingRead

(* What is loaded from a file is a state, and is what the file holds. *)
LEMMA StoredTyped ==
  ASSUME NEW f \in Snapshots
  PROVE  /\ Stored(f) \in States
         /\ f = Snapshot(Stored(f), f.version)
         /\ f.version \in 1..MaxVersion
BY DEF Stored, Snapshot, Snapshots, States

LEMMA InitTypeOK == Init => TypeOK
<1> SUFFICES ASSUME Init PROVE TypeOK
  OBVIOUS
<1>1. 1 \in 1..MaxVersion
  BY BoundsAssumption
<1>2. Snapshot(state, version) \in Snapshots
  BY <1>1, InitStateTyped, SnapshotTyped DEF Init
<1>3. QED
  BY <1>1, <1>2, InitStateTyped, NothingReadTyped DEF Init, TypeOK, Steps, TmpStates

LEMMA ChangeTyped ==
  ASSUME TypeOK, NEW s \in States, Change(s), queued' \in Nat
  PROVE  TypeOK'
BY DEF TypeOK, Change, Disturbed

LEMMA OpenTyped ==
  ASSUME TypeOK, NEW t \in Threads, Open(t)
  PROVE  /\ pc' \in [Threads -> Steps]
         /\ tmp' \in [Threads -> TmpStates]
         /\ orderly' \in BOOLEAN
BY DEF TypeOK, Open, NonePersists, Steps, Reads, TmpStates

LEMMA ReadTyped ==
  ASSUME TypeOK, NEW t \in Threads, NEW from, NEW to \in Steps, ReadStep(t, from, to),
         NEW r \in Snapshots, read' = [read EXCEPT ![t] = r]
  PROVE  TypeOK'
BY DEF TypeOK, ReadStep, Go

(* What a thread has read after each of its reads. *)
ReadBy(t) ==
  CASE pc[t] = "paired" -> [read[t] EXCEPT !.paired = state.paired]
    [] pc[t] = "props"  -> [read[t] EXCEPT !.props = state.props]
    [] pc[t] = "bytes"  -> [ paired |-> read[t].paired, props |-> read[t].props,
                             bytes |-> state.bytes, version |-> version ]

LEMMA ReadByTyped ==
  ASSUME TypeOK, NEW t \in Threads, pc[t] \in Reads
  PROVE  ReadBy(t) \in Snapshots
<1>1. read[t] \in Snapshots /\ state \in States /\ version \in 1..MaxVersion
  BY DEF TypeOK
<1>2. QED
  BY <1>1 DEF ReadBy, Reads, Snapshots, States

(* The three reads are alike. *)
LEMMA ReadsAlike ==
  ASSUME TypeOK, NEW t \in Threads, ReadPaired(t) \/ ReadProps(t) \/ ReadBytes(t)
  PROVE  /\ pc[t] \in Reads
         /\ \E to \in Steps : /\ ReadStep(t, pc[t], to)
                              /\ to = CASE pc[t] = "paired" -> "props"
                                        [] pc[t] = "props"  -> "bytes"
                                        [] pc[t] = "bytes"  -> "dump"
         /\ read' = [read EXCEPT ![t] = ReadBy(t)]
<1>1. read \in [Threads -> Snapshots]
  BY DEF TypeOK
<1>2. CASE ReadPaired(t)
  BY <1>1, <1>2 DEF ReadPaired, ReadStep, Go, ReadBy, Reads, Steps
<1>3. CASE ReadProps(t)
  BY <1>1, <1>3 DEF ReadProps, ReadStep, Go, ReadBy, Reads, Steps
<1>4. CASE ReadBytes(t)
  BY <1>1, <1>4 DEF ReadBytes, ReadStep, Go, ReadBy, Reads, Steps
<1>5. QED
  BY <1>2, <1>3, <1>4

LEMMA NextTypeOK == TypeOK /\ [Next]_vars => TypeOK'
<1> SUFFICES ASSUME TypeOK, [Next]_vars PROVE TypeOK'
  OBVIOUS
<1>1. ASSUME NEW c \in Clients, NEW perms \in Perms, Pair(c, perms) PROVE TypeOK'
  BY <1>1, AddTyped, ChangeTyped DEF Pair, AsyncPersist, TypeOK
<1>2. ASSUME NEW c \in Clients, Unpair(c) PROVE TypeOK'
  BY <1>2, RemoveTyped, ChangeTyped DEF Unpair, AsyncPersist, TypeOK
<1>3. ASSUME NEW c \in Clients, VerifyRemembers(c) PROVE TypeOK'
  BY <1>3, RememberTyped, ChangeTyped DEF VerifyRemembers, AsyncPersist, TypeOK
<1>4. ASSUME NEW t \in Pool, StartQueued(t) PROVE TypeOK'
  BY <1>4, OpenTyped DEF StartQueued, Threads, TypeOK
<1>5. ASSUME NEW t \in Callers, ConfigChanged(t) PROVE TypeOK'
  BY <1>5, OpenTyped, VersionTyped DEF ConfigChanged, Threads, TypeOK
<1>6. ASSUME NEW t \in Threads, Persist(t) PROVE TypeOK'
  <2>1. CASE ReadPaired(t) \/ ReadProps(t) \/ ReadBytes(t)
    BY <2>1, ReadsAlike, ReadByTyped, ReadTyped
  <2>2. CASE PersistFails(t)
    BY <2>2 DEF PersistFails, TypeOK, Steps, TmpStates
  <2>3. CASE Dump(t)
    BY <2>3 DEF Dump, Go, TypeOK, Steps, TmpStates
  <2>4. CASE Replace(t)
    BY <2>4 DEF Replace, Go, TypeOK, Steps, TmpStates
  <2>5. QED
    BY <1>6, <2>1, <2>2, <2>3, <2>4 DEF Persist
<1>7. CASE Crash
  <2>1. 1 \in 1..MaxVersion
    BY BoundsAssumption
  <2>2. state' \in States /\ version' \in 1..MaxVersion /\ queued' \in Nat
    BY <1>7, <2>1, InitStateTyped DEF Crash
  <2>3. /\ pc' \in [Threads -> Steps] /\ tmp' \in [Threads -> TmpStates]
        /\ read' \in [Threads -> Snapshots]
    BY <1>7, <2>1, NothingReadTyped DEF Crash, Steps, TmpStates
  <2>4. raced' \subseteq Threads /\ crashes' \in Nat
    BY <1>7 DEF Crash, TypeOK
  <2>5. running' \in BOOLEAN
    BY <1>7, Zenon DEF Crash
  <2>6. QED
    BY <1>7, <2>2, <2>3, <2>4, <2>5 DEF Crash, TypeOK
<1>8. CASE Restart
  <2>1. Stored(file) \in States /\ file.version \in 1..MaxVersion
    BY StoredTyped DEF TypeOK
  <2>2. NextVersion(file.version) \in 1..MaxVersion
    BY <2>1, VersionTyped
  <2>3. Consistent(Stored(file)) \in BOOLEAN
    BY DEF Consistent
  <2>4. queued' \in Nat /\ version' \in 1..MaxVersion /\ changes' \in Nat /\ orderly' \in BOOLEAN
    BY <1>8, <2>1, <2>2, <2>3 DEF Restart, AsyncPersist, TypeOK
  <2>5. QED
    BY <1>8, <2>1, <2>4 DEF Restart, jobVars, TypeOK
<1>9. CASE UNCHANGED vars
  BY <1>9 DEF vars, TypeOK
<1>10. QED
  BY <1>1, <1>2, <1>3, <1>4, <1>5, <1>6, <1>7, <1>8, <1>9 DEF Next

(* Every variable keeps its type, the version its range across the wrap. *)
THEOREM PersistTypeCorrect == Spec => []TypeOK
BY InitTypeOK, NextTypeOK, PTL DEF Spec

-----------------------------------------------------------------------------
(* Catching up. *)

(* What the thread t has read so far is the state's. *)
Current(t) ==
  CASE pc[t] = "props" -> read[t].paired = state.paired
    [] pc[t] = "bytes" -> read[t].paired = state.paired /\ read[t].props = state.props
    [] pc[t] \in {"dump", "replace"} -> read[t] = Snapshot(state, version)
    [] OTHER -> TRUE

(* With no persist queued, the one that runs is going to write the state,   *)
(* and when none runs the state is in the file already.                     *)
Caught ==
  /\ running /\ NonePersists => file = Snapshot(state, version)
  /\ \A t \in Threads : Current(t)

(* At most one persist runs, and after one that a change disturbs another   *)
(* one is queued.                                                           *)
InOrder ==
  /\ Consistent(state)
  /\ \A t, u \in Threads : pc[t] # "idle" /\ pc[u] # "idle" => t = u
  /\ \A t \in raced : queued > 0 /\ pc[t] \in Reads
  /\ queued = 0 => Caught

CatchUpInv ==
  /\ TypeOK
  /\ ~running => queued = 0 /\ NonePersists
  /\ orderly => InOrder

LEMMA InitCatchUp == Init => CatchUpInv
BY InitTypeOK, InitStateTyped
   DEF Init, CatchUpInv, InOrder, Caught, Current, NonePersists

(* Every change of the state is followed by a persist that is queued. *)
LEMMA ChangeCatchUp ==
  ASSUME CatchUpInv, orderly, NEW s \in States, Consistent(s), Change(s), AsyncPersist
  PROVE  InOrder'
<1>1. queued' \in Nat /\ queued' > 0
  BY DEF AsyncPersist, CatchUpInv, TypeOK
<1>2. state' = s /\ raced' = raced \cup Disturbed(s) /\ pc' = pc
  BY DEF Change
<1>3. \A t \in Disturbed(s) : pc[t] \in Reads
  BY DEF Disturbed, Reads
<1>4. QED
  BY <1>1, <1>2, <1>3 DEF CatchUpInv, InOrder

(* A persist that begins alone has read nothing yet. *)
LEMMA OpenCatchUp ==
  ASSUME CatchUpInv, orderly, NEW t \in Threads, Open(t), NonePersists,
         UNCHANGED <<state, raced, read>>
  PROVE  InOrder'
<1>1. pc' = [pc EXCEPT ![t] = "paired"] /\ pc \in [Threads -> Steps]
  BY DEF Open, CatchUpInv, TypeOK
<1>2. raced = {}
  BY DEF CatchUpInv, InOrder, NonePersists, TypeOK, Reads
<1>3. \A u \in Threads : pc'[u] = IF u = t THEN "paired" ELSE "idle"
  BY <1>1 DEF NonePersists
<1>4. ~NonePersists' /\ \A u \in Threads : Current(u)'
  BY <1>3 DEF NonePersists, Current
<1>5. QED
  BY <1>2, <1>3, <1>4 DEF CatchUpInv, InOrder, Caught

(* A persist that goes on alone stays current. *)
LEMMA GoCatchUp ==
  ASSUME CatchUpInv, orderly, NEW t \in Threads, pc[t] # "idle", NEW to \in Steps,
         pc' = [pc EXCEPT ![t] = to], raced' = raced \ {t},
         UNCHANGED <<state, version, queued>>,
         queued = 0 => Current(t)' /\ (to = "idle" => file' = Snapshot(state, version))
  PROVE  InOrder'
<1>1. pc \in [Threads -> Steps] /\ raced \subseteq Threads
  BY DEF CatchUpInv, TypeOK
<1>2. \A u \in Threads : pc'[u] = IF u = t THEN to ELSE "idle"
  BY <1>1 DEF CatchUpInv, InOrder
<1>3. raced' = {}
  BY <1>1, <1>2 DEF CatchUpInv, InOrder, Reads
<1>4. ASSUME queued = 0 PROVE Caught'
  <2>1. NonePersists' => to = "idle"
    BY <1>2 DEF NonePersists
  <2>2. \A u \in Threads \ {t} : Current(u)'
    BY <1>2 DEF Current
  <2>3. QED
    BY <1>4, <2>1, <2>2 DEF Caught
<1>5. QED
  BY <1>2, <1>3, <1>4 DEF CatchUpInv, InOrder

LEMMA PersistCatchUp ==
  ASSUME CatchUpInv, orderly, NEW t \in Threads, Persist(t)
  PROVE  InOrder'
<1>1. /\ read \in [Threads -> Snapshots] /\ pc \in [Threads -> Steps] /\ TypeOK
      /\ queued = 0 => Current(t)
  BY DEF CatchUpInv, TypeOK, InOrder, Caught
<1>2. CASE ReadPaired(t) \/ ReadProps(t) \/ ReadBytes(t)
  <2>1. pc[t] \in Reads /\ read' = [read EXCEPT ![t] = ReadBy(t)]
    BY <1>1, <1>2, ReadsAlike
  <2>2. PICK to \in Steps : /\ ReadStep(t, pc[t], to)
                            /\ to = CASE pc[t] = "paired" -> "props"
                                      [] pc[t] = "props"  -> "bytes"
                                      [] pc[t] = "bytes"  -> "dump"
    BY <1>1, <1>2, ReadsAlike
  <2>3. /\ pc' = [pc EXCEPT ![t] = to] /\ raced' = raced \ {t}
        /\ UNCHANGED <<state, version, queued>>
    BY <2>2 DEF ReadStep, Go
  <2>4. pc'[t] = to /\ read'[t] = ReadBy(t) /\ to # "idle"
    BY <1>1, <2>1, <2>2, <2>3 DEF Reads
  <2>5. ASSUME queued = 0 PROVE Current(t)'
    <3>1. read[t] \in Snapshots
      BY <1>1
    <3>2. CASE pc[t] = "paired"
      BY <2>2, <2>3, <2>4, <3>1, <3>2 DEF Current, ReadBy, Snapshots
    <3>3. CASE pc[t] = "props"
      BY <1>1, <2>2, <2>3, <2>4, <2>5, <3>1, <3>3 DEF Current, ReadBy, Snapshots
    <3>4. CASE pc[t] = "bytes"
      <4>1. read[t].paired = state.paired /\ read[t].props = state.props
        BY <1>1, <2>5, <3>4 DEF Current
      <4>2. ReadBy(t) = Snapshot(state, version)
        BY <3>4, <4>1 DEF ReadBy, Snapshot
      <4>3. QED
        BY <2>2, <2>3, <2>4, <3>4, <4>2 DEF Current
    <3>5. QED
      BY <2>1, <3>2, <3>3, <3>4 DEF Reads
  <2>6. pc[t] # "idle"
    BY <2>1 DEF Reads
  <2>7. QED
    BY <2>3, <2>4, <2>5, <2>6, GoCatchUp
<1>3. CASE PersistFails(t)
  <2>1. /\ pc[t] # "idle" /\ queued > 0 /\ "idle" \in Steps
        /\ pc' = [pc EXCEPT ![t] = "idle"] /\ raced' = raced \ {t}
        /\ UNCHANGED <<state, version, queued>>
    BY <1>3 DEF PersistFails, CatchUpInv, InOrder, Reads, Steps
  <2>2. queued # 0
    BY <2>1
  <2>3. QED
    BY <2>1, <2>2, GoCatchUp
<1>4. ASSUME NEW to \in {"replace", "idle"}, pc[t] \in {"dump", "replace"},
             pc' = [pc EXCEPT ![t] = to], UNCHANGED <<state, version, queued, read, raced>>,
             to = "idle" => file' = read[t]
      PROVE  InOrder'
  <2>1. to \in Steps /\ pc[t] # "idle" /\ pc'[t] = to
    BY <1>1, <1>4 DEF Steps
  <2>2. t \notin raced /\ raced' = raced \ {t}
    BY <1>4 DEF CatchUpInv, InOrder, Reads
  <2>3. ASSUME queued = 0
        PROVE  Current(t)' /\ (to = "idle" => file' = Snapshot(state, version))
    <3>1. read[t] = Snapshot(state, version)
      BY <1>1, <1>4, <2>3 DEF Current
    <3>2. QED
      BY <1>4, <2>1, <3>1 DEF Current
  <2>4. QED
    BY <1>4, <2>1, <2>2, <2>3, GoCatchUp
<1>5. CASE Dump(t)
  BY <1>4, <1>5 DEF Dump, Go
<1>6. CASE Replace(t)
  BY <1>4, <1>6 DEF Replace, Go
<1>7. QED
  BY <1>2, <1>3, <1>5, <1>6 DEF Persist

(* Every step keeps the invariant. *)
LEMMA NextCatchUp == CatchUpInv /\ [Next]_vars => CatchUpInv'
<1> SUFFICES ASSUME CatchUpInv, [Next]_vars PROVE CatchUpInv'
  OBVIOUS
<1>1. TypeOK'
  BY NextTypeOK DEF CatchUpInv
<1>2. (~running => queued = 0 /\ NonePersists)'
  <2> USE DEF NonePersists
  <2>1. ASSUME NEW s, Change(s) PROVE running'
    BY <2>1 DEF Change
  <2>2. ASSUME NEW t \in Threads, Persist(t) PROVE (~running => queued = 0 /\ NonePersists)'
    BY <2>2 DEF Persist, ReadPaired, ReadProps, ReadBytes, ReadStep, Go, PersistFails, Dump,
                Replace, CatchUpInv, TypeOK, Reads
  <2>3. QED
    BY <2>1, <2>2 DEF Next, Pair, Unpair, VerifyRemembers, StartQueued, ConfigChanged,
                      Crash, Restart, CatchUpInv, vars
<1>3. ASSUME orderly' PROVE InOrder'
  <2>1. ASSUME NEW s, Change(s) PROVE orderly
    BY <1>3, <2>1 DEF Change
  <2>2. state \in States
    BY DEF CatchUpInv, TypeOK
  <2>3. ASSUME NEW c \in Clients, NEW perms \in Perms, Pair(c, perms) PROVE InOrder'
    BY <2>1, <2>2, <2>3, AddTyped, AddConsistent, ChangeCatchUp DEF Pair, CatchUpInv, InOrder
  <2>4. ASSUME NEW c \in Clients, Unpair(c) PROVE InOrder'
    <3>1. orderly /\ c \in state.paired /\ Consistent(state)
      BY <2>1, <2>4 DEF Unpair, CatchUpInv, InOrder
    <3>2. state.props[c] # Absent
      BY <3>1 DEF Consistent, PropsKeys
    <3>3. RemovePairedClient(state, c) \in States /\ Consistent(RemovePairedClient(state, c))
      BY <2>2, <3>1, RemoveTyped, RemoveConsistent
    <3>4. QED
      BY <2>4, <3>1, <3>2, <3>3, ChangeCatchUp DEF Unpair
  <2>5. ASSUME NEW c \in Clients, VerifyRemembers(c) PROVE InOrder'
    <3>1. orderly /\ Consistent(state)
      BY <2>1, <2>5 DEF VerifyRemembers, CatchUpInv, InOrder
    <3>2. RememberBytes(state, c) \in States /\ Consistent(RememberBytes(state, c))
      BY <2>2, <3>1, RememberTyped DEF RememberBytes, Consistent, PropsKeys
    <3>3. QED
      BY <2>5, <3>1, <3>2, ChangeCatchUp DEF VerifyRemembers
  <2>6. ASSUME NEW t \in Pool, StartQueued(t) PROVE InOrder'
    BY <1>3, <2>6, OpenCatchUp DEF StartQueued, Open, Threads
  <2>7. ASSUME NEW t \in Callers, ConfigChanged(t) PROVE InOrder'
    BY <1>3, <2>7, OpenCatchUp DEF ConfigChanged, Open, Threads
  <2>8. ASSUME NEW t \in Threads, Persist(t) PROVE InOrder'
    <3>1. orderly
      BY <1>3, <2>8 DEF Persist, ReadPaired, ReadProps, ReadBytes, ReadStep, PersistFails,
                        Dump, Replace
    <3>2. QED
      BY <2>8, <3>1, PersistCatchUp
  <2>9. CASE Crash
    BY <2>9, InitStateTyped DEF Crash, InOrder, Caught, Current
  <2>10. CASE Restart
    <3>1. orderly /\ Consistent(state') /\ pc' = pc /\ raced' = raced /\ file' = file
      BY <1>3, <2>10 DEF Restart, jobVars
    <3>2. NonePersists /\ raced = {} /\ queued = 0
      BY <2>10, <3>1 DEF Restart, CatchUpInv, InOrder, NonePersists, TypeOK, Reads
    <3>3. \A t \in Threads : Current(t)'
      BY <3>1, <3>2 DEF NonePersists, Current
    <3>4. queued' = 0 => file' = Snapshot(state', version')
      <4>1. file = Snapshot(Stored(file), file.version)
        BY StoredTyped DEF CatchUpInv, TypeOK
      <4>2. QED
        BY <2>10, <3>2, <4>1 DEF Restart, AsyncPersist
    <3>5. queued' = 0 => Caught'
      BY <3>3, <3>4 DEF Caught
    <3>6. QED
      BY <3>1, <3>2, <3>5 DEF InOrder, NonePersists
  <2>11. CASE UNCHANGED vars
    BY <1>3, <2>11 DEF vars, CatchUpInv, InOrder, Caught, Current, NonePersists
  <2>12. QED
    BY <2>3, <2>4, <2>5, <2>6, <2>7, <2>8, <2>9, <2>10, <2>11 DEF Next
<1>4. QED
  BY <1>1, <1>2, <1>3 DEF CatchUpInv

(* Whatever changes overtake a persist or make it fail, and wherever the    *)
(* process dies, the file holds the state whenever no persist is left, as   *)
(* long as persists ran one at a time and the file loaded was in order.     *)
THEOREM FileCatchesUpWhenInOrder == Spec => []FileCatchesUpInOrder
<1>1. CatchUpInv => FileCatchesUpInOrder
  BY DEF CatchUpInv, InOrder, Caught, FileCatchesUpInOrder, FileCatchesUp, Drained
<1>2. QED
  BY <1>1, InitCatchUp, NextCatchUp, PTL DEF Spec
=============================================================================
