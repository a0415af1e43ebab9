----------------------------- MODULE HAPPersist -----------------------------
(***************************************************************************)
(* How changes of the State reach the accessory's state file, and what a   *)
(* restart finds there: AccessoryDriver.async_persist and persist, the     *)
(* reads of AccessoryEncoder.persist, config_changed, and the load of      *)
(* add_accessory with the version check of async_start.                    *)
(*                                                                         *)
(* The state is changed in the event loop and read by persist in another   *)
(* thread, one dictionary after the other and without a lock.  persist     *)
(* runs in the threads of the pool (async_persist) and in the thread of    *)
(* whoever calls config_changed.                                           *)
(***************************************************************************)
EXTENDS HAPState, Naturals

CONSTANTS
  Pool,        \* threads of the executor
  Callers,     \* threads of the application that call config_changed
  MaxVersion,  \* const.MAX_CONFIG_VERSION
  MaxChanges,  \* bound: changes of the state
  MaxCrashes   \* bound: crashes of the process

Threads == Pool \cup Callers

ASSUME ThreadsAssumption == Pool \cap Callers = {}
ASSUME BoundsAssumption ==
  /\ MaxVersion \in Nat \ {0}
  /\ MaxChanges \in Nat
  /\ MaxCrashes \in Nat

VARIABLES
  state,     \* driver.state, the pairing part
  version,   \* driver.state.config_version
  queued,    \* persist calls submitted to the executor that no thread took yet
  pc,        \* where in persist each thread is
  read,      \* what the encoder of each thread has read so far
  raced,     \* threads whose current dictionary changed size under the read
  tmp,       \* the temp file of each thread: none, partial, or all of what was read
  file,      \* the contents of persist_file
  intact,    \* whether persist_file is complete
  running,   \* whether the process is up
  orderly,   \* history: no persist began beside another one, and no file whose
             \* dictionaries disagree was loaded
  changes, crashes

vars == <<state, version, queued, pc, read, raced, tmp, file, intact, running, orderly,
          changes, crashes>>
jobVars == <<pc, read, raced, tmp>>

Reads == {"paired", "props", "bytes"}      \* the encoder's comprehensions
Steps == {"idle", "dump", "replace"} \cup Reads

Snapshot(s, v) == [ paired |-> s.paired, props |-> s.props, bytes |-> s.bytes,
                    version |-> v ]
Snapshots == [ paired : SUBSET Clients, props : [Clients -> Perms \cup {Absent}],
               bytes : SUBSET Clients, version : 1..MaxVersion ]
NothingRead == Snapshot(InitState, 1)
TmpStates == {"none", "partial", "complete"}

Stored(f) == [paired |-> f.paired, props |-> f.props, bytes |-> f.bytes]

(* Mistake: no wrap at the maximum. *)
NextVersionUnbounded(v) == v + 1

NextVersion(v) == IF v + 1 > MaxVersion THEN 1 ELSE v + 1

(* add_accessory stored the new accessory's state before it was started. *)
Init ==
  /\ state = InitState
  /\ version = 1
  /\ queued = 0
  /\ pc = [t \in Threads |-> "idle"]
  /\ read = [t \in Threads |-> NothingRead]
  /\ raced = {}
  /\ tmp = [t \in Threads |-> "none"]
  /\ file = Snapshot(state, version)
  /\ intact = TRUE
  /\ running = TRUE
  /\ orderly = TRUE
  /\ changes = 0
  /\ crashes = 0
-----------------------------------------------------------------------------
(* Changes of the state, in the event loop. *)

(* A comprehension over a dictionary raises when the dictionary's size      *)
(* changes while it runs.                                                   *)
Disturbed(s) ==
  {t \in Threads : \/ pc[t] = "paired" /\ s.paired # state.paired
                   \/ pc[t] = "props" /\ PropsKeys(s) # PropsKeys(state)
                   \/ pc[t] = "bytes" /\ s.bytes # state.bytes}

Change(s) ==
  /\ running
  /\ changes < MaxChanges
  /\ changes' = changes + 1
  /\ state' = s
  /\ raced' = raced \cup Disturbed(s)
  /\ UNCHANGED <<version, pc, read, tmp, file, intact, running, orderly, crashes>>

(* Mistake: no persist is submitted while one is queued or running. *)
AsyncPersistOnce ==
  IF queued > 0 \/ \E t \in Threads : pc[t] # "idle"
  THEN UNCHANGED queued ELSE queued' = queued + 1

AsyncPersist == queued' = queued + 1

Pair(c, perms) ==
  /\ Change(AddPairedClient(state, c, perms))
  /\ AsyncPersist

(* When remove_paired_client raises, async_persist is not reached. *)
Unpair(c) ==
  /\ c \in state.paired
  /\ Change(RemovePairedClient(state, c))
  /\ IF state.props[c] = Absent THEN UNCHANGED queued ELSE AsyncPersist

(* _pair_verify_two, for a client whose username bytes are not known. *)
VerifyRemembers(c) ==
  /\ c \in state.paired \ state.bytes
  /\ Change(RememberBytes(state, c))
  /\ AsyncPersist
-----------------------------------------------------------------------------
(* persist, in the thread t. *)

NonePersists == \A t \in Threads : pc[t] = "idle"

(* The temp file is created first; it is there and incomplete from now on. *)
Open(t) ==
  /\ pc[t] = "idle"
  /\ orderly' = (orderly /\ NonePersists)
  /\ pc' = [pc EXCEPT ![t] = "paired"]
  /\ tmp' = [tmp EXCEPT ![t] = "partial"]

StartQueued(t) ==
  /\ running
  /\ queued > 0
  /\ queued' = queued - 1
  /\ Open(t)
  /\ UNCHANGED <<state, version, read, raced, file, intact, running, changes, crashes>>

(* config_changed increments the version and persists in its own thread.   *)
ConfigChanged(t) ==
  /\ running
  /\ changes < MaxChanges
  /\ changes' = changes + 1
  /\ version' = NextVersion(version)
  /\ Open(t)
  /\ UNCHANGED <<state, queued, read, raced, file, intact, running, crashes>>

Go(t, from, to) == pc[t] = from /\ pc' = [pc EXCEPT ![t] = to]

ReadStep(t, from, to) ==
  /\ Go(t, from, to)
  /\ raced' = raced \ {t}
  /\ UNCHANGED <<state, version, queued, tmp, file, intact, running,
                 orderly, changes, crashes>>

ReadPaired(t) ==
  /\ ReadStep(t, "paired", "props")
  /\ read' = [read EXCEPT ![t].paired = state.paired]

ReadProps(t) ==
  /\ ReadStep(t, "props", "bytes")
  /\ read' = [read EXCEPT ![t].props = state.props]

(* The version is read after the dictionaries. *)
ReadBytes(t) ==
  /\ ReadStep(t, "bytes", "dump")
  /\ read' = [read EXCEPT ![t] = [ paired |-> @.paired, props |-> @.props,
                                   bytes |-> state.bytes, version |-> version ]]

(* RuntimeError out of a comprehension: the temp file is removed, the error *)
(* is logged, and raised to a caller of config_changed or to nobody.        *)
PersistFails(t) ==
  /\ pc[t] \in Reads
  /\ t \in raced
  /\ pc' = [pc EXCEPT ![t] = "idle"]
  /\ raced' = raced \ {t}
  /\ tmp' = [tmp EXCEPT ![t] = "none"]
  /\ UNCHANGED <<state, version, queued, read, file, intact, running,
                 orderly, changes, crashes>>

(* json.dump and the end of the with statement: the temp file is complete. *)
Dump(t) ==
  /\ Go(t, "dump", "replace")
  /\ tmp' = [tmp EXCEPT ![t] = "complete"]
  /\ UNCHANGED <<state, version, queued, read, raced, file, intact, running, orderly,
                 changes, crashes>>

(* Mistake: the file is replaced before the temp file is closed. *)
ReplaceEarly(t) ==
  /\ Go(t, "dump", "idle")
  /\ file' = read[t]
  /\ intact' = (tmp[t] = "complete")
  /\ tmp' = [tmp EXCEPT ![t] = "none"]
  /\ UNCHANGED <<state, version, queued, read, raced, running, orderly,
                 changes, crashes>>

(* os.replace is atomic. *)
Replace(t) ==
  /\ Go(t, "replace", "idle")
  /\ file' = read[t]
  /\ intact' = (tmp[t] = "complete")
  /\ tmp' = [tmp EXCEPT ![t] = "none"]
  /\ UNCHANGED <<state, version, queued, read, raced, running, orderly,
                 changes, crashes>>

Persist(t) ==
  \/ ReadPaired(t) \/ ReadProps(t) \/ ReadBytes(t)
  \/ PersistFails(t) \/ Dump(t) \/ Replace(t)
-----------------------------------------------------------------------------
(* The process dies: memory and the threads are gone.  A temp file that is  *)
(* left behind is never looked at again.                                    *)
Crash ==
  /\ running
  /\ crashes < MaxCrashes
  /\ crashes' = crashes + 1
  /\ running' = FALSE
  /\ state' = InitState
  /\ version' = 1
  /\ queued' = 0
  /\ pc' = [t \in Threads |-> "idle"]
  /\ read' = [t \in Threads |-> NothingRead]
  /\ raced' = {}
  /\ tmp' = [t \in Threads |-> "none"]
  /\ UNCHANGED <<file, intact, orderly, changes>>

(* The file is loaded; async_start compares the hash of the accessories and *)
(* increments the version and persists when it is not the stored one.       *)
Restart ==
  /\ ~running
  /\ intact
  /\ running' = TRUE
  /\ state' = Stored(file)
  /\ orderly' = (orderly /\ Consistent(Stored(file)))
  /\ \/ version' = file.version /\ UNCHANGED <<queued, changes>>
     \/ /\ changes < MaxChanges
        /\ changes' = changes + 1
        /\ version' = NextVersion(file.version)
        /\ AsyncPersist
  /\ UNCHANGED <<jobVars, file, intact, crashes>>
-----------------------------------------------------------------------------
Next ==
  \/ \E c \in Clients : Unpair(c) \/ VerifyRemembers(c)
  \/ \E c \in Clients, perms \in Perms : Pair(c, perms)
  \/ \E t \in Pool : StartQueued(t)
  \/ \E t \in Callers : ConfigChanged(t)
  \/ \E t \in Threads : Persist(t)
  \/ Crash \/ Restart

Spec == Init /\ [][Next]_vars
-----------------------------------------------------------------------------
TypeOK ==
  /\ state \in States
  /\ version \in 1..MaxVersion
  /\ queued \in Nat
  /\ pc \in [Threads -> Steps]
  /\ read \in [Threads -> Snapshots]
  /\ raced \subseteq Threads
  /\ tmp \in [Threads -> TmpStates]
  /\ file \in Snapshots
  /\ intact \in BOOLEAN
  /\ running \in BOOLEAN
  /\ orderly \in BOOLEAN
  /\ changes \in Nat
  /\ crashes \in Nat

Drained == queued = 0 /\ NonePersists

(* encoder.py:30: on every change "the state is updated".  Whatever a       *)
(* persist that was overtaken by a change has read, or whether it failed    *)
(* for it, once no persist is left to run the file holds the state.         *)
FileCatchesUp == running /\ Drained => file = Snapshot(state, version)

(* That holds, whatever persists were overtaken by changes or failed for    *)
(* them and wherever the process crashed, as long as no two persists ran at *)
(* the same time and the file that was loaded was in order.                 *)
FileCatchesUpInOrder == orderly => FileCatchesUp

(* At no point, and so after no crash, is the state file incomplete.   *)
AlwaysLoadable == intact

(* encoder.py:3: the state is persisted and loaded "so that it can work     *)
(* properly after a restart": the dictionaries of the loaded state agree.   *)
RestartedConsistent == running => Consistent(state)
=============================================================================
