------------------------------ MODULE HAPWrites ------------------------------
(***************************************************************************)
(* Writing characteristics: /prepare and PUT /characteristics              *)
(* (pyhap/hap_handler.py, AccessoryDriver.prepare and set_characteristics, *)
(* Characteristic.client_update_value).                                    *)
(*                                                                         *)
(* A write is a batch of queries.  The callbacks of characteristics,       *)
(* services and accessories belong to the application; each may raise, and *)
(* may set characteristics, its own or others.                             *)
(* Which events a write causes is in HAPEvents; here is what the values    *)
(* become and what the controller is told about it.                        *)
(***************************************************************************)
EXTENDS Naturals, FiniteSetsExt

CONSTANTS
  Peers,        \* peer addresses of controllers
  Pids,         \* pids of timed writes
  Chars,        \* characteristics
  Services,     \* the services, each the set of its characteristics
  Accessories,  \* the accessories, likewise
  Values,       \* what a query can ask for
  Stored,       \* what a characteristic can hold
  Start,        \* what each holds at first
  Taken,        \* what each characteristic makes of each value, or Invalid
  Invalid,      \* no conversion of the value is valid
  AlwaysNull,   \* characteristics that hold no value
  Null,         \* "value": null, and the value of those
  Missing,      \* no "value" in the query; also for no pid and no time
  Unknown,      \* a characteristic that is not there
  TTLs,         \* the ttl of a prepare, in ticks of the clock
  MaxTime,      \* bound: the clock
  MaxQueries,   \* bound: queries of a batch
  MaxEffects    \* bound: callbacks that raise and characteristics they set, in a write

WritesAssumption ==
  /\ Services \subseteq SUBSET Chars /\ UNION Services = Chars
  /\ Accessories \subseteq SUBSET Chars /\ UNION Accessories = Chars
  /\ \A s, t \in Services : s # t => s \cap t = {}
  /\ \A a, b \in Accessories : a # b => a \cap b = {}
  /\ Start \in Stored
  /\ Taken \in [Chars -> [Values -> Stored \cup {Invalid}]]
  /\ {Invalid, Null, Missing} \cap (Values \cup Stored \cup Pids \cup Nat) = {}
  /\ Unknown \notin Chars
  /\ TTLs \subseteq Nat
  /\ MaxTime \in Nat /\ MaxQueries \in Nat /\ MaxEffects \in Nat

(* HAP_SERVER_STATUS. *)
Statuses == {"SUCCESS", "SERVICE_COMMUNICATION_FAILURE", "INVALID_VALUE_IN_REQUEST"}

VARIABLES
  now,       \* the clock
  open,      \* peers with a verified connection
  prepared,  \* driver.prepared_writes: expire times by peer and pid
  value,     \* Characteristic.value
  reply      \* the response to the last write, until it has arrived

vars == <<now, open, prepared, value, reply>>

NoPrepares == [pid \in Pids |-> Missing]

Queries == [char : Chars \cup {Unknown}, val : Values \cup {Null, Missing}]
Batches == UNION {[1 .. n -> Queries] : n \in 1 .. MaxQueries}

(* The callbacks that raise during a write: setters by characteristic, and  *)
(* service and accessory setters by the characteristics they are for.       *)
Callbacks == Chars \cup Services \cup Accessories

(* The values that callbacks set and no later query wrote over.             *)
Settings == [Chars -> Stored \cup {Missing}]

(* What a response says, and what it is about: the batch, whether its pid   *)
(* was expired, and what the callbacks did.  A result with a status of its  *)
(* own for every characteristic of the batch, or an error for the whole.    *)
NoReply == [kind |-> "none"]
Response(kind, status, batch, timed, expired, raises, sets) ==
  [ kind |-> kind, status |-> status, batch |-> batch, timed |-> timed,
    expired |-> expired, raises |-> raises, sets |-> sets ]

Kept(c, v) == IF c \in AlwaysNull THEN Null ELSE v

Init ==
  /\ now = 0
  /\ open = {}
  /\ prepared = [p \in Peers |-> NoPrepares]
  /\ value = [c \in Chars |-> Kept(c, Start)]
  /\ reply = NoReply
-----------------------------------------------------------------------------
Connect(p) ==
  /\ p \notin open
  /\ open' = open \cup {p}
  /\ UNCHANGED <<now, prepared, value, reply>>

(* Mistake: the prepared writes stay. *)
ConnectionLostKeepsPrepares(p) ==
  /\ p \in open
  /\ open' = open \ {p}
  /\ UNCHANGED <<now, prepared, value, reply>>

ConnectionLost(p) ==
  /\ p \in open
  /\ open' = open \ {p}
  /\ prepared' = [prepared EXCEPT ![p] = NoPrepares]
  /\ UNCHANGED <<now, value, reply>>

Tick ==
  /\ now < MaxTime
  /\ now' = now + 1
  /\ UNCHANGED <<open, prepared, value, reply>>

(* A prepare with the pid of an earlier one replaces it. *)
Prepare(p, pid, ttl) ==
  /\ p \in open
  /\ prepared' = [prepared EXCEPT ![p][pid] = now + ttl]
  /\ UNCHANGED <<now, open, value, reply>>

(* The controller has got the response. *)
ReplyArrives ==
  /\ reply # NoReply
  /\ reply' = NoReply
  /\ UNCHANGED <<now, open, prepared, value>>
-----------------------------------------------------------------------------
(* The pid of a write that is not a timed one is Missing. *)
Expired(p, pid) ==
  /\ pid # Missing
  /\ \/ prepared[p][pid] = Missing
     \/ now > prepared[p][pid]

(* The prepared write is used up, expired or not. *)
TakePrepared(p, pid) ==
  prepared' = IF pid = Missing THEN prepared
              ELSE [prepared EXCEPT ![p][pid] = Missing]

(* The queries of a batch are told apart by their places in it.  Those       *)
(* without a value are left out, unless the write is expired.                *)
ToExecute(batch, expired) == {i \in DOMAIN batch : batch[i].val # Missing \/ expired}

(* The loop over the queries ends with an error at one for an unknown       *)
(* characteristic; the ones before it have been executed.                   *)
Executed(batch, queries) ==
  {i \in queries : \A j \in queries : j <= i => batch[j].char # Unknown}

Touched(batch, queries) == {batch[i].char : i \in queries}

For(batch, queries, c) == {i \in queries : batch[i].char = c}

LastOf(batch, queries) == batch[Max(queries)].val

Takes(q) == q.val \in Values /\ Taken[q.char][q.val] # Invalid

(* Mistake: the value is stored as it is, without to_valid_value. *)
AppliedUnchecked(batch, queries, raises, sets) ==
  [c \in Chars |->
     LET asked == {i \in For(batch, queries, c) : batch[i].val \in Values}
     IN  IF sets[c] # Missing THEN Kept(c, sets[c])
         ELSE IF asked = {} THEN value[c] ELSE Kept(c, LastOf(batch, asked))]

(* client_update_value sets what the value is converted to before it calls  *)
(* the setter callback; one that raises leaves it, also in a characteristic *)
(* that holds none.  A value that cannot be converted raises before that.   *)
Applied(batch, queries, raises, sets) ==
  [c \in Chars |->
     LET stored == {i \in For(batch, queries, c) : Takes(batch[i])}
         taken  == Taken[c][LastOf(batch, stored)]
     IN  IF sets[c] # Missing THEN Kept(c, sets[c])
         ELSE IF stored = {} THEN value[c]
         ELSE IF c \in raises THEN taken ELSE Kept(c, taken)]

(* The result of a characteristic is that of its last query.                *)
CharStatus(batch, queries, c, raises) ==
  LET v == LastOf(batch, For(batch, queries, c))
  IN  IF v \in {Missing, Null} THEN "INVALID_VALUE_IN_REQUEST"
      ELSE IF Taken[c][v] = Invalid \/ c \in raises THEN "SERVICE_COMMUNICATION_FAILURE"
      ELSE "SUCCESS"

(* Mistake: an accessory callback that succeeds clears the service's error. *)
StatusOfAccessoryFirst(batch, queries, c, raises) ==
  IF \E s \in Services \cap raises : c \in s /\ c \notin UNION (Accessories \ raises)
  THEN "SERVICE_COMMUNICATION_FAILURE"
  ELSE CharStatus(batch, queries, c, raises)

(* A callback of its service or accessory that raises overrides it. *)
StatusOf(batch, queries, c, raises) ==
  IF \E s \in (Services \cup Accessories) \cap raises : c \in s
  THEN "SERVICE_COMMUNICATION_FAILURE"
  ELSE CharStatus(batch, queries, c, raises)

(* An error for the whole request, no content when everything succeeded, or *)
(* the results; the values of write responses are among the results, too.   *)
KindsOf(complete, status) ==
  IF ~complete THEN {"500"}
  ELSE IF \A c \in DOMAIN status : status[c] = "SUCCESS" THEN {"204", "207"}
  ELSE {"207"}

(* A setter is called with a value that was taken; the callbacks of services *)
(* and accessories when the loop over the queries came to its end.           *)
CallbacksRun(batch, queries, done) ==
  \/ \E i \in done : Takes(batch[i])
  \/ done = queries /\ done # {}

(* raises is the set of the callbacks that raise. *)
SetCharacteristics(p, pid, batch, raises, sets) ==
  LET expired == Expired(p, pid)
      queries == ToExecute(batch, expired)
      done    == Executed(batch, queries)
      status  == [c \in Touched(batch, done) |-> StatusOf(batch, done, c, raises)]
  IN  /\ CallbacksRun(batch, queries, done) \/ \A c \in Chars : sets[c] = Missing
      /\ TakePrepared(p, pid)
      /\ value' = Applied(batch, done, raises, sets)
      /\ \E kind \in KindsOf(done = queries, status) :
           reply' = Response(kind, status, batch, pid # Missing, expired, raises, sets)
      /\ UNCHANGED <<now, open>>

(* A controller writes when it has got the response to its last write. *)
Write(p) ==
  /\ p \in open
  /\ reply = NoReply
  /\ \E raises \in SUBSET Callbacks, sets \in Settings :
       /\ Cardinality(raises) + Cardinality({c \in Chars : sets[c] # Missing}) <= MaxEffects
       /\ \E pid \in Pids \cup {Missing}, batch \in Batches :
            SetCharacteristics(p, pid, batch, raises, sets)
-----------------------------------------------------------------------------
Next ==
  \/ \E p \in Peers :
       \/ Connect(p) \/ ConnectionLost(p)
       \/ \E pid \in Pids, ttl \in TTLs : Prepare(p, pid, ttl)
       \/ Write(p)
  \/ ReplyArrives
  \/ Tick

Spec == Init /\ [][Next]_vars
-----------------------------------------------------------------------------
TypeOK ==
  /\ now \in 0 .. MaxTime
  /\ open \subseteq Peers
  /\ prepared \in [Peers -> [Pids -> Nat \cup {Missing}]]
  /\ value \in [Chars -> Stored \cup {Null}]
  /\ reply = NoReply \/ reply.kind \in {"204", "207", "500"}

(* A prepared write belongs to a connection: a controller that connects     *)
(* from the same address later cannot use it up.                            *)
PreparesEndWithConnection ==
  \A p \in Peers \ open : prepared[p] = NoPrepares

Results == reply.kind \in {"204", "207"}

(* The controller takes c to be written. *)
SaidToSucceed(c) ==
  IF reply.kind = "204"
  THEN c \in Touched(reply.batch, ToExecute(reply.batch, FALSE))
  ELSE c \in DOMAIN reply.status /\ reply.status[c] = "SUCCESS"

(* What a controller is told succeeded did, whatever else of the batch      *)
(* failed and on which level: the last value asked for is one that the      *)
(* characteristic takes, it holds what that value is converted to or what a *)
(* callback then set, and none of the callbacks it concerns has raised.     *)
SuccessIsTrue ==
  Results => \A c \in Chars : SaidToSucceed(c) =>
    LET last == LastOf(reply.batch, For(reply.batch, ToExecute(reply.batch, FALSE), c))
    IN  /\ last \in Values /\ Taken[c][last] # Invalid
        /\ value[c] = Kept(c, IF reply.sets[c] # Missing THEN reply.sets[c] ELSE Taken[c][last])
        /\ c \notin reply.raises
        /\ \A s \in (Services \cup Accessories) \cap reply.raises : c \notin s

(* tests/test_hap_handler.py:807, "Verify an encrypted set_characteristics  *)
(* with a prepare expired", asserts that the write is refused: nothing in a *)
(* timed write succeeds when its time is over.                              *)
ExpiredWriteRefused ==
  Results /\ reply.timed /\ reply.expired => \A c \in Chars : ~SaidToSucceed(c)
=============================================================================
