------------------------------ MODULE Database ------------------------------
(***************************************************************************)
(* The attribute database (HAPAccessories), the value of one of its        *)
(* characteristics (HAPCharacteristic) and batches of writes to several    *)
(* (HAPWrites).  They share no state; a behaviour is one of the three.     *)
(***************************************************************************)
EXTENDS HAPAccessories, Integers

CONSTANTS
  Threads, Loop, Inputs, Configs, MaxCalls,              \* of HAPCharacteristic
  Peers, Pids, WrittenChars, WrittenServices, WrittenAccessories, Values, Stored,
  Start, Taken, Invalid, AlwaysNull, Null, Missing, Unknown,
  TTLs, MaxTime, MaxQueries, MaxEffects                        \* of HAPWrites

VARIABLES
  part,
  kind, props, value, cache, todo, rep, raced, mixed, raised, calls,   \* of HAPCharacteristic
  now, open, prepared, written, reply                                  \* of HAPWrites

Value == INSTANCE HAPCharacteristic

Writes == INSTANCE HAPWrites WITH
  Chars <- WrittenChars, Services <- WrittenServices, Accessories <- WrittenAccessories,
  value <- written

ASSUME DatabaseAssumption == Value!ValueAssumption /\ Writes!WritesAssumption

valueVars == <<kind, props, value, cache, todo, rep, raced, mixed, raised, calls>>
writeVars == <<now, open, prepared, written, reply>>

DatabaseInit ==
  /\ part \in {"accessories", "value", "writes"}
  /\ Init /\ Value!Init /\ Writes!Init
  /\ part # "value" => kind = "plain" /\ props = CHOOSE p \in Configs : TRUE

ConfiguresAccessories == part = "accessories" /\ Next /\ UNCHANGED <<part, valueVars, writeVars>>

UsesValue == part = "value" /\ Value!Next /\ UNCHANGED <<part, vars, writeVars>>

WritesBatches == part = "writes" /\ Writes!Next /\ UNCHANGED <<part, vars, valueVars>>

DatabaseNext == ConfiguresAccessories \/ UsesValue \/ WritesBatches

DatabaseSpec == DatabaseInit /\ [][DatabaseNext]_<<part, vars, valueVars, writeVars>>

(* Every variable of the three has a value of its type. *)
AllTypesOK == TypeOK /\ Value!TypeOK /\ Writes!TypeOK

(* HAPCharacteristic: only a representation that was raced is stale. *)
CacheIsCurrentUnlessRaced == Value!CacheIsCurrentUnlessRaced

(* HAPCharacteristic: the value agrees with the properties. *)
ValueIsAllowed == Value!ValueIsAllowed

(* HAPWrites: a prepared write belongs to a connection. *)
PreparesEndWithConnection == Writes!PreparesEndWithConnection

(* HAPWrites: what a controller is told succeeded did. *)
SuccessIsTrue == Writes!SuccessIsTrue
=============================================================================
