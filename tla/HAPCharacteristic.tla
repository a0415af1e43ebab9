------------------------- MODULE HAPCharacteristic -------------------------
(***************************************************************************)
(* The value of a characteristic, the properties it has to agree with, and *)
(* its two cached representations (characteristic.py).                     *)
(*                                                                         *)
(* The event loop answers GET /accessories (to_HAP), applies the writes of *)
(* controllers (client_update_value) and runs their setter callbacks;      *)
(* threads of the application set values and override properties.  Nothing *)
(* is locked: a thread can be interrupted, and interrupt the loop, between *)
(* any two of the steps below.  Notifications are in HAPEvents.            *)
(*                                                                         *)
(* The format is an integer.  A characteristic is plain, lenient           *)
(* (allow_invalid_client_values), null (its type is in ALWAYS_NULL) or has *)
(* a getter callback.                                                      *)
(***************************************************************************)
EXTENDS Integers, Sequences, FiniteSetsExt

CONSTANTS
  Threads,      \* threads of the application
  Loop,         \* the event loop
  Inputs,       \* numbers that are set, written or got
  Configs,      \* properties: min, max, step (0 for none), valid ({} for all)
  None,         \* JSON's null; no representation
  MaxCalls      \* bound: calls of set_value, client_update_value, override_properties

ValueAssumption ==
  /\ Loop \notin Threads
  /\ Inputs \subseteq Int
  /\ \A p \in Configs : /\ p \in [min : Int, max : Int, step : Nat, valid : SUBSET Int]
                        /\ p.min <= p.max
                        /\ p.valid \subseteq p.min .. p.max
  /\ None \notin Int \cup [min : Int, max : Int, step : Nat, valid : SUBSET Int]
  /\ MaxCalls \in Nat

VARIABLES
  kind,      \* what the characteristic is
  props,     \* _properties
  value,     \* _value
  cache,     \* _to_hap_cache ("plain") and _to_hap_cache_with_value ("full")
  todo,      \* what each actor has still to do of its call
  rep,       \* hap_rep, while the loop makes it
  raced,     \* the caches that were filled while a thread changed something
  mixed,     \* properties were overridden during another call
  raised,    \* a setter callback raised
  calls

vars == <<kind, props, value, cache, todo, rep, raced, mixed, raised, calls>>

Actors == Threads \cup {Loop}
Kinds == {"plain", "lenient", "null", "getter"}
Caches == {"plain", "full"}
NoRep == [props |-> None, val |-> None]

Properties == [min : Int, max : Int, step : Nat, valid : SUBSET Int]
Representations == [props : Properties \cup {None}, val : Int \cup {None}]

\* The steps of calls.
Instructions ==
  [do : {"store"}, val : Int \cup {None}]
  \cup [do : {"clear", "fill"}, of : Caches]
  \cup [do : {"properties", "valid_values"}, of : Configs]
  \cup [do : {"callback", "adjust", "check", "represent", "get"}]

\* Every variable has a value of its type.  Properties are those of one
\* configuration, with the valid values of another while they are overridden.
TypeOK ==
  /\ kind \in Kinds
  /\ \E p, q \in Configs : props = [p EXCEPT !.valid = q.valid]
  /\ value \in Int \cup {None}
  /\ cache \in [Caches -> Representations]
  /\ todo \in [Actors -> Seq(Instructions)]
  /\ rep \in Representations
  /\ raced \in [Caches \cup {"now"} -> BOOLEAN]
  /\ mixed \in BOOLEAN /\ raised \in BOOLEAN
  /\ calls \in 0 .. MaxCalls

----------------------------------------------------------------------------
(* Validation *)

\* Python's round(value / step) * step: halves go to the even multiple.
Rounded(step, v) ==
  LET below == v \div step
      rest == v % step
      up == 2 * rest > step \/ (2 * rest = step /\ below % 2 = 1)
  IN  step * (IF up THEN below + 1 ELSE below)

\* Mistake: the value is brought to a step after it is limited.
ToValidValueLate(p, v) ==
  LET limited == Max({p.min, Min({p.max, v})})
  IN  IF p.step = 0 THEN limited ELSE Rounded(p.step, limited)

\* to_valid_value
ToValidValue(p, v) ==
  LET stepped == IF v = 0 \/ p.step = 0 THEN v ELSE Rounded(p.step, v)
  IN  Max({p.min, Min({p.max, stepped})})

\* valid_value_or_raise does not raise.
Allowed(p, v) == kind = "null" \/ p.valid = {} \/ v \in p.valid

\* _get_default_value
DefaultValue(p) ==
  IF kind = "null" THEN None
  ELSE IF p.valid # {} THEN Min(p.valid)
  ELSE ToValidValue(p, 0)

----------------------------------------------------------------------------
(* Calls, as the steps they take. *)

Store(v) == <<[do |-> "store", val |-> v]>>
Clear == <<[do |-> "clear", of |-> "plain"], [do |-> "clear", of |-> "full"]>>

\* Mistake: the caches are cleared before the value is there.
AssignLate(v) == Clear \o Store(v)

\* The setter of the property value.
Assign(v) == Store(v) \o Clear

\* What ends a call for a type in ALWAYS_NULL.
ResetIfNull == IF kind = "null" THEN Assign(None) ELSE <<>>

Begin(a, steps) ==
  /\ calls < MaxCalls /\ calls' = calls + 1
  /\ todo' = [todo EXCEPT ![a] = steps]

Unchanged == UNCHANGED <<kind, props, value, cache, rep, raced, mixed, raised>>

\* set_value: an invalid value is refused before anything changes.
SetValue(a, v) ==
  /\ todo[a] = <<>>
  /\ Allowed(props, ToValidValue(props, v))
  /\ Begin(a, Assign(ToValidValue(props, v)) \o ResetIfNull)
  /\ Unchanged

\* client_update_value, up to the setter callback.
ClientUpdateValue(v) ==
  /\ todo[Loop] = <<>>
  /\ v = None => kind = "null"
  /\ LET valid == IF v = None THEN None ELSE ToValidValue(props, v)
     IN  /\ kind = "lenient" \/ Allowed(props, valid)
         /\ Begin(Loop, Assign(valid) \o <<[do |-> "callback"]>> \o ResetIfNull)
  /\ Unchanged

\* override_properties: the caches are cleared first, and again with the value.
OverrideProperties(a, p) ==
  /\ todo[a] = <<>>
  /\ p # props
  /\ Begin(a, Clear \o <<[do |-> "properties", of |-> p], [do |-> "valid_values", of |-> p],
                         [do |-> "adjust"]>>)
  /\ Unchanged

\* to_HAP: a cached representation is returned, unless there is a getter for
\* its value.
ToHAP(which) ==
  /\ todo[Loop] = <<>>
  /\ cache[which] = NoRep \/ (which = "full" /\ kind = "getter")
  /\ todo' = [todo EXCEPT ![Loop] =
                <<[do |-> "represent"]>>
                \o (IF which = "full" THEN <<[do |-> "get"]>> ELSE <<>>)
                \o <<[do |-> "fill", of |-> which]>>]
  /\ UNCHANGED <<calls>> /\ Unchanged

\* get_value for GET /characteristics.
GetValue(v) ==
  /\ todo[Loop] = <<>> /\ kind = "getter"
  /\ Begin(Loop, Assign(ToValidValue(props, v)))
  /\ Unchanged

----------------------------------------------------------------------------
(* Steps *)

Step(a, do) == todo[a] # <<>> /\ todo[a][1].do = do

Rest(a) == [todo EXCEPT ![a] = Tail(@)]

\* A change that happens while the loop makes a representation.
Races(a) ==
  IF a # Loop /\ rep # NoRep THEN raced' = [raced EXCEPT !["now"] = TRUE] ELSE UNCHANGED raced

StoreValue(a) ==
  /\ Step(a, "store")
  /\ value' = todo[a][1].val
  /\ todo' = Rest(a) /\ Races(a)
  /\ UNCHANGED <<kind, props, cache, rep, mixed, raised, calls>>

ClearCache(a) ==
  /\ Step(a, "clear")
  /\ cache' = [cache EXCEPT ![todo[a][1].of] = NoRep]
  /\ todo' = Rest(a)
  /\ UNCHANGED <<kind, props, value, rep, raced, mixed, raised, calls>>

Overrides(a, p) ==
  /\ props' = p
  /\ mixed' = (mixed \/ \E b \in Actors \ {a} : todo[b] # <<>>)
  /\ todo' = Rest(a) /\ Races(a)
  /\ UNCHANGED <<kind, value, cache, rep, raised, calls>>

UpdateProperties(a) ==
  /\ Step(a, "properties")
  /\ LET p == todo[a][1].of
     IN  Overrides(a, [props EXCEPT !.min = p.min, !.max = p.max, !.step = p.step])

UpdateValidValues(a) ==
  /\ Step(a, "valid_values")
  /\ Overrides(a, [props EXCEPT !.valid = todo[a][1].of.valid])

\* Mistake: only a value that is not valid is adjusted.
AdjustIfNeeded(a) ==
  /\ Step(a, "adjust")
  /\ todo' = [todo EXCEPT ![a] = IF value # None /\ ToValidValue(props, value) = value THEN <<>>
                                 ELSE IF kind = "null" THEN Assign(None)
                                 ELSE Assign(ToValidValue(props, value)) \o <<[do |-> "check"]>>]
  /\ UNCHANGED calls /\ Unchanged

\* The rest of override_properties.
Adjust(a) ==
  /\ Step(a, "adjust")
  /\ todo' = [todo EXCEPT ![a] = IF kind = "null" THEN Assign(None)
                                 ELSE Assign(ToValidValue(props, value)) \o <<[do |-> "check"]>>]
  /\ UNCHANGED calls /\ Unchanged

CheckAdjusted(a) ==
  /\ Step(a, "check")
  /\ todo' = [todo EXCEPT ![a] = IF Allowed(props, value) THEN <<>>
                                 ELSE Assign(DefaultValue(props))]
  /\ UNCHANGED calls /\ Unchanged

\* The setter callback returns, or sets a value of its own, or raises: the
\* call ends there.
CallbackReturns ==
  /\ Step(Loop, "callback")
  /\ todo' = Rest(Loop)
  /\ UNCHANGED calls /\ Unchanged

CallbackSets(v) ==
  /\ Step(Loop, "callback")
  /\ LET valid == ToValidValue(props, v)
     IN  Allowed(props, valid) /\ Begin(Loop, Assign(valid) \o ResetIfNull \o ResetIfNull)
  /\ Unchanged

CallbackRaises ==
  /\ Step(Loop, "callback")
  /\ todo' = [todo EXCEPT ![Loop] = <<>>]
  /\ raised' = TRUE
  /\ UNCHANGED <<kind, props, value, cache, rep, raced, mixed, calls>>

\* to_HAP goes on.
Represent ==
  /\ Step(Loop, "represent")
  /\ rep' = [props |-> props, val |-> None]
  /\ raced' = [raced EXCEPT !["now"] = FALSE]
  /\ todo' = Rest(Loop)
  /\ UNCHANGED <<kind, props, value, cache, mixed, raised, calls>>

ReadValue ==
  /\ Step(Loop, "get") /\ kind # "getter"
  /\ rep' = [rep EXCEPT !.val = value]
  /\ todo' = Rest(Loop)
  /\ UNCHANGED <<kind, props, value, cache, raced, mixed, raised, calls>>

\* The getter's answer becomes the value; nothing is cached.
ReadThroughGetter(v) ==
  /\ Step(Loop, "get") /\ kind = "getter"
  /\ rep' = NoRep
  /\ todo' = [todo EXCEPT ![Loop] = Assign(ToValidValue(props, v))]
  /\ UNCHANGED <<kind, props, value, cache, raced, mixed, raised, calls>>

Fill ==
  /\ Step(Loop, "fill")
  /\ LET which == todo[Loop][1].of
     IN  /\ cache' = [cache EXCEPT ![which] = rep]
         /\ raced' = [raced EXCEPT ![which] = raced["now"], !["now"] = FALSE]
  /\ rep' = NoRep
  /\ todo' = Rest(Loop)
  /\ UNCHANGED <<kind, props, value, mixed, raised, calls>>

----------------------------------------------------------------------------
Init ==
  /\ kind \in Kinds
  /\ props \in Configs
  /\ value = DefaultValue(props)
  /\ cache = [c \in Caches |-> NoRep]
  /\ todo = [a \in Actors |-> <<>>]
  /\ rep = NoRep
  /\ raced = [c \in Caches \cup {"now"} |-> FALSE]
  /\ mixed = FALSE /\ raised = FALSE
  /\ calls = 0

Calls ==
  \/ \E a \in Actors : \/ \E v \in Inputs : SetValue(a, v)
                       \/ \E p \in Configs : OverrideProperties(a, p)
  \/ \E v \in Inputs \cup {None} : ClientUpdateValue(v)
  \/ \E which \in Caches : ToHAP(which)
  \/ \E v \in Inputs : GetValue(v)

Steps ==
  \/ \E a \in Actors : \/ StoreValue(a) \/ ClearCache(a)
                       \/ UpdateProperties(a) \/ UpdateValidValues(a)
                       \/ Adjust(a) \/ CheckAdjusted(a)
  \/ CallbackReturns \/ (\E v \in Inputs : CallbackSets(v)) \/ CallbackRaises
  \/ Represent \/ ReadValue \/ (\E v \in Inputs : ReadThroughGetter(v)) \/ Fill

Next == Calls \/ Steps

Spec == Init /\ [][Next]_vars

----------------------------------------------------------------------------
(* Properties *)

Quiet == \A a \in Actors : todo[a] = <<>>

Stale(c) ==
  /\ cache[c] # NoRep
  /\ cache[c].props # props \/ (c = "full" /\ cache[c].val # value)

(* Between calls, a cached representation has the value and the properties  *)
(* of the characteristic, in whatever order the loop and the threads set    *)
(* them.  The exception is one that to_HAP stored after a thread changed    *)
(* what it had read and cleared the caches (characteristic.py:345, :424):   *)
(* it is served until the next change.                                      *)
CacheIsCurrentUnlessRaced == Quiet => \A c \in Caches : Stale(c) => raced[c]

(* Between calls, the value is within the limits of the properties, and one *)
(* of the valid values unless a getter or the controller of a lenient       *)
(* characteristic chose it; whatever was set, written, got and overridden   *)
(* before, one call after the other (characteristic.py:280, :308).  A type  *)
(* in ALWAYS_NULL has no value, unless its setter callback raised.          *)
ValueIsAllowed ==
  Quiet /\ ~mixed =>
    IF kind = "null" THEN value = None \/ raised
    ELSE /\ value \in props.min .. props.max
         /\ kind = "plain" => Allowed(props, value)
=============================================================================
