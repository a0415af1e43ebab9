----------------------------- MODULE HAPEvents -----------------------------
(***************************************************************************)
(* Event notifications: how a new value of a characteristic reaches the    *)
(* controllers that subscribed to it (Characteristic.set_value and         *)
(* client_update_value, AccessoryDriver.publish, async_send_event and the  *)
(* topics, HAPServer.push_event, and the coalescing queue of               *)
(* HAPServerProtocol), while controllers subscribe, unsubscribe, write,    *)
(* and come and go.                                                        *)
(*                                                                         *)
(* Values change in the event loop (writes of controllers, and accessories *)
(* that live in the loop) and in threads of the application.  A callback   *)
(* of the loop is one step; a thread of the application can be interrupted *)
(* by the loop and by other threads between setting the value, reading it  *)
(* for the event, and handing the event to the loop.                       *)
(***************************************************************************)
EXTENDS Naturals, Sequences

CONSTANTS
  Chars,       \* characteristics, and so topics ("aid.iid")
  Immediate,   \* those whose type is in IMMEDIATE_NOTIFY (and not in ALWAYS_NULL)
  Peers,       \* peer addresses of controllers
  Writers,     \* the controllers that write values
  Leavers,     \* the controllers that unsubscribe from a topic
  Threads,     \* threads of the application that set values
  LoopChars,   \* characteristics the accessory sets in the event loop
  ThreadChars, \* characteristics the application's threads set
  Failing,     \* characteristics whose setter callback can raise
  Values,      \* the values of a characteristic
  Start,       \* the value each starts with
  None,        \* no event queued, nothing known, no sender
  MaxChanges   \* bound: changes of a value

ASSUME ConstantsAssumption ==
  /\ Immediate \subseteq Chars
  /\ Writers \subseteq Peers
  /\ Leavers \subseteq Peers
  /\ {LoopChars, ThreadChars, Failing} \subseteq SUBSET Chars
  /\ Start \in Values
  /\ None \notin Values \cup Peers \cup Chars
  /\ MaxChanges \in Nat

VARIABLES
  value,    \* Characteristic.value
  topics,   \* driver.topics; {} for a topic without entry
  phase,    \* the connection of each peer
  queue,    \* protocol._event_queue, by characteristic
  timer,    \* connections with an _event_timer
  soon,     \* connections with a _send_events callback in the loop
  calls,    \* async_send_event callbacks that threads put into the loop
  thread,   \* what each thread of the application is doing
  told,     \* what each controller that is subscribed takes the value to be
  stopped,  \* driver.aio_stop_event
  changes

vars == <<value, topics, phase, queue, timer, soon, calls, thread, told,
          stopped, changes>>
queueVars == <<queue, timer, soon>>

EmptyQueue  == [ch \in Chars |-> None]
Calls       == [char : Chars, val : Values]
Idle        == [pc |-> "idle", char |-> None, val |-> None]

Init ==
  /\ value = [ch \in Chars |-> Start]
  /\ topics = [ch \in Chars |-> {}]
  /\ phase = [p \in Peers |-> "closed"]
  /\ queue = [p \in Peers |-> EmptyQueue]
  /\ timer = {}
  /\ soon = {}
  /\ calls = <<>>
  /\ thread = [t \in Threads |-> Idle]
  /\ told = [p \in Peers |-> EmptyQueue]
  /\ stopped = FALSE
  /\ changes = 0

Open(p) == phase[p] = "open"
-----------------------------------------------------------------------------
(* Connections.  Each has a protocol object of its own, with a queue and a   *)
(* timer of its own; the model follows the object of a peer's last          *)
(* connection.  What an earlier one still holds is lost to everybody: its   *)
(* transport is gone.                                                       *)

ConnectionMade(p) ==
  /\ phase[p] = "closed"
  /\ ~stopped
  /\ phase' = [phase EXCEPT ![p] = "open"]
  /\ queue' = [queue EXCEPT ![p] = EmptyQueue]
  /\ timer' = timer \ {p}
  /\ soon' = soon \ {p}
  /\ UNCHANGED <<value, topics, calls, thread, told, stopped, changes>>

(* close(): idle for too long, undecryptable data, an HTTP error, or        *)
(* "Connection: close".  The connection leaves the server's dictionary; its *)
(* subscriptions stay until connection_lost.                                *)
Close(p) ==
  /\ Open(p)
  /\ phase' = [phase EXCEPT ![p] = "closing"]
  /\ UNCHANGED <<value, topics, queueVars, calls, thread, told, stopped, changes>>

(* Mistake: only one of the connection's subscriptions is discarded. *)
ConnectionLostOneTopic(p) ==
  /\ phase[p] # "closed"
  /\ phase' = [phase EXCEPT ![p] = "closed"]
  /\ LET mine == {ch \in Chars : p \in topics[ch]}
     IN  topics' = IF mine = {} THEN topics
                   ELSE [topics EXCEPT ![CHOOSE ch \in mine : TRUE] = @ \ {p}]
  /\ told' = [told EXCEPT ![p] = EmptyQueue]
  /\ UNCHANGED <<value, queueVars, calls, thread, stopped, changes>>

(* Also for a connection that was open, when the controller goes away.  The *)
(* queue and the timer stay: a timer that fires later finds no subscription *)
(* and clears the queue.                                                    *)
ConnectionLost(p) ==
  /\ phase[p] # "closed"
  /\ phase' = [phase EXCEPT ![p] = "closed"]
  /\ topics' = [ch \in Chars |-> topics[ch] \ {p}]
  /\ told' = [told EXCEPT ![p] = EmptyQueue]
  /\ UNCHANGED <<value, queueVars, calls, thread, stopped, changes>>

(* async_stop: no event is sent from now on, and the server closes its     *)
(* connections.                                                            *)
Stop ==
  /\ ~stopped
  /\ stopped' = TRUE
  /\ phase' = [p \in Peers |-> IF Open(p) THEN "closing" ELSE phase[p]]
  /\ UNCHANGED <<value, topics, queueVars, calls, thread, told, changes>>
-----------------------------------------------------------------------------
(* Requests of controllers that are about subscriptions and values. *)

Subscribe(p, ch) ==
  /\ Open(p)
  /\ topics' = [topics EXCEPT ![ch] = @ \cup {p}]
  /\ UNCHANGED <<value, phase, queueVars, calls, thread, told, stopped, changes>>

Unsubscribe(p, ch) ==
  /\ Open(p)
  /\ p \in Leavers
  /\ topics' = [topics EXCEPT ![ch] = @ \ {p}]
  /\ told' = [told EXCEPT ![p][ch] = None]
  /\ UNCHANGED <<value, phase, queueVars, calls, thread, stopped, changes>>

(* What a controller reads is of interest here while it is subscribed. *)
Read(p, ch) ==
  /\ Open(p)
  /\ p \in topics[ch]
  /\ told' = [told EXCEPT ![p][ch] = value[ch]]
  /\ UNCHANGED <<value, topics, phase, queueVars, calls, thread, stopped, changes>>
-----------------------------------------------------------------------------
(* Mistake: the event that is queued already is kept. *)
QueueEventOnce(reached, ch, v) ==
  /\ queue' = [p \in Peers |-> IF p \in reached /\ queue[p][ch] = None
                                THEN [queue[p] EXCEPT ![ch] = v] ELSE queue[p]]
  /\ IF ch \in Immediate
     THEN soon' = soon \cup reached /\ UNCHANGED timer
     ELSE timer' = timer \cup reached /\ UNCHANGED soon

(* Mistake: the event is queued behind the one of the same characteristic. *)
QueueEventBehind(reached, ch, v) ==
  /\ queue' = [p \in Peers |-> IF p \in reached
                                THEN [queue[p] EXCEPT ![ch] = <<@, v>>] ELSE queue[p]]
  /\ IF ch \in Immediate
     THEN soon' = soon \cup reached /\ UNCHANGED timer
     ELSE timer' = timer \cup reached /\ UNCHANGED soon

(* async_send_event: the event goes to the queue of every subscriber but    *)
(* the sender, where it replaces an event of the same characteristic.  A    *)
(* subscriber without a connection in the server's dictionary is            *)
(* unsubscribed.                                                            *)
QueueEvent(reached, ch, v) ==
  /\ queue' = [p \in Peers |-> IF p \in reached THEN [queue[p] EXCEPT ![ch] = v]
                                                ELSE queue[p]]
  /\ IF ch \in Immediate
     THEN soon' = soon \cup reached /\ UNCHANGED timer
     ELSE timer' = timer \cup reached /\ UNCHANGED soon

AsyncSendEvent(ch, v, sender) ==
  IF stopped THEN UNCHANGED <<topics, queueVars>>
  ELSE LET receivers == topics[ch] \ {sender}
           reached   == {p \in receivers : Open(p)}
       IN  /\ QueueEvent(reached, ch, v)
           /\ topics' = [topics EXCEPT ![ch] = @ \ (receivers \ reached)]

(* A new value set in the event loop: notify publishes at once. *)
Update(ch, v, sender) ==
  /\ changes < MaxChanges
  /\ v # value[ch]
  /\ changes' = changes + 1
  /\ value' = [value EXCEPT ![ch] = v]
  /\ AsyncSendEvent(ch, v, sender)
  /\ UNCHANGED <<phase, calls, thread, stopped>>

(* The writer knows what it wrote; it is not told. *)
ClientUpdateValue(p, ch, v) ==
  /\ Open(p)
  /\ p \in Writers
  /\ Update(ch, v, p)
  /\ told' = IF p \in topics[ch] THEN [told EXCEPT ![p][ch] = v] ELSE told

(* The setter callback raises: the value has been set by then, nobody is    *)
(* told, and the writer gets an error.                                      *)
ClientUpdateFails(p, ch, v) ==
  /\ ch \in Failing
  /\ Open(p)
  /\ p \in Writers
  /\ changes < MaxChanges
  /\ v # value[ch]
  /\ changes' = changes + 1
  /\ value' = [value EXCEPT ![ch] = v]
  /\ UNCHANGED <<topics, phase, queueVars, calls, thread, told, stopped>>

SetValueInLoop(ch, v) ==
  /\ ch \in LoopChars
  /\ Update(ch, v, None)
  /\ UNCHANGED told
-----------------------------------------------------------------------------
(* set_value in a thread of the application. *)

ThreadStep == UNCHANGED <<topics, phase, queueVars, told, stopped>>

SetValue(t, ch, v) ==
  /\ thread[t].pc = "idle"
  /\ ch \in ThreadChars
  /\ changes < MaxChanges
  /\ v # value[ch]
  /\ changes' = changes + 1
  /\ value' = [value EXCEPT ![ch] = v]
  /\ thread' = [thread EXCEPT ![t] = [pc |-> "notify", char |-> ch, val |-> None]]
  /\ UNCHANGED calls
  /\ ThreadStep

(* notify takes the value the characteristic has by now. *)
Notify(t) ==
  /\ thread[t].pc = "notify"
  /\ thread' = [thread EXCEPT ![t].pc = "publish", ![t].val = value[thread[t].char]]
  /\ UNCHANGED <<value, calls, changes>>
  /\ ThreadStep

(* publish drops the event when the topic has no entry, and calls           *)
(* async_send_event through call_soon_threadsafe otherwise.                 *)
Publish(t) ==
  /\ thread[t].pc = "publish"
  /\ calls' = IF topics[thread[t].char] = {} THEN calls
              ELSE Append(calls, [char |-> thread[t].char, val |-> thread[t].val])
  /\ thread' = [thread EXCEPT ![t] = Idle]
  /\ UNCHANGED <<value, changes>>
  /\ ThreadStep

RunCall ==
  /\ calls # <<>>
  /\ AsyncSendEvent(Head(calls).char, Head(calls).val, None)
  /\ calls' = Tail(calls)
  /\ UNCHANGED <<value, phase, thread, told, stopped, changes>>
-----------------------------------------------------------------------------
(* _send_events: what is queued and still subscribed is written.  Writing   *)
(* to a connection that is closing raises, with the queue as it was.        *)

(* Mistake: everything that is queued is sent. *)
Queued(p) == {ch \in Chars : queue[p][ch] # None}

Active(p) == {ch \in Chars : queue[p][ch] # None /\ p \in topics[ch]}

(* Mistake: an immediate event is sent alone; the timer that was to send    *)
(* the others is cancelled with it.                                         *)
SendImmediate(p) ==
  /\ timer' = timer \ {p}
  /\ LET first == {ch \in Active(p) : ch \in Immediate \/ p \notin soon}
     IN  IF Open(p) \/ Active(p) = {}
         THEN /\ told' = [told EXCEPT ![p] = [ch \in Chars |->
                            IF ch \in first THEN queue[p][ch] ELSE told[p][ch]]]
              /\ queue' = [queue EXCEPT ![p] = [ch \in Chars |->
                             IF ch \in Active(p) \ first THEN queue[p][ch] ELSE None]]
         ELSE UNCHANGED <<told, queue>>
  /\ UNCHANGED <<value, topics, phase, calls, thread, stopped, changes>>

SendEvents(p) ==
  /\ timer' = timer \ {p}
  /\ IF Open(p) \/ Active(p) = {}
     THEN /\ told' = [told EXCEPT ![p] = [ch \in Chars |->
                        IF ch \in Active(p) THEN queue[p][ch] ELSE told[p][ch]]]
          /\ queue' = [queue EXCEPT ![p] = EmptyQueue]
     ELSE UNCHANGED <<told, queue>>
  /\ UNCHANGED <<value, topics, phase, calls, thread, stopped, changes>>

TimerFires(p)  == p \in timer /\ SendEvents(p) /\ UNCHANGED soon
SendSoon(p)    == p \in soon /\ SendEvents(p) /\ soon' = soon \ {p}
-----------------------------------------------------------------------------
Connection(p) == ConnectionMade(p) \/ Close(p) \/ ConnectionLost(p)

Controller(p) ==
  \E ch \in Chars : \/ Subscribe(p, ch) \/ Unsubscribe(p, ch) \/ Read(p, ch)
                    \/ \E v \in Values : ClientUpdateValue(p, ch, v) \/ ClientUpdateFails(p, ch, v)

Application(t) ==
  \/ \E ch \in Chars, v \in Values : SetValue(t, ch, v)
  \/ Notify(t) \/ Publish(t)

Next ==
  \/ \E p \in Peers : Connection(p) \/ Controller(p) \/ TimerFires(p) \/ SendSoon(p)
  \/ \E t \in Threads : Application(t)
  \/ \E ch \in Chars, v \in Values : SetValueInLoop(ch, v)
  \/ RunCall
  \/ Stop

Spec == Init /\ [][Next]_vars

(* Timers fire, the loop runs its callbacks, and a closed transport ends in *)
(* connection_lost.                                                         *)
FairSpec ==
  /\ Spec
  /\ \A p \in Peers : /\ WF_vars(TimerFires(p))
                      /\ WF_vars(SendSoon(p))
                      /\ WF_vars(phase[p] = "closing" /\ ConnectionLost(p))
  /\ WF_vars(RunCall)
  /\ \A t \in Threads : WF_vars(Notify(t) \/ Publish(t))
-----------------------------------------------------------------------------
TypeOK ==
  /\ value \in [Chars -> Values]
  /\ topics \in [Chars -> SUBSET Peers]
  /\ phase \in [Peers -> {"closed", "open", "closing"}]
  /\ queue \in [Peers -> [Chars -> Values \cup {None}]]
  /\ timer \subseteq Peers
  /\ soon \subseteq Peers
  /\ calls \in Seq(Calls)
  /\ thread \in [Threads -> [ pc : {"idle", "notify", "publish"},
                              char : Chars \cup {None}, val : Values \cup {None} ]]
  /\ told \in [Peers -> [Chars -> Values \cup {None}]]
  /\ stopped \in BOOLEAN
  /\ changes \in Nat

(* A subscription belongs to a connection: a controller that comes back     *)
(* from the same address does not find itself subscribed.                   *)
NoSubscriptionOutlivesConnection ==
  \A ch \in Chars : \A p \in topics[ch] : phase[p] # "closed"

(* Whatever mixture of immediate and delayed events filled the queue of an  *)
(* open connection, something is going to send it.                          *)
NoEventIsStuck ==
  \A p \in Peers : Open(p) /\ queue[p] # EmptyQueue => p \in timer \cup soon

(* hap_protocol.py:235: topics that were unsubscribed after the event was   *)
(* generated are removed: a controller learns nothing about a               *)
(* characteristic it is not subscribed to, whatever is still queued.        *)
UnsubscribedHearsNothing ==
  \A p \in Peers, ch \in Chars :
    Open(p) /\ told[p][ch] # None => p \in topics[ch]

(* Nothing on its way: no event queued or being published. *)
Quiet ==
  /\ calls = <<>>
  /\ \A t \in Threads : thread[t].pc = "idle"
  /\ \A p \in Peers : Open(p) => queue[p] = EmptyQueue

(* Those that only observe, and are connected. *)
Observers == {p \in Peers \ (Writers \cup Leavers) : Open(p)}

UpToDate(p, ch) == told[p][ch] \in {None, value[ch]}

(* When nothing is on its way, no observer is left with a value from        *)
(* before, of a characteristic that no thread sets and whose setter does    *)
(* not raise, however writes, values set in the loop, coalescing and        *)
(* subscriptions mix.  (client_update_value keeps the value of a setter     *)
(* that raised and tells nobody.)                                           *)
ObserversConverge ==
  Quiet /\ ~stopped =>
    \A p \in Observers, ch \in Chars \ (ThreadChars \cup Failing) : UpToDate(p, ch)

(* A queued event does not stay queued while its connection lasts.  (A      *)
(* write to a connection that is closing raises, its timer is cancelled and *)
(* the queue stays: the connection must then be lost.)                      *)
QueuesDrain ==
  \A p \in Peers :
    (queue[p] # EmptyQueue) ~> (queue[p] = EmptyQueue \/ phase[p] = "closed")
=============================================================================
