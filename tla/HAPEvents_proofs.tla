-------------------------- MODULE HAPEvents_proofs --------------------------
(***************************************************************************)
(* What HAPEvents guarantees for any number of characteristics,            *)
(* controllers and threads: subscriptions end with their connection,       *)
(* queued events have somebody who sends them, nobody hears of what it is  *)
(* not subscribed to, and observers end up with the last value.            *)
(***************************************************************************)
EXTENDS HAPEvents, TLAPS

(* A thread that is to publish knows what. *)
ThreadsKnow ==
  \A t \in Threads :
    /\ thread[t].pc # "idle" => thread[t].char \in Chars
    /\ thread[t].pc = "publish" => thread[t].val \in Values

(* A controller whose connection was lost is told anew when it connects     *)
(* again: what UnsubscribedHearsNothing needs then.                         *)
ClosedForgets ==
  \A p \in Peers : phase[p] = "closed" => told[p] = EmptyQueue

EInv ==
  /\ TypeOK
  /\ ThreadsKnow
  /\ ClosedForgets
  /\ NoSubscriptionOutlivesConnection
  /\ NoEventIsStuck
  /\ UnsubscribedHearsNothing

-----------------------------------------------------------------------------
(* What a queue holds, and what a controller was told: a value or None. *)
Entries == [Chars -> Values \cup {None}]

(* A controller is told one value. *)
LEMMA TellTyped ==
  ASSUME NEW f \in [Peers -> Entries], NEW p \in Peers, NEW ch \in Chars,
         NEW v \in Values \cup {None}, NEW g, g = [f EXCEPT ![p][ch] = v]
  PROVE  /\ g \in [Peers -> Entries]
         /\ g[p][ch] = v
         /\ \A r \in Peers, c \in Chars : (r # p \/ c # ch) => g[r][c] = f[r][c]
<1>1. f[p] \in Entries
  OBVIOUS
<1>2. /\ [f[p] EXCEPT ![ch] = v] \in Entries
      /\ \A c \in Chars : [f[p] EXCEPT ![ch] = v][c] = IF c = ch THEN v ELSE f[p][c]
  BY <1>1 DEF Entries
<1>3. [f EXCEPT ![p][ch] = v] = [f EXCEPT ![p] = [f[p] EXCEPT ![ch] = v]]
  OBVIOUS
<1>4. QED
  BY <1>2, <1>3

(* The initial state satisfies the invariant. *)
LEMMA InitEInv == Init => EInv
<1> SUFFICES ASSUME Init PROVE EInv
  OBVIOUS
<1>1. TypeOK
  <2>1. Idle \in [ pc : {"idle", "notify", "publish"},
                   char : Chars \cup {None}, val : Values \cup {None} ]
    BY DEF Idle
  <2>2. EmptyQueue \in Entries
    BY DEF EmptyQueue, Entries
  <2>3. calls \in Seq(Calls)
    BY DEF Init
  <2>4. /\ thread \in [Threads -> [ pc : {"idle", "notify", "publish"},
                                    char : Chars \cup {None}, val : Values \cup {None} ]]
        /\ queue \in [Peers -> Entries] /\ told \in [Peers -> Entries]
    BY <2>1, <2>2 DEF Init
  <2>5. QED
    BY <2>3, <2>4, ConstantsAssumption DEF Init, TypeOK, Entries
<1>2. ThreadsKnow /\ ClosedForgets /\ NoSubscriptionOutlivesConnection
  BY DEF Init, ThreadsKnow, ClosedForgets, NoSubscriptionOutlivesConnection, Idle
<1>3. NoEventIsStuck /\ UnsubscribedHearsNothing
  BY DEF Init, NoEventIsStuck, UnsubscribedHearsNothing, Open
<1>4. QED
  BY <1>1, <1>2, <1>3 DEF EInv

(* What sending an event to the subscribers of a topic does, whoever sends  *)
(* it: only open connections get it, each with something armed to send it.  *)
LEMMA AsyncSendEventKeeps ==
  ASSUME EInv, NEW ch \in Chars, NEW v \in Values, NEW sender \in Peers \cup {None},
         AsyncSendEvent(ch, v, sender), UNCHANGED phase
  PROVE  /\ topics' \in [Chars -> SUBSET Peers]
         /\ queue' \in [Peers -> [Chars -> Values \cup {None}]]
         /\ timer' \subseteq Peers /\ soon' \subseteq Peers
         /\ \A c \in Chars : topics'[c] \subseteq topics[c]
         /\ \A p \in Peers, c \in Chars : Open(p) /\ p \in topics[c] => p \in topics'[c]
         /\ NoEventIsStuck'
<1> USE DEF EInv, TypeOK
<1>1. CASE stopped
  BY <1>1 DEF AsyncSendEvent, queueVars, NoEventIsStuck, Open
<1>2. CASE ~stopped
  <2> DEFINE receivers == topics[ch] \ {sender}
             reached   == {p \in receivers : Open(p)}
  <2>1. /\ QueueEvent(reached, ch, v)
        /\ topics' = [topics EXCEPT ![ch] = @ \ (receivers \ reached)]
    BY <1>2 DEF AsyncSendEvent
  <2>2. reached \subseteq Peers /\ \A p \in reached : Open(p)
    OBVIOUS
  <2>3. /\ topics' \in [Chars -> SUBSET Peers]
        /\ \A c \in Chars : topics'[c] \subseteq topics[c]
        /\ \A p \in Peers, c \in Chars : Open(p) /\ p \in topics[c] => p \in topics'[c]
    BY <2>1
  <2> HIDE DEF reached, receivers
  <2>4. queue' \in [Peers -> [Chars -> Values \cup {None}]]
    BY <2>1 DEF QueueEvent
  <2>5. /\ timer \subseteq timer' /\ soon \subseteq soon' /\ reached \subseteq timer' \cup soon'
        /\ timer' \subseteq Peers /\ soon' \subseteq Peers
    BY <2>1, <2>2 DEF QueueEvent
  <2>6. \A p \in Peers \ reached : queue'[p] = queue[p]
    BY <2>1 DEF QueueEvent
  <2>7. NoEventIsStuck'
    BY <2>5, <2>6 DEF NoEventIsStuck, Open
  <2>8. QED
    BY <2>2, <2>3, <2>4, <2>5, <2>6, <2>7 DEF Open
<1>3. QED
  BY <1>1, <1>2

(* Sending what is queued: the queue is empty afterwards, or as it was on a *)
(* connection that is not open any more; only what is subscribed is told.   *)
LEMMA SendEventsKeeps ==
  ASSUME EInv, NEW p \in Peers, SendEvents(p),
         soon' = soon \/ soon' = soon \ {p}
  PROVE  EInv'
<1> USE DEF EInv
<1>1. told' \in [Peers -> [Chars -> Values \cup {None}]]
  <2> DEFINE new == [ch \in Chars |-> IF ch \in Active(p) THEN queue[p][ch] ELSE told[p][ch]]
  <2>1. queue[p] \in [Chars -> Values \cup {None}] /\ told[p] \in [Chars -> Values \cup {None}]
    BY DEF TypeOK
  <2>2. new \in [Chars -> Values \cup {None}]
    BY <2>1
  <2>3. told \in [Peers -> [Chars -> Values \cup {None}]]
    BY DEF TypeOK
  <2>4. told' = [told EXCEPT ![p] = new] \/ told' = told
    BY DEF SendEvents
  <2> HIDE DEF new
  <2>5. QED
    BY <2>2, <2>3, <2>4
<1>2. queue' \in [Peers -> [Chars -> Values \cup {None}]]
  BY DEF SendEvents, TypeOK, EmptyQueue
<1>3. TypeOK' /\ ThreadsKnow' /\ NoSubscriptionOutlivesConnection'
  BY <1>1, <1>2 DEF SendEvents, TypeOK, ThreadsKnow, NoSubscriptionOutlivesConnection
<1>4. \A r \in Peers : r # p => queue'[r] = queue[r] /\ told'[r] = told[r]
  BY DEF SendEvents, TypeOK
<1>5. Open(p) => queue'[p] = EmptyQueue
  BY DEF SendEvents, TypeOK
<1>6. NoEventIsStuck'
  BY <1>4, <1>5 DEF NoEventIsStuck, Open, SendEvents
<1>7. \A ch \in Chars : told'[p][ch] = told[p][ch] \/ p \in topics[ch]
  BY DEF SendEvents, TypeOK, Active
<1>8. UnsubscribedHearsNothing'
  BY <1>4, <1>7 DEF UnsubscribedHearsNothing, Open, SendEvents
<1>9. ASSUME phase[p] = "closed"
      PROVE  told'[p] = EmptyQueue
  <2>1. told[p] = EmptyQueue
    BY <1>9 DEF ClosedForgets
  <2>2. Active(p) = {}
    BY <1>9 DEF Active, NoSubscriptionOutlivesConnection
  <2>3. QED
    BY <2>1, <2>2 DEF SendEvents, TypeOK, EmptyQueue
<1>10. ClosedForgets'
  BY <1>4, <1>9 DEF ClosedForgets, SendEvents
<1>11. QED
  BY <1>3, <1>6, <1>8, <1>10

(* A new value set in the loop. *)
LEMMA UpdateKeeps ==
  ASSUME EInv, NEW ch \in Chars, NEW v \in Values, NEW sender \in Peers \cup {None},
         Update(ch, v, sender),
         \/ UNCHANGED told
         \/ \E p \in Peers : Open(p) /\ p \in topics[ch] /\ told' = [told EXCEPT ![p][ch] = v]
  PROVE  EInv'
<1> USE DEF EInv
<1>1. /\ topics' \in [Chars -> SUBSET Peers]
      /\ queue' \in [Peers -> [Chars -> Values \cup {None}]]
      /\ timer' \subseteq Peers /\ soon' \subseteq Peers
      /\ \A c \in Chars : topics'[c] \subseteq topics[c]
      /\ \A p \in Peers, c \in Chars : Open(p) /\ p \in topics[c] => p \in topics'[c]
      /\ NoEventIsStuck'
  BY AsyncSendEventKeeps DEF Update
<1>2. told' \in [Peers -> Entries]
  <2>1. told \in [Peers -> Entries]
    BY DEF TypeOK, Entries
  <2>2. CASE UNCHANGED told
    BY <2>1, <2>2
  <2>3. ASSUME NEW p \in Peers, told' = [told EXCEPT ![p][ch] = v]
        PROVE  told' \in [Peers -> Entries]
    BY <2>1, <2>3, TellTyped
  <2>4. QED
    BY <2>2, <2>3
<1>3. TypeOK' /\ ThreadsKnow' /\ NoSubscriptionOutlivesConnection'
  <2>1. value' \in [Chars -> Values] /\ changes' \in Nat
    BY DEF Update, TypeOK
  <2>2. UNCHANGED <<phase, calls, thread, stopped>>
    BY DEF Update
  <2>3. TypeOK'
    BY <1>1, <1>2, <2>1, <2>2 DEF TypeOK, Entries
  <2>4. QED
    BY <1>1, <2>2, <2>3 DEF ThreadsKnow, NoSubscriptionOutlivesConnection, TypeOK
<1>4. \A p \in Peers, c \in Chars :
        told'[p][c] = told[p][c] \/ (Open(p) /\ p \in topics[c])
  <2>1. told \in [Peers -> Entries]
    BY DEF TypeOK, Entries
  <2>2. ASSUME NEW q \in Peers, Open(q), q \in topics[ch], told' = [told EXCEPT ![q][ch] = v]
        PROVE  \A p \in Peers, c \in Chars :
                 told'[p][c] = told[p][c] \/ (Open(p) /\ p \in topics[c])
    BY <2>1, <2>2, TellTyped
  <2>3. QED
    BY <2>2
<1>5. UnsubscribedHearsNothing'
  BY <1>1, <1>4 DEF UnsubscribedHearsNothing, Open, Update
<1>6. \A p \in Peers : phase[p] = "closed" => told'[p] = told[p]
  BY DEF TypeOK, Open
<1>7. ClosedForgets'
  BY <1>1, <1>6 DEF ClosedForgets, Update
<1>8. QED
  BY <1>1, <1>3, <1>5, <1>7

(* What the controllers' requests about subscriptions do. *)
LEMMA ControllerKeeps ==
  ASSUME EInv, NEW p \in Peers, NEW ch \in Chars,
         Subscribe(p, ch) \/ Unsubscribe(p, ch) \/ Read(p, ch)
  PROVE  EInv'
<1> USE DEF EInv
<1>1. CASE Subscribe(p, ch)
  <2>1. TypeOK' /\ ThreadsKnow' /\ ClosedForgets'
    BY <1>1 DEF Subscribe, queueVars, TypeOK, ThreadsKnow, ClosedForgets
  <2>2. QED
    BY <1>1, <2>1 DEF Subscribe, queueVars, TypeOK, NoSubscriptionOutlivesConnection,
                      NoEventIsStuck, UnsubscribedHearsNothing, Open
<1>2. ASSUME NEW v \in Values \cup {None}, Open(p),
             told' = [told EXCEPT ![p][ch] = v],
             UNCHANGED <<value, phase, queueVars, calls, thread, stopped, changes>>,
             \/ v = None /\ topics' = [topics EXCEPT ![ch] = @ \ {p}]
             \/ p \in topics[ch] /\ UNCHANGED topics
      PROVE  EInv'
  <2>1. told \in [Peers -> Entries] /\ told' = [told EXCEPT ![p][ch] = v]
    BY <1>2 DEF TypeOK, Entries
  <2>2. /\ told' \in [Peers -> Entries]
        /\ told'[p][ch] = v
        /\ \A r \in Peers, c \in Chars : (r # p \/ c # ch) => told'[r][c] = told[r][c]
    <3>1. told[p] \in Entries
      BY <2>1
    <3>2. told'[p] = [told[p] EXCEPT ![ch] = v] /\ \A r \in Peers \ {p} : told'[r] = told[r]
      BY <2>1
    <3>3. /\ told'[p] \in Entries /\ told'[p][ch] = v
          /\ \A c \in Chars \ {ch} : told'[p][c] = told[p][c]
      BY <3>1, <3>2 DEF Entries
    <3>4. told' = [r \in Peers |-> told'[r]]
      BY <2>1
    <3>5. QED
      BY <2>1, <3>2, <3>3, <3>4
  <2>3. TypeOK' /\ ThreadsKnow'
    BY <1>2, <2>2 DEF queueVars, TypeOK, ThreadsKnow, Entries
  <2>4. ClosedForgets'
    BY <1>2, <2>1 DEF ClosedForgets, queueVars, Open, Entries
  <2>5. UnsubscribedHearsNothing'
    BY <1>2, <2>2 DEF UnsubscribedHearsNothing, TypeOK, Open
  <2>6. NoSubscriptionOutlivesConnection' /\ NoEventIsStuck'
    BY <1>2 DEF NoSubscriptionOutlivesConnection, NoEventIsStuck, queueVars, TypeOK, Open
  <2>7. QED
    BY <2>3, <2>4, <2>5, <2>6
<1>3. CASE Unsubscribe(p, ch)
  BY <1>2, <1>3 DEF Unsubscribe
<1>4. CASE Read(p, ch)
  <2>1. value[ch] \in Values
    BY DEF TypeOK
  <2>2. QED
    BY <1>2, <1>4, <2>1 DEF Read
<1>5. QED
  BY <1>1, <1>3, <1>4

(* Connections that come, close and go, and the stop of the driver. *)
LEMMA ConnectionKeeps ==
  ASSUME EInv, Stop \/ \E p \in Peers : Connection(p)
  PROVE  EInv'
<1> USE DEF EInv
<1>1. ASSUME NEW p \in Peers, ConnectionMade(p) PROVE EInv'
  <2>1. EmptyQueue \in Entries
    BY DEF EmptyQueue, Entries
  <2>2. /\ queue' \in [Peers -> Entries] /\ queue'[p] = EmptyQueue
        /\ \A r \in Peers \ {p} : queue'[r] = queue[r]
    BY <1>1, <2>1 DEF ConnectionMade, TypeOK, Entries
  <2>3. TypeOK' /\ ThreadsKnow' /\ ClosedForgets'
    BY <1>1, <2>2 DEF ConnectionMade, TypeOK, Entries, ThreadsKnow, ClosedForgets
  <2>4. \A ch \in Chars : told[p][ch] = None
    BY <1>1 DEF ConnectionMade, ClosedForgets, EmptyQueue
  <2>5. NoEventIsStuck'
    BY <1>1, <2>2 DEF ConnectionMade, TypeOK, NoEventIsStuck, Open
  <2>6. QED
    BY <1>1, <2>3, <2>4, <2>5 DEF ConnectionMade, TypeOK,
         NoSubscriptionOutlivesConnection, UnsubscribedHearsNothing, Open
<1>2. ASSUME NEW p \in Peers, Close(p) PROVE EInv'
  <2>1. TypeOK' /\ ThreadsKnow' /\ ClosedForgets'
    BY <1>2 DEF Close, queueVars, TypeOK, ThreadsKnow, ClosedForgets
  <2>2. QED
    BY <1>2, <2>1 DEF Close, queueVars, TypeOK, NoEventIsStuck,
         NoSubscriptionOutlivesConnection, UnsubscribedHearsNothing, Open
<1>3. ASSUME NEW p \in Peers, ConnectionLost(p) PROVE EInv'
  <2>1. EmptyQueue \in Entries /\ \A ch \in Chars : EmptyQueue[ch] = None
    BY DEF EmptyQueue, Entries
  <2>2. /\ told' \in [Peers -> Entries] /\ told'[p] = EmptyQueue
        /\ \A r \in Peers \ {p} : told'[r] = told[r]
    BY <1>3, <2>1 DEF ConnectionLost, TypeOK, Entries
  <2>3. /\ phase' \in [Peers -> {"closed", "open", "closing"}]
        /\ topics' \in [Chars -> SUBSET Peers]
    BY <1>3 DEF ConnectionLost, TypeOK
  <2>4. TypeOK' /\ ThreadsKnow'
    BY <1>3, <2>2, <2>3 DEF ConnectionLost, queueVars, TypeOK, Entries, ThreadsKnow
  <2>5. ClosedForgets' /\ NoEventIsStuck'
    BY <1>3, <2>2 DEF ConnectionLost, queueVars, TypeOK, ClosedForgets, NoEventIsStuck, Open
  <2>6. NoSubscriptionOutlivesConnection'
    BY <1>3 DEF ConnectionLost, TypeOK, NoSubscriptionOutlivesConnection
  <2>7. UnsubscribedHearsNothing'
    BY <1>3, <2>2 DEF ConnectionLost, TypeOK, UnsubscribedHearsNothing, Open
  <2>8. QED
    BY <2>4, <2>5, <2>6, <2>7
<1>4. CASE Stop
  <2>1. phase' \in [Peers -> {"closed", "open", "closing"}]
    BY <1>4 DEF Stop, TypeOK
  <2>2. \A p \in Peers : ~Open(p)' /\ (phase'[p] = "closed" <=> phase[p] = "closed")
    BY <1>4 DEF Stop, Open
  <2>3. TypeOK' /\ ThreadsKnow' /\ ClosedForgets'
    BY <1>4, <2>1, <2>2 DEF Stop, queueVars, TypeOK, ThreadsKnow, ClosedForgets
  <2>4. QED
    BY <1>4, <2>2, <2>3 DEF Stop, TypeOK, NoEventIsStuck,
         NoSubscriptionOutlivesConnection, UnsubscribedHearsNothing
<1>5. QED
  BY <1>1, <1>2, <1>3, <1>4 DEF Connection

(* The threads of the application, up to handing the event to the loop. *)
LEMMA ApplicationKeeps ==
  ASSUME EInv, NEW t \in Threads, Application(t)
  PROVE  EInv'
<1> USE DEF EInv
<1> DEFINE Contexts == [ pc : {"idle", "notify", "publish"},
                         char : Chars \cup {None}, val : Values \cup {None} ]
<1>1. /\ ClosedForgets' /\ NoSubscriptionOutlivesConnection'
      /\ NoEventIsStuck' /\ UnsubscribedHearsNothing'
  BY DEF Application, SetValue, Notify, Publish, ThreadStep, queueVars, ClosedForgets,
         NoSubscriptionOutlivesConnection, NoEventIsStuck, UnsubscribedHearsNothing, Open
<1>2. ASSUME NEW new \in Contexts, thread' = [thread EXCEPT ![t] = new],
             new.pc # "idle" => new.char \in Chars,
             new.pc = "publish" => new.val \in Values
      PROVE  thread' \in [Threads -> Contexts] /\ ThreadsKnow'
  <2>1. thread \in [Threads -> Contexts]
    BY DEF TypeOK
  <2>2. \A u \in Threads : thread'[u] = IF u = t THEN new ELSE thread[u]
    BY <1>2, <2>1
  <2>3. QED
    BY <1>2, <2>1, <2>2 DEF ThreadsKnow
<1>3. ASSUME value' \in [Chars -> Values], calls' \in Seq(Calls), changes' \in Nat,
             thread' \in [Threads -> Contexts], ThreadStep
      PROVE  TypeOK'
  BY <1>3 DEF ThreadStep, queueVars, TypeOK
<1>4. ASSUME NEW ch \in Chars, NEW v \in Values, SetValue(t, ch, v) PROVE EInv'
  <2>1. [pc |-> "notify", char |-> ch, val |-> None] \in Contexts
    OBVIOUS
  <2>2. thread' \in [Threads -> Contexts] /\ ThreadsKnow'
    BY <1>2, <1>4, <2>1 DEF SetValue
  <2>3. value' \in [Chars -> Values] /\ changes' \in Nat /\ calls' \in Seq(Calls)
    BY <1>4 DEF SetValue, TypeOK
  <2>4. TypeOK'
    BY <1>3, <1>4, <2>2, <2>3 DEF SetValue
  <2>5. QED
    BY <1>1, <2>2, <2>4
<1>5. CASE Notify(t)
  <2> DEFINE new == [thread[t] EXCEPT !.pc = "publish", !.val = value[thread[t].char]]
  <2>1. thread[t] \in Contexts /\ thread[t].char \in Chars
    BY <1>5 DEF Notify, TypeOK, ThreadsKnow
  <2>2. value[thread[t].char] \in Values
    BY <2>1 DEF TypeOK
  <2>3. new \in Contexts /\ new.char \in Chars /\ new.val \in Values
    BY <2>1, <2>2
  <2>4. thread' = [thread EXCEPT ![t] = new]
    BY <1>5 DEF Notify, TypeOK
  <2>5. thread' \in [Threads -> Contexts] /\ ThreadsKnow'
    BY <1>2, <2>3, <2>4
  <2>6. TypeOK'
    BY <1>3, <1>5, <2>5 DEF Notify, TypeOK
  <2>7. QED
    BY <1>1, <2>5, <2>6
<1>6. CASE Publish(t)
  <2>1. Idle \in Contexts /\ Idle.pc = "idle"
    BY DEF Idle
  <2>2. thread' \in [Threads -> Contexts] /\ ThreadsKnow'
    BY <1>2, <1>6, <2>1 DEF Publish
  <2>3. [char |-> thread[t].char, val |-> thread[t].val] \in Calls
    BY <1>6 DEF Publish, ThreadsKnow, Calls
  <2>4. calls' \in Seq(Calls)
    BY <1>6, <2>3 DEF Publish, TypeOK
  <2>5. TypeOK'
    BY <1>3, <1>6, <2>2, <2>4 DEF Publish, TypeOK
  <2>6. QED
    BY <1>1, <2>2, <2>5
<1>7. QED
  BY <1>4, <1>5, <1>6 DEF Application

(* An event that a thread handed to the loop. *)
LEMMA RunCallKeeps ==
  ASSUME EInv, RunCall
  PROVE  EInv'
<1> USE DEF EInv
<1>1. Head(calls) \in Calls /\ calls' \in Seq(Calls)
  BY DEF RunCall, TypeOK
<1>2. Head(calls).char \in Chars /\ Head(calls).val \in Values
  BY <1>1 DEF Calls
<1>3. AsyncSendEvent(Head(calls).char, Head(calls).val, None) /\ UNCHANGED phase
  BY DEF RunCall
<1>4. /\ topics' \in [Chars -> SUBSET Peers]
      /\ queue' \in [Peers -> [Chars -> Values \cup {None}]]
      /\ timer' \subseteq Peers /\ soon' \subseteq Peers
      /\ \A c \in Chars : topics'[c] \subseteq topics[c]
      /\ \A p \in Peers, c \in Chars : Open(p) /\ p \in topics[c] => p \in topics'[c]
      /\ NoEventIsStuck'
  BY <1>2, <1>3, AsyncSendEventKeeps
<1>5. UNCHANGED <<value, phase, thread, told, stopped, changes>>
  BY DEF RunCall
<1>6. TypeOK' /\ ThreadsKnow'
  BY <1>1, <1>4, <1>5 DEF TypeOK, ThreadsKnow
<1>7. ClosedForgets' /\ NoSubscriptionOutlivesConnection'
  BY <1>4, <1>5 DEF ClosedForgets, NoSubscriptionOutlivesConnection, TypeOK
<1>8. UnsubscribedHearsNothing'
  BY <1>4, <1>5 DEF UnsubscribedHearsNothing, Open
<1>9. QED
  BY <1>4, <1>6, <1>7, <1>8

(* Every step keeps the invariant. *)
LEMMA NextEInv == EInv /\ [Next]_vars => EInv'
<1> SUFFICES ASSUME EInv, [Next]_vars PROVE EInv'
  OBVIOUS
<1>1. ASSUME NEW p \in Peers, Connection(p) PROVE EInv'
  BY <1>1, ConnectionKeeps
<1>2. CASE Stop
  BY <1>2, ConnectionKeeps
<1>3. ASSUME NEW p \in Peers, NEW ch \in Chars,
             Subscribe(p, ch) \/ Unsubscribe(p, ch) \/ Read(p, ch)
      PROVE  EInv'
  BY <1>3, ControllerKeeps
<1>4. ASSUME NEW p \in Peers, NEW ch \in Chars, NEW v \in Values, ClientUpdateValue(p, ch, v)
      PROVE  EInv'
  BY <1>4, UpdateKeeps DEF ClientUpdateValue
<1>5. ASSUME NEW ch \in Chars, NEW v \in Values,
             SetValueInLoop(ch, v) \/ \E p \in Peers : ClientUpdateFails(p, ch, v)
      PROVE  EInv'
  <2>1. CASE SetValueInLoop(ch, v)
    BY <2>1, UpdateKeeps DEF SetValueInLoop
  <2>2. ASSUME NEW p \in Peers, ClientUpdateFails(p, ch, v) PROVE EInv'
    <3>1. value' \in [Chars -> Values] /\ changes' \in Nat
      BY <2>2 DEF ClientUpdateFails, EInv, TypeOK
    <3>2. UNCHANGED <<topics, phase, queue, timer, soon, calls, thread, told, stopped>>
      BY <2>2 DEF ClientUpdateFails, queueVars
    <3>3. QED
      BY <3>1, <3>2 DEF EInv, TypeOK, ThreadsKnow, ClosedForgets, Open,
         NoSubscriptionOutlivesConnection, NoEventIsStuck, UnsubscribedHearsNothing
  <2>3. QED
    BY <1>5, <2>1, <2>2
<1>6. ASSUME NEW t \in Threads, Application(t) PROVE EInv'
  BY <1>6, ApplicationKeeps
<1>7. CASE RunCall
  BY <1>7, RunCallKeeps
<1>8. ASSUME NEW p \in Peers, TimerFires(p) \/ SendSoon(p) PROVE EInv'
  BY <1>8, SendEventsKeeps DEF TimerFires, SendSoon
<1>9. CASE UNCHANGED vars
  BY <1>9 DEF vars, queueVars, EInv, TypeOK, ThreadsKnow, ClosedForgets, Open,
              NoSubscriptionOutlivesConnection, NoEventIsStuck, UnsubscribedHearsNothing
<1>10. QED
  BY <1>1, <1>2, <1>3, <1>4, <1>5, <1>6, <1>7, <1>8, <1>9 DEF Next, Controller

(* Every reachable state satisfies the invariant. *)
THEOREM SpecEInv == Spec => []EInv
BY InitEInv, NextEInv, PTL DEF Spec

(* The variables have their types. *)
THEOREM EventsTypeCorrect == Spec => []TypeOK
<1>1. EInv => TypeOK
  BY DEF EInv
<1>2. QED
  BY <1>1, SpecEInv, PTL

(* A controller that comes back does not find itself subscribed. *)
THEOREM SubscriptionsEnd == Spec => []NoSubscriptionOutlivesConnection
<1>1. EInv => NoSubscriptionOutlivesConnection
  BY DEF EInv
<1>2. QED
  BY <1>1, SpecEInv, PTL

(* What is queued for an open connection has something armed to send it. *)
THEOREM EventsAreSent == Spec => []NoEventIsStuck
<1>1. EInv => NoEventIsStuck
  BY DEF EInv
<1>2. QED
  BY <1>1, SpecEInv, PTL

(* Nobody hears of a characteristic it is not subscribed to. *)
THEOREM OnlySubscribersHear == Spec => []UnsubscribedHearsNothing
<1>1. EInv => UnsubscribedHearsNothing
  BY DEF EInv
<1>2. QED
  BY <1>1, SpecEInv, PTL
-----------------------------------------------------------------------------
(* Observers converge.  The characteristics of which the property speaks    *)
(* are published in the loop, with the value set in the same step; no       *)
(* thread of the application has an event of theirs to deliver late.        *)

Calm == Chars \ (ThreadChars \cup Failing)

OnlyThreadsCall ==
  /\ \A i \in 1 .. Len(calls) : calls[i].char \in ThreadChars
  /\ \A t \in Threads : thread[t].pc # "idle" => thread[t].char \in ThreadChars

(* An event that waits for an observer carries the value of the moment, and *)
(* is going to be delivered; an observer for which none waits is up to date.*)
InTouch ==
  ~stopped => \A p \in Observers, ch \in Calm :
    IF queue[p][ch] # None THEN p \in topics[ch] /\ queue[p][ch] = value[ch]
                           ELSE UpToDate(p, ch)

CInv == EInv /\ OnlyThreadsCall /\ InTouch

(* A step that touches neither an observer's connection nor what it takes   *)
(* the values to be keeps it in touch.                                      *)
LEMMA Undisturbed ==
  ASSUME InTouch, ~stopped' => ~stopped,
         \A p \in Observers', ch \in Calm :
           /\ p \in Observers
           /\ queue'[p][ch] = queue[p][ch] /\ told'[p][ch] = told[p][ch]
           /\ value'[ch] = value[ch]
           /\ p \in topics[ch] => p \in topics'[ch]
  PROVE  InTouch'
<1> SUFFICES ASSUME ~stopped', NEW p \in Observers', NEW ch \in Calm
             PROVE  IF queue'[p][ch] # None
                    THEN p \in topics'[ch] /\ queue'[p][ch] = value'[ch]
                    ELSE told'[p][ch] \in {None, value'[ch]}
  BY DEF InTouch, UpToDate
<1>1. p \in Observers /\ ~stopped
  OBVIOUS
<1>2. IF queue[p][ch] # None THEN p \in topics[ch] /\ queue[p][ch] = value[ch]
                             ELSE told[p][ch] \in {None, value[ch]}
  BY <1>1 DEF InTouch, UpToDate
<1>3. QED
  BY <1>2

LEMMA InitCInv == Init => CInv
<1> SUFFICES ASSUME Init PROVE CInv
  OBVIOUS
<1>1. EInv
  BY InitEInv
<1>2. OnlyThreadsCall
  BY DEF Init, OnlyThreadsCall, Idle
<1>3. Observers = {}
  BY DEF Init, Observers, Open
<1>4. QED
  BY <1>1, <1>2, <1>3 DEF CInv, InTouch

(* Only threads put events into the loop, and only of their own             *)
(* characteristics.                                                         *)
LEMMA OnlyThreadsCallKept ==
  ASSUME EInv, OnlyThreadsCall, [Next]_vars
  PROVE  OnlyThreadsCall'
<1>1. CASE UNCHANGED <<calls, thread>>
  BY <1>1 DEF OnlyThreadsCall
<1>2. CASE RunCall
  <2>1. calls \in Seq(Calls) /\ calls # <<>> /\ calls' = Tail(calls) /\ UNCHANGED thread
    BY <1>2 DEF RunCall, EInv, TypeOK
  <2>2. \A i \in 1 .. Len(calls') : i + 1 \in 1 .. Len(calls) /\ calls'[i] = calls[i + 1]
    BY <2>1
  <2>3. QED
    BY <2>1, <2>2 DEF OnlyThreadsCall
<1>3. ASSUME NEW t \in Threads, Application(t) PROVE OnlyThreadsCall'
  <2>1. \A u \in Threads : u # t => thread'[u] = thread[u]
    BY <1>3 DEF Application, SetValue, Notify, Publish, EInv, TypeOK
  <2>2. ASSUME NEW ch \in Chars, NEW v \in Values, SetValue(t, ch, v) PROVE OnlyThreadsCall'
    <3>1. thread'[t].char \in ThreadChars /\ UNCHANGED calls
      BY <2>2 DEF SetValue, EInv, TypeOK
    <3>2. QED
      BY <2>1, <3>1 DEF OnlyThreadsCall
  <2>3. CASE Notify(t)
    <3>1. UNCHANGED calls /\ thread[t].char \in ThreadChars
      BY <2>3 DEF Notify, OnlyThreadsCall
    <3>2. thread'[t].char = thread[t].char
      BY <2>3 DEF Notify, EInv, TypeOK
    <3>3. QED
      BY <2>1, <3>1, <3>2 DEF OnlyThreadsCall
  <2>4. CASE Publish(t)
    <3> DEFINE call == [char |-> thread[t].char, val |-> thread[t].val]
    <3>1. thread'[t].pc = "idle"
      BY <2>4 DEF Publish, EInv, TypeOK, Idle
    <3>2. call \in Calls /\ call.char \in ThreadChars
      BY <2>4 DEF Publish, EInv, ThreadsKnow, Calls, OnlyThreadsCall
    <3>3. calls \in Seq(Calls) /\ (calls' = calls \/ calls' = Append(calls, call))
      BY <2>4 DEF Publish, EInv, TypeOK
    <3> HIDE DEF call
    <3>4. \A i \in 1 .. Len(calls') : calls'[i] = call \/ (i \in 1 .. Len(calls) /\ calls'[i] = calls[i])
      BY <3>2, <3>3
    <3>5. \A i \in 1 .. Len(calls') : calls'[i].char \in ThreadChars
      BY <3>2, <3>4 DEF OnlyThreadsCall
    <3>6. QED
      BY <2>1, <3>1, <3>5 DEF OnlyThreadsCall
  <2>5. QED
    BY <1>3, <2>2, <2>3, <2>4 DEF Application
<1>4. ASSUME NEW p \in Peers, Connection(p) \/ Controller(p) \/ TimerFires(p) \/ SendSoon(p)
      PROVE  UNCHANGED <<calls, thread>>
  BY <1>4 DEF Connection, Controller, ConnectionMade, Close, ConnectionLost, Subscribe,
              Unsubscribe, Read, ClientUpdateValue, ClientUpdateFails, Update,
              TimerFires, SendSoon, SendEvents
<1>5. ASSUME NEW ch \in Chars, NEW v \in Values, SetValueInLoop(ch, v)
      PROVE  UNCHANGED <<calls, thread>>
  BY <1>5 DEF SetValueInLoop, Update
<1>6. CASE Stop \/ UNCHANGED vars
  BY <1>1, <1>6 DEF Stop, vars
<1>7. QED
  BY <1>1, <1>2, <1>3, <1>4, <1>5, <1>6 DEF Next

(* A new value set in the loop: every observer that is subscribed gets it   *)
(* into its queue, and one that is not knows nothing of the characteristic. *)
LEMMA UpdateInTouch ==
  ASSUME CInv, NEW ch \in Chars, NEW v \in Values, NEW sender \in Writers \cup {None},
         Update(ch, v, sender),
         \A p \in Observers : told'[p] = told[p]
  PROVE  InTouch'
<1> USE DEF CInv
<1> SUFFICES ASSUME ~stopped', NEW p \in Observers', NEW c \in Calm
             PROVE  IF queue'[p][c] # None
                    THEN p \in topics'[c] /\ queue'[p][c] = value'[c]
                    ELSE told'[p][c] \in {None, value'[c]}
  BY DEF InTouch, UpToDate
<1>1. /\ ~stopped /\ phase' = phase
      /\ value' = [value EXCEPT ![ch] = v] /\ value \in [Chars -> Values]
      /\ AsyncSendEvent(ch, v, sender)
  BY DEF Update, EInv, TypeOK
<1>2. p \in Observers /\ p \in Peers /\ Open(p) /\ p # sender /\ c \in Chars
  BY <1>1, ConstantsAssumption DEF Observers, Open, Calm
<1>3. told'[p][c] = told[p][c]
  BY <1>2
<1>4. IF queue[p][c] # None THEN p \in topics[c] /\ queue[p][c] = value[c]
                            ELSE told[p][c] \in {None, value[c]}
  BY <1>1, <1>2 DEF InTouch, UpToDate
<1> DEFINE receivers == topics[ch] \ {sender}
           reached   == {r \in receivers : Open(r)}
<1>5. /\ QueueEvent(reached, ch, v)
      /\ topics' = [topics EXCEPT ![ch] = @ \ (receivers \ reached)]
  BY <1>1 DEF AsyncSendEvent
<1>6. topics \in [Chars -> SUBSET Peers] /\ queue \in [Peers -> Entries]
  BY DEF EInv, TypeOK, Entries
<1>7. p \in topics[c] => p \in topics'[c]
  BY <1>2, <1>5, <1>6
<1>8. p \in reached <=> p \in topics[ch]
  BY <1>2
<1> HIDE DEF receivers, reached
<1>9. queue'[p] = IF p \in reached THEN [queue[p] EXCEPT ![ch] = v] ELSE queue[p]
  BY <1>2, <1>5 DEF QueueEvent
<1>10. queue[p] \in Entries
  BY <1>2, <1>6
<1>11. CASE c # ch
  <2>1. queue'[p][c] = queue[p][c]
    BY <1>2, <1>9, <1>10, <1>11 DEF Entries
  <2>2. value'[c] = value[c]
    BY <1>1, <1>2, <1>11
  <2>3. QED
    BY <1>3, <1>4, <1>7, <2>1, <2>2
<1>12. CASE c = ch
  <2>1. value'[c] = v
    BY <1>1, <1>2, <1>12
  <2>2. CASE p \in topics[ch]
    <3>1. queue'[p][c] = v
      BY <1>2, <1>8, <1>9, <1>10, <1>12, <2>2 DEF Entries
    <3>2. v # None
      BY ConstantsAssumption
    <3>3. QED
      BY <1>7, <1>12, <2>1, <2>2, <3>1, <3>2
  <2>3. CASE p \notin topics[ch]
    <3>1. queue'[p][c] = queue[p][c]
      BY <1>8, <1>9, <2>3
    <3>2. queue[p][c] = None
      BY <1>4, <1>12, <2>3
    <3>3. told[p][c] = None
      BY <1>2, <1>12, <2>3 DEF EInv, UnsubscribedHearsNothing
    <3>4. QED
      BY <1>3, <3>1, <3>2, <3>3
  <2>4. QED
    BY <2>2, <2>3
<1>13. QED
  BY <1>11, <1>12

(* Sending: what was queued for an observer is what it is told.             *)
LEMMA SendEventsInTouch ==
  ASSUME CInv, NEW q \in Peers, SendEvents(q)
  PROVE  InTouch'
<1> USE DEF CInv
<1> SUFFICES ASSUME ~stopped', NEW p \in Observers', NEW c \in Calm
             PROVE  IF queue'[p][c] # None
                    THEN p \in topics'[c] /\ queue'[p][c] = value'[c]
                    ELSE told'[p][c] \in {None, value'[c]}
  BY DEF InTouch, UpToDate
<1>1. UNCHANGED <<value, topics, phase, stopped>>
  BY DEF SendEvents
<1>2. p \in Observers /\ p \in Peers /\ Open(p) /\ c \in Chars /\ ~stopped
  BY <1>1 DEF Observers, Open, Calm
<1>3. IF queue[p][c] # None THEN p \in topics[c] /\ queue[p][c] = value[c]
                            ELSE told[p][c] \in {None, value[c]}
  BY <1>2 DEF InTouch, UpToDate
<1>4. CASE p # q
  <2>1. queue'[p] = queue[p] /\ told'[p] = told[p]
    BY <1>2, <1>4 DEF SendEvents, EInv, TypeOK
  <2>2. QED
    BY <1>1, <1>3, <2>1
<1>5. CASE p = q
  <2>1. /\ queue'[p] = EmptyQueue
        /\ told'[p][c] = IF c \in Active(p) THEN queue[p][c] ELSE told[p][c]
    BY <1>2, <1>5 DEF SendEvents, EInv, TypeOK
  <2>2. queue'[p][c] = None
    BY <1>2, <2>1 DEF EmptyQueue
  <2>3. c \in Active(p) <=> queue[p][c] # None
    BY <1>2, <1>3 DEF Active
  <2>4. QED
    BY <1>1, <1>3, <2>1, <2>2, <2>3
<1>6. QED
  BY <1>4, <1>5

(* Connections, and the requests about subscriptions and values.            *)
LEMMA ConnectionInTouch ==
  ASSUME CInv, NEW q \in Peers, Connection(q)
  PROVE  InTouch'
<1> USE DEF CInv
<1>1. CASE ConnectionMade(q)
  <2> SUFFICES ASSUME ~stopped', NEW p \in Observers', NEW c \in Calm
               PROVE  IF queue'[p][c] # None
                      THEN p \in topics'[c] /\ queue'[p][c] = value'[c]
                      ELSE told'[p][c] \in {None, value'[c]}
    BY DEF InTouch, UpToDate
  <2>1. UNCHANGED <<value, topics, told, stopped>> /\ p \in Peers /\ c \in Chars
    BY <1>1 DEF ConnectionMade, Observers, Calm
  <2>2. CASE p = q
    <3>1. queue'[p] = EmptyQueue /\ told[p] = EmptyQueue
      BY <1>1, <2>2 DEF ConnectionMade, EInv, TypeOK, ClosedForgets
    <3>2. QED
      BY <2>1, <3>1 DEF EmptyQueue
  <2>3. CASE p # q
    <3>1. p \in Observers /\ queue'[p] = queue[p]
      BY <1>1, <2>1, <2>3 DEF ConnectionMade, Observers, Open, EInv, TypeOK
    <3>2. QED
      BY <2>1, <3>1 DEF InTouch, UpToDate
  <2>4. QED
    BY <2>2, <2>3
<1>2. CASE Close(q) \/ ConnectionLost(q)
  <2>1. /\ UNCHANGED <<value, stopped>>
        /\ \A p \in Peers \ {q} : /\ phase'[p] = phase[p] /\ queue'[p] = queue[p]
                                  /\ told'[p] = told[p]
                                  /\ \A c \in Chars : p \in topics[c] => p \in topics'[c]
        /\ phase'[q] # "open"
    BY <1>2 DEF Close, ConnectionLost, queueVars, EInv, TypeOK
  <2>2. \A p \in Observers' : p \in Observers /\ p \in Peers \ {q}
    BY <2>1 DEF Observers, Open
  <2>3. QED
    BY <2>1, <2>2, Undisturbed DEF Calm
<1>3. QED
  BY <1>1, <1>2 DEF Connection

LEMMA ControllerInTouch ==
  ASSUME CInv, NEW q \in Peers, Controller(q)
  PROVE  InTouch'
<1> USE DEF CInv
<1>0. told \in [Peers -> Entries] /\ topics \in [Chars -> SUBSET Peers]
  BY DEF EInv, TypeOK, Entries
<1>1. ASSUME NEW ch \in Chars, Subscribe(q, ch) PROVE InTouch'
  <2>1. /\ UNCHANGED <<value, phase, queue, told, stopped>>
        /\ \A c \in Chars : topics[c] \subseteq topics'[c]
    BY <1>0, <1>1 DEF Subscribe, queueVars
  <2>2. Observers' = Observers
    BY <2>1 DEF Observers, Open
  <2>3. QED
    BY <2>1, <2>2, Undisturbed DEF Calm
<1>2. ASSUME NEW ch \in Chars, Unsubscribe(q, ch) PROVE InTouch'
  <2>1. UNCHANGED <<value, phase, queue, stopped>> /\ q \in Leavers
    BY <1>2 DEF Unsubscribe, queueVars
  <2>2. Observers' = Observers /\ q \notin Observers
    BY <2>1 DEF Observers, Open
  <2>3. \A p \in Observers, c \in Chars : told'[p][c] = told[p][c] /\ (p \in topics[c] => p \in topics'[c])
    BY <1>0, <1>2, <2>2 DEF Unsubscribe, Observers
  <2>4. QED
    BY <2>1, <2>2, <2>3, Undisturbed DEF Calm
<1>3. ASSUME NEW ch \in Chars, Read(q, ch) PROVE InTouch'
  <2> SUFFICES ASSUME ~stopped', NEW p \in Observers', NEW c \in Calm
               PROVE  IF queue'[p][c] # None
                      THEN p \in topics'[c] /\ queue'[p][c] = value'[c]
                      ELSE told'[p][c] \in {None, value'[c]}
    BY DEF InTouch, UpToDate
  <2>1. UNCHANGED <<value, topics, phase, queue, stopped>> /\ told' = [told EXCEPT ![q][ch] = value[ch]]
    BY <1>3 DEF Read, queueVars
  <2>2. p \in Observers /\ p \in Peers /\ c \in Chars
    BY <2>1 DEF Observers, Open, Calm
  <2>3. IF queue[p][c] # None THEN p \in topics[c] /\ queue[p][c] = value[c]
                              ELSE told[p][c] \in {None, value[c]}
    BY <2>1, <2>2 DEF InTouch, UpToDate
  <2>4. /\ told'[q][ch] = value[ch]
        /\ \A r \in Peers, d \in Chars : (r # q \/ d # ch) => told'[r][d] = told[r][d]
    <3>1. told[q] \in Entries
      BY <1>0
    <3>2. told'[q] = [told[q] EXCEPT ![ch] = value[ch]] /\ \A r \in Peers \ {q} : told'[r] = told[r]
      BY <1>0, <2>1
    <3>3. told'[q][ch] = value[ch] /\ \A d \in Chars \ {ch} : told'[q][d] = told[q][d]
      BY <3>1, <3>2 DEF Entries
    <3>4. QED
      BY <3>2, <3>3
  <2>5. told'[p][c] = told[p][c] \/ told'[p][c] = value[c]
    BY <2>2, <2>4
  <2>6. QED
    BY <2>1, <2>3, <2>5
<1>4. ASSUME NEW ch \in Chars, NEW v \in Values, ClientUpdateValue(q, ch, v) PROVE InTouch'
  <2>1. q \in Writers /\ Update(ch, v, q)
    BY <1>4 DEF ClientUpdateValue
  <2>2. \A p \in Observers : told'[p] = told[p]
    BY <1>0, <1>4, <2>1 DEF ClientUpdateValue, Observers
  <2>3. QED
    BY <2>1, <2>2, UpdateInTouch
<1>5. ASSUME NEW ch \in Chars, NEW v \in Values, ClientUpdateFails(q, ch, v) PROVE InTouch'
  <2>1. /\ UNCHANGED <<topics, phase, queue, told, stopped>>
        /\ ch \in Failing /\ value' = [value EXCEPT ![ch] = v]
    BY <1>5 DEF ClientUpdateFails, queueVars
  <2>2. \A c \in Calm : value'[c] = value[c]
    BY <2>1 DEF Calm, EInv, TypeOK
  <2>3. Observers' = Observers
    BY <2>1 DEF Observers, Open
  <2>4. QED
    BY <2>1, <2>2, <2>3, Undisturbed
<1>6. QED
  BY <1>1, <1>2, <1>3, <1>4, <1>5 DEF Controller

(* The threads, and their events: about other characteristics.              *)
LEMMA ThreadsInTouch ==
  ASSUME CInv, RunCall \/ \E t \in Threads : Application(t)
  PROVE  InTouch'
<1> USE DEF CInv
<1>1. ASSUME NEW t \in Threads, Application(t) PROVE InTouch'
  <2>1. UNCHANGED <<topics, phase, queue, told, stopped>>
    BY <1>1 DEF Application, SetValue, Notify, Publish, ThreadStep, queueVars
  <2>2. \A c \in Calm : value'[c] = value[c]
    BY <1>1 DEF Application, SetValue, Notify, Publish, Calm, EInv, TypeOK
  <2>3. Observers' = Observers
    BY <2>1 DEF Observers, Open
  <2>4. QED
    BY <2>1, <2>2, <2>3, Undisturbed
<1>2. CASE RunCall
  <2> DEFINE ch == Head(calls).char
             v  == Head(calls).val
  <2>1. calls \in Seq(Calls) /\ calls # <<>>
    BY <1>2 DEF RunCall, EInv, TypeOK
  <2>2. 1 \in 1 .. Len(calls) /\ Head(calls) = calls[1] /\ calls[1] \in Calls
    BY <2>1
  <2>3. ch \in ThreadChars /\ ch \in Chars /\ v \in Values
    BY <2>2 DEF OnlyThreadsCall, Calls
  <2>4. UNCHANGED <<value, phase, told, stopped>> /\ AsyncSendEvent(ch, v, None)
    BY <1>2 DEF RunCall
  <2> HIDE DEF ch, v
  <2>5. \A p \in Peers, c \in Chars : Open(p) /\ p \in topics[c] => p \in topics'[c]
    BY <2>3, <2>4, AsyncSendEventKeeps
  <2>6. Observers' = Observers /\ \A p \in Observers : p \in Peers /\ Open(p)
    BY <2>4 DEF Observers, Open
  <2>7. \A p \in Peers, c \in Calm : queue'[p][c] = queue[p][c]
    <3>1. CASE stopped
      BY <2>4, <3>1 DEF AsyncSendEvent, queueVars
    <3>2. CASE ~stopped
      <4>1. PICK reached : QueueEvent(reached, ch, v)
        BY <2>4, <3>2 DEF AsyncSendEvent
      <4>2. \A p \in Peers : queue[p] \in Entries
        BY DEF EInv, TypeOK, Entries
      <4>3. \A p \in Peers : queue'[p] = IF p \in reached THEN [queue[p] EXCEPT ![ch] = v]
                                                          ELSE queue[p]
        BY <4>1 DEF QueueEvent
      <4>4. \A c \in Calm : c \in Chars /\ c # ch
        BY <2>3 DEF Calm
      <4>5. QED
        BY <4>2, <4>3, <4>4 DEF Entries
    <3>3. QED
      BY <3>1, <3>2
  <2>8. QED
    BY <2>4, <2>5, <2>6, <2>7, Undisturbed DEF Calm
<1>3. QED
  BY <1>1, <1>2

LEMMA NextCInv == CInv /\ [Next]_vars => CInv'
<1> SUFFICES ASSUME CInv, [Next]_vars PROVE CInv'
  OBVIOUS
<1>1. EInv' /\ OnlyThreadsCall'
  BY NextEInv, OnlyThreadsCallKept DEF CInv
<1> SUFFICES InTouch'
  BY <1>1 DEF CInv
<1>2. ASSUME NEW p \in Peers, Connection(p) \/ Controller(p) PROVE InTouch'
  BY <1>2, ConnectionInTouch, ControllerInTouch
<1>3. ASSUME NEW p \in Peers, TimerFires(p) \/ SendSoon(p) PROVE InTouch'
  BY <1>3, SendEventsInTouch DEF TimerFires, SendSoon
<1>4. CASE RunCall \/ \E t \in Threads : Application(t)
  BY <1>4, ThreadsInTouch
<1>5. ASSUME NEW ch \in Chars, NEW v \in Values, SetValueInLoop(ch, v) PROVE InTouch'
  BY <1>5, UpdateInTouch DEF SetValueInLoop
<1>6. CASE Stop
  BY <1>6 DEF Stop, InTouch
<1>7. CASE UNCHANGED vars
  BY <1>7 DEF vars, queueVars, CInv, InTouch, Observers, Open, UpToDate
<1>8. QED
  BY <1>1, <1>2, <1>3, <1>4, <1>5, <1>6, <1>7 DEF Next, CInv

(* Once nothing is on its way, every observer that knows a value of a       *)
(* characteristic set in the loop knows the value it has: no coalescing, no *)
(* new subscription, no reconnection loses the last change.                 *)
THEOREM ObserversAreUpToDate == Spec => []ObserversConverge
<1>1. CInv => ObserversConverge
  <2> SUFFICES ASSUME CInv, Quiet, ~stopped, NEW p \in Observers,
                      NEW ch \in Chars \ (ThreadChars \cup Failing)
               PROVE  UpToDate(p, ch)
    BY DEF ObserversConverge
  <2>1. ch \in Calm /\ p \in Peers
    BY DEF Calm, Observers
  <2>2. queue[p][ch] = None
    BY <2>1 DEF Quiet, Observers, EmptyQueue
  <2>3. QED
    BY <2>1, <2>2 DEF CInv, InTouch
<1>2. Spec => []CInv
  BY InitCInv, NextCInv, PTL DEF Spec
<1>3. QED
  BY <1>1, <1>2, PTL
=============================================================================
