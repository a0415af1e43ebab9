-------------------------------- MODULE HDS --------------------------------
(***************************************************************************)
(* The HomeKit Data Stream of a camera: transports that are registered     *)
(* over HAP and claimed by TCP connections (hds_server.py, camera.py), and *)
(* the recordings sent over them (hds_recording.py).                       *)
(*                                                                         *)
(* All of it runs in the event loop.  One action is one callback: a frame  *)
(* that arrives, with the handler of its message and the response, or one  *)
(* step of the task that sends a recording.  Keys are abstracted to the    *)
(* transport they were derived for; each registration has a new salt, so   *)
(* a transport is registered once.                                         *)
(***************************************************************************)
EXTENDS Integers, Sequences

CONSTANTS
  Transports,    \* registrations, each with keys of its own
  Conns,         \* TCP connections
  Ids,           \* stream ids that controllers choose
  Tasks,         \* asyncio tasks of recordings
  None,          \* no transport, no task, no stream
  ChunkSize,     \* DEFAULT_CHUNK_SIZE
  Sizes,         \* sizes of fragments that a delegate produces
  MaxFragments   \* bound: fragments of one recording

ASSUME ChunkSizeAssumption == ChunkSize \in Nat \ {0}

ASSUME SizesAssumption == Sizes \subseteq Nat

ASSUME MaxFragmentsAssumption == MaxFragments \in Nat

ASSUME NoneAssumption ==
  None \notin Transports /\ None \notin Tasks /\ None \notin Ids

VARIABLES
  listener,        \* camera._hds_listener: "on", "stopping" in stop(), "none"
  registered,      \* transports that were ever registered
  salts,           \* those whose salt went back to a controller
  pending,         \* listener._pending
  connections,     \* listener._connections: those that claimed a transport
  hds_connections, \* camera._hds_connections
  conn,            \* "free", "open", "closing" (connection_lost to come), "closed"
  key,             \* the transport whose keys the controller uses; None: unknown keys
  crypto,          \* _crypto of a connection: the transport it claimed
  stream_id,       \* RecordingStreamManager._stream_id
  task,            \* RecordingStreamManager._task
  closed,          \* RecordingStreamManager._closed
  job,             \* what a task is doing
  wanted,          \* history: the controller's last answered request was an open
  sent             \* history: fragments written since the last open

listening == <<listener, registered, salts>>
binding == <<pending, connections, crypto>>
manager == <<stream_id, task, closed, wanted>>
vars == <<listener, registered, salts, pending, connections, hds_connections, conn,
          key, crypto, stream_id, task, closed, job, wanted, sent>>

----------------------------------------------------------------------------
(* Types *)

Chunk == [number : Nat, length : Nat, isLast : BOOLEAN]

\* One fragment as its events.  "of" is the id the delegate was called with.
Fragment == [stream : Ids, of : Ids, number : Nat, end : BOOLEAN,
             size : Nat, chunks : Seq(Chunk)]

Job == [status : {"new", "ready", "running", "done"}, owner : Conns \cup {None},
        of : Ids \cup {None}, number : Nat, cancelled : BOOLEAN]

\* Every variable has a value of its type.
TypeOK ==
  /\ listener \in {"on", "stopping", "none"}
  /\ registered \subseteq Transports
  /\ salts \subseteq registered
  /\ pending \subseteq registered
  /\ connections \subseteq Conns
  /\ hds_connections \subseteq Conns
  /\ conn \in [Conns -> {"free", "open", "closing", "closed"}]
  /\ key \in [Conns -> Transports \cup {None}]
  /\ crypto \in [Conns -> Transports \cup {None}]
  /\ stream_id \in [Conns -> Ids \cup {None}]
  /\ task \in [Conns -> Tasks \cup {None}]
  /\ closed \in [Conns -> BOOLEAN]
  /\ job \in [Tasks -> Job]
  /\ wanted \in [Conns -> BOOLEAN]
  /\ sent \in [Conns -> Seq(Fragment)]

NewJob == [status |-> "new", owner |-> None, of |-> None, number |-> 1,
           cancelled |-> FALSE]

Init ==
  /\ listener = "on"
  /\ registered = {} /\ salts = {} /\ pending = {}
  /\ connections = {} /\ hds_connections = {}
  /\ conn = [c \in Conns |-> "free"]
  /\ key = [c \in Conns |-> None]
  /\ crypto = [c \in Conns |-> None]
  /\ stream_id = [c \in Conns |-> None]
  /\ task = [c \in Conns |-> None]
  /\ closed = [c \in Conns |-> FALSE]
  /\ job = [t \in Tasks |-> NewJob]
  /\ wanted = [c \in Conns |-> FALSE]
  /\ sent = [c \in Conns |-> <<>>]

----------------------------------------------------------------------------
(* Listener and connections *)

\* set_data_stream_transport: the transport is registered before the port is
\* asked for, which raises when the server is closed: then no salt is answered.
Register(t) ==
  /\ listener # "none"
  /\ t \in Transports \ registered
  /\ registered' = registered \cup {t}
  /\ pending' = pending \cup {t}
  /\ salts' = IF listener = "on" THEN salts \cup {t} ELSE salts
  /\ UNCHANGED <<listener, connections, hds_connections, conn, key, crypto,
                 manager, job, sent>>

\* A controller connects; it will use the keys of a transport it knows the salt
\* of, even one that was used before, or some other keys.
Accept(c, t) ==
  /\ listener = "on"
  /\ conn[c] = "free"
  /\ conn' = [conn EXCEPT ![c] = "open"]
  /\ key' = [key EXCEPT ![c] = t]
  /\ hds_connections' = hds_connections \cup {c}
  /\ UNCHANGED <<listening, binding, manager, job, sent>>

\* The connection can read what arrives: it has claimed a transport, or the
\* first frame opens with the keys of one that is pending.
Readable(c) ==
  /\ conn[c] = "open"
  /\ crypto[c] # None \/ key[c] \in pending

\* Mistake: a transport can be claimed again.
BindAgain(c) ==
  IF crypto[c] # None
  THEN UNCHANGED binding
  ELSE /\ crypto' = [crypto EXCEPT ![c] = key[c]]
       /\ connections' = connections \cup {c}
       /\ UNCHANGED pending

\* Mistake: the listener does not get to know the connection.
BindUnlisted(c) ==
  IF crypto[c] # None
  THEN UNCHANGED binding
  ELSE /\ crypto' = [crypto EXCEPT ![c] = key[c]]
       /\ pending' = pending \ {key[c]}
       /\ UNCHANGED connections

\* _bind, when the first frame is complete.
Bind(c) ==
  IF crypto[c] # None
  THEN UNCHANGED binding
  ELSE /\ crypto' = [crypto EXCEPT ![c] = key[c]]
       /\ pending' = pending \ {key[c]}
       /\ connections' = connections \cup {c}

\* A frame whose message changes nothing but is answered or ignored: hello, ack,
\* unknown topics, malformed messages, an open that is refused.
Answer(c) ==
  /\ Readable(c)
  /\ Bind(c)
  /\ UNCHANGED <<listening, hds_connections, conn, key, manager, job, sent>>

\* A frame of a connection that does not decrypt, or a message whose handler
\* raises (an open without a stream id): the transport is closed.
Fail(c) ==
  /\ Readable(c)
  /\ Bind(c)
  /\ conn' = [conn EXCEPT ![c] = "closing"]
  /\ UNCHANGED <<listening, hds_connections, key, manager, job, sent>>

\* The controller goes away.
Hangup(c) ==
  /\ conn[c] = "open"
  /\ conn' = [conn EXCEPT ![c] = "closing"]
  /\ UNCHANGED <<listening, binding, hds_connections, key, manager, job, sent>>

\* connection_lost: the task of a recording is not looked at.
ConnectionLost(c) ==
  /\ conn[c] = "closing"
  /\ conn' = [conn EXCEPT ![c] = "closed"]
  /\ connections' = connections \ {c}
  /\ hds_connections' = hds_connections \ {c}
  /\ UNCHANGED <<listening, pending, crypto, key, manager, job, sent>>

\* HDSListener.stop closes the connections that have claimed a transport.
Stop ==
  /\ listener = "on"
  /\ listener' = "stopping"
  /\ conn' = [c \in Conns |-> IF c \in connections /\ conn[c] = "open"
                              THEN "closing" ELSE conn[c]]
  /\ UNCHANGED <<registered, salts, binding, hds_connections, key, manager, job, sent>>

\* wait_closed returns; newer versions of Python wait for open connections first.
Stopped ==
  /\ listener = "stopping"
  /\ listener' = "none"
  /\ UNCHANGED <<registered, salts, binding, hds_connections, conn, key, manager,
                 job, sent>>

----------------------------------------------------------------------------
(* Recordings *)

Live(t) == job[t].status \in {"ready", "running"}

\* Mistake: a recording that was closed counts as over.
BusyUntilClosed(c) == task[c] # None /\ Live(task[c]) /\ ~closed[c]

Busy(c) == task[c] # None /\ Live(task[c])

\* Mistake: the stream id may be missing.
OpenWithoutId(c, id, t) ==
  /\ Readable(c)
  /\ Bind(c)
  /\ ~Busy(c)
  /\ job[t].status = "new"
  /\ \E i \in {id, None} : stream_id' = [stream_id EXCEPT ![c] = i]
  /\ closed' = [closed EXCEPT ![c] = FALSE]
  /\ task' = [task EXCEPT ![c] = t]
  /\ job' = [job EXCEPT ![t].status = "ready", ![t].owner = c]
  /\ wanted' = [wanted EXCEPT ![c] = TRUE]
  /\ sent' = [sent EXCEPT ![c] = <<>>]
  /\ UNCHANGED <<listening, hds_connections, conn, key>>

\* _handle_open
Open(c, id, t) ==
  /\ Readable(c)
  /\ Bind(c)
  /\ ~Busy(c)
  /\ job[t].status = "new"
  /\ stream_id' = [stream_id EXCEPT ![c] = id]
  /\ closed' = [closed EXCEPT ![c] = FALSE]
  /\ task' = [task EXCEPT ![c] = t]
  /\ job' = [job EXCEPT ![t].status = "ready", ![t].owner = c]
  /\ wanted' = [wanted EXCEPT ![c] = TRUE]
  /\ sent' = [sent EXCEPT ![c] = <<>>]
  /\ UNCHANGED <<listening, hds_connections, conn, key>>

\* Mistake: the task is cancelled, and nothing else.
CloseByCancel(c) ==
  /\ Readable(c)
  /\ Bind(c)
  /\ job' = IF Busy(c) THEN [job EXCEPT ![task[c]].cancelled = TRUE] ELSE job
  /\ wanted' = [wanted EXCEPT ![c] = FALSE]
  /\ UNCHANGED <<listening, hds_connections, conn, key, stream_id, task, closed, sent>>

\* _handle_close, _stop
Close(c) ==
  /\ Readable(c)
  /\ Bind(c)
  /\ closed' = [closed EXCEPT ![c] = TRUE]
  /\ job' = IF Busy(c) THEN [job EXCEPT ![task[c]].cancelled = TRUE] ELSE job
  /\ wanted' = [wanted EXCEPT ![c] = FALSE]
  /\ UNCHANGED <<listening, hds_connections, conn, key, stream_id, task, sent>>

recorder == <<listening, binding, hds_connections, conn, key, manager>>

\* _stream starts, unless it was cancelled before.
Start(t) ==
  /\ job[t].status = "ready"
  /\ job' = IF job[t].cancelled
            THEN [job EXCEPT ![t].status = "done"]
            ELSE [job EXCEPT ![t].status = "running",
                             ![t].of = stream_id[job[t].owner]]
  /\ UNCHANGED <<recorder, sent>>

\* The cancellation reaches the delegate, which may go on all the same.
Cancelled(t) ==
  /\ job[t].status = "running" /\ job[t].cancelled
  /\ \/ job' = [job EXCEPT ![t].status = "done"]
     \/ job' = [job EXCEPT ![t].cancelled = FALSE]
  /\ UNCHANGED <<recorder, sent>>

\* The delegate has no more packets, or raises: nothing is sent then.
DelegateEnds(t) ==
  /\ job[t].status = "running" /\ ~job[t].cancelled
  /\ job' = [job EXCEPT ![t].status = "done"]
  /\ UNCHANGED <<recorder, sent>>

\* Mistake: an empty fragment has no event.
NumChunksOfData(total) == (total + ChunkSize - 1) \div ChunkSize

\* The number of events of a fragment; an empty one still needs an event.
NumChunks(total) == IF total = 0 THEN 1 ELSE (total + ChunkSize - 1) \div ChunkSize

\* _send_fragment: the events of a fragment.
Chunks(total) ==
  [i \in 1 .. NumChunks(total) |->
     [number |-> i,
      length |-> IF i * ChunkSize <= total THEN ChunkSize
                 ELSE total - (i - 1) * ChunkSize,
      isLast |-> i * ChunkSize >= total]]

\* What the connection writes; a transport that is closing drops it.
SendFragment(c, fragment) ==
  sent' = IF conn[c] = "open"
          THEN [sent EXCEPT ![c] = Append(@, fragment)]
          ELSE sent

\* The delegate yields a packet.
Yield(t, size, is_last) ==
  LET c == job[t].owner IN
  /\ job[t].status = "running" /\ ~job[t].cancelled
  /\ \/ /\ closed[c]
        /\ job' = [job EXCEPT ![t].status = "done"]
        /\ UNCHANGED sent
     \/ /\ ~closed[c]
        /\ is_last \/ job[t].number < MaxFragments
        /\ SendFragment(c, [stream |-> stream_id[c], of |-> job[t].of,
                            number |-> job[t].number, end |-> is_last,
                            size |-> size, chunks |-> Chunks(size)])
        /\ job' = IF is_last
                  THEN [job EXCEPT ![t].status = "done"]
                  ELSE [job EXCEPT ![t].number = @ + 1]
  /\ UNCHANGED recorder

Next ==
  \/ \E t \in Transports : Register(t)
  \/ \E c \in Conns :
       \/ \E t \in salts \cup {None} : Accept(c, t)
       \/ Answer(c)
       \/ Fail(c)
       \/ Hangup(c)
       \/ ConnectionLost(c)
       \/ \E id \in Ids, t \in Tasks : Open(c, id, t)
       \/ Close(c)
  \/ Stop
  \/ Stopped
  \/ \E t \in Tasks :
       \/ Start(t)
       \/ Cancelled(t)
       \/ DelegateEnds(t)
       \/ \E size \in Sizes, is_last \in BOOLEAN : Yield(t, size, is_last)

Spec == Init /\ [][Next]_vars

----------------------------------------------------------------------------
(* Properties *)

\* A transport is claimed by one connection only, even when its first frame
\* arrives on several: its keys never encrypt two streams with the same nonces
\* (_bind).
OneConnectionPerTransport ==
  \A c \in Conns :
    crypto[c] # None =>
      /\ crypto[c] \notin pending
      /\ \A d \in Conns : crypto[d] = crypto[c] => d = c

\* HDSListener.stop leaves no connection open that has claimed a transport: the
\* listener's set misses none of them, whatever was bound and lost before.
StopReachesBound ==
  [][listener = "on" /\ listener' # "on" =>
       \A c \in Conns : crypto[c] # None => conn'[c] # "open"]_vars

\* The fragments of a recording were made for the stream they are sent as, and
\* that is the stream the controller opened last, although all tasks of a
\* connection share _stream_id and an open may follow a close at once.
FragmentsBelong ==
  \A c \in Conns : \A i \in 1 .. Len(sent[c]) :
    sent[c][i].stream = stream_id[c] /\ sent[c][i].of = stream_id[c]

\* The events of a fragment put it together again: one of them is the last, and
\* the lengths add up (all but the last have the size of a chunk).
Reassembles(fragment) ==
  LET n == Len(fragment.chunks) IN
  /\ n > 0
  /\ \A i \in 1 .. n :
       /\ fragment.chunks[i].number = i
       /\ fragment.chunks[i].isLast <=> i = n
       /\ i < n => fragment.chunks[i].length = ChunkSize
  /\ (n - 1) * ChunkSize + fragment.chunks[n].length = fragment.size

\* What a controller has of a recording has no gap, each fragment can be
\* put together, and nothing follows the end of the stream (_stream,
\* _send_fragment).
RecordingIsWhole ==
  \A c \in Conns : \A i \in 1 .. Len(sent[c]) :
    /\ sent[c][i].number = i
    /\ sent[c][i].end => i = Len(sent[c])
    /\ Reassembles(sent[c][i])

\* After a close was answered nothing is sent until a recording is opened
\* again, even by a delegate that ignores its cancellation (_stop, _stream).
NoDataAfterClose ==
  [][\A c \in Conns : Len(sent'[c]) > Len(sent[c]) => wanted[c]]_vars

\* "Stop all streaming sessions and the HDS listener": no recording is opened on
\* a listener that was stopped (Camera.stop).  Violated by a connection that
\* claims its transport after the stop.
NothingOpensAfterStop ==
  [][listener # "on" => \A t \in Tasks :
       job[t].status = "new" => job'[t].status = "new"]_vars

=============================================================================
