---------------------------- MODULE HAPConnection ----------------------------
(***************************************************************************)
(* One connection of a controller (hap_protocol.py): how requests become   *)
(* responses, at once or, for a camera's snapshot, when a task is over.    *)
(*                                                                         *)
(* HTTP is h11's: what a request is, and the states of its two sides, of   *)
(* which the code asks for the next event.  A controller may send requests *)
(* without waiting for responses; they arrive one by one or together.      *)
(* data_received and what it calls is one callback of the loop, here taken *)
(* event by event.  Events for subscribers are in HAPEvents, the cutting   *)
(* of the stream in HAPFraming.                                            *)
(***************************************************************************)
EXTENDS Naturals, Sequences

CONSTANT MaxRequests   \* bound: requests of the controller

Parameters == MaxRequests \in Nat

VARIABLES
  requests,    \* what the controller has sent
  received,    \* how many of them h11 was given
  partial,     \* it was given a part of the next one as well
  taken,       \* how many of them were dispatched
  client,      \* h11: their_state
  server,      \* h11: our_state
  task,        \* the snapshot task of each request
  response,    \* self.response: the request it is for
  processing,  \* data_received is running
  transport,   \* open, closing, or lost
  answers      \* the requests that were answered, in that order

vars == <<requests, received, partial, taken, client, server, task, response, processing, transport, answers>>

Request == [is : {"plain", "snapshot", "malformed"}, close : BOOLEAN]

None == 0

\* Every variable has a value of its type.
TypeOK ==
  /\ requests \in Seq(Request)
  /\ received \in 0 .. Len(requests) /\ taken \in 0 .. received
  /\ client \in {"IDLE", "DONE", "MUST_CLOSE"}
  /\ server \in {"IDLE", "SEND_RESPONSE", "DONE", "MUST_CLOSE"}
  /\ task \in [1 .. MaxRequests -> {"none", "running", "over"}]
  /\ response \in 0 .. taken
  /\ partial \in BOOLEAN /\ processing \in BOOLEAN
  /\ transport \in {"open", "closing", "lost"}
  /\ answers \in Seq(1 .. taken)

Init ==
  /\ requests = <<>> /\ received = 0 /\ partial = FALSE /\ taken = 0
  /\ client = "IDLE" /\ server = "IDLE"
  /\ task = [n \in 1 .. MaxRequests |-> "none"] /\ response = None
  /\ processing = FALSE /\ transport = "open"
  /\ answers = <<>>

http == <<client, server>>
delayed == <<task, response>>

----------------------------------------------------------------------------
(* The controller and the network *)

SendRequest(request) ==
  /\ transport # "lost" /\ Len(requests) < MaxRequests
  /\ requests' = Append(requests, request)
  /\ UNCHANGED <<received, partial, taken, http, delayed, processing, transport, answers>>

\* data_received: up to and including request n, and perhaps some of the next.
DataReceived(n) ==
  /\ transport = "open" /\ ~processing
  /\ n \in received .. Len(requests)
  /\ partial' \in {FALSE, n < Len(requests)}
  /\ n > received \/ (partial' /\ ~partial)
  /\ received' = n /\ processing' = TRUE
  /\ UNCHANGED <<requests, taken, http, delayed, transport, answers>>

\* The connection ends, because it was closed or by the controller.
ConnectionLost ==
  /\ transport # "lost" /\ ~processing
  /\ transport' = "lost"
  /\ UNCHANGED <<requests, received, partial, taken, http, delayed, processing, answers>>

----------------------------------------------------------------------------
(* _process_events: one event of h11 after the other. *)

Close == transport' = "closing" /\ processing' = FALSE

Buffered == received > taken

\* Anything in h11's buffer.
Trailing == Buffered \/ partial

\* NEED_DATA; h11 pauses at a part of a request, too, while it is DONE.
NeedData ==
  /\ processing /\ ~Buffered
  /\ partial => client = "IDLE"
  /\ processing' = FALSE
  /\ UNCHANGED <<requests, received, partial, taken, http, delayed, transport, answers>>

\* Mistake: what is buffered waits for the response.
PausedWaits ==
  /\ processing /\ Trailing /\ client = "DONE"
  /\ IF server = "DONE" THEN client' = "IDLE" /\ server' = "IDLE" /\ UNCHANGED processing
     ELSE processing' = FALSE /\ UNCHANGED http
  /\ UNCHANGED <<requests, received, partial, taken, delayed, transport, answers>>

\* PAUSED: something of the next request is there.  start_next_cycle raises if
\* this one is not answered yet, and _handle_invalid_conn_state closes.
Paused ==
  /\ processing /\ Trailing /\ client = "DONE"
  /\ IF server = "DONE" THEN client' = "IDLE" /\ server' = "IDLE" /\ UNCHANGED <<processing, transport>>
     ELSE Close /\ UNCHANGED http
  /\ UNCHANGED <<requests, received, partial, taken, delayed, answers>>

\* next_event raises: no HTTP, or a request after one with "Connection: close".
NextEventRaises ==
  /\ processing /\ Trailing
  /\ client = "MUST_CLOSE" \/ (client = "IDLE" /\ requests[taken + 1].is = "malformed")
  /\ Close
  /\ UNCHANGED <<requests, received, partial, taken, http, delayed, answers>>

\* The side's state behind its last message.
Finished(request) == IF request.close THEN "MUST_CLOSE" ELSE "DONE"

\* A request up to EndOfMessage.
Dispatch(is) ==
  /\ processing /\ Buffered /\ client = "IDLE"
  /\ requests[taken + 1].is = is
  /\ taken' = taken + 1
  /\ client' = Finished(requests[taken'])

\* The response is sent at once; a snapshot that is refused at once as well.
Answer(is) ==
  /\ Dispatch(is)
  /\ answers' = Append(answers, taken')
  /\ server' = client'
  /\ IF server' = "MUST_CLOSE" THEN Close ELSE UNCHANGED <<processing, transport>>
  /\ UNCHANGED <<requests, received, partial, delayed>>

\* handle_resource makes a task, _process_response leaves the rest to it.
AnswerLater ==
  /\ Dispatch("snapshot")
  /\ server' = "SEND_RESPONSE"
  /\ task' = [task EXCEPT ![taken'] = "running"]
  /\ response' = taken'
  /\ UNCHANGED <<requests, received, partial, processing, transport, answers>>

----------------------------------------------------------------------------
(* Delayed responses *)

\* The snapshot is there, or failed, or took longer than RESPONSE_TIMEOUT.
TaskOver(n) ==
  /\ task[n] = "running"
  /\ task' = [task EXCEPT ![n] = "over"]
  /\ UNCHANGED <<requests, received, partial, taken, http, response, processing, transport, answers>>

\* _handle_response_ready: the result, or generic_failure_response; nothing if
\* the connection is closing or gone.
HandleResponseReady(n) ==
  /\ ~processing /\ task[n] = "over"
  /\ task' = [task EXCEPT ![n] = "none"] /\ response' = None
  /\ IF transport = "open"
     THEN answers' = Append(answers, response) /\ server' = Finished(requests[n])
     ELSE UNCHANGED <<answers, server>>
  /\ UNCHANGED <<requests, received, partial, taken, client, processing, transport>>

----------------------------------------------------------------------------
(* The server *)

\* check_idle and async_stop close connections; an idle one (90 hours) has no
\* task (9 seconds), a stopped server's may have.
CloseConnection ==
  /\ transport = "open" /\ ~processing
  /\ transport' = "closing"
  /\ UNCHANGED <<requests, received, partial, taken, http, delayed, processing, answers>>

Process ==
  \/ NeedData \/ Paused \/ NextEventRaises
  \/ Answer("plain") \/ Answer("snapshot") \/ AnswerLater

Tasks == \E n \in 1 .. MaxRequests : TaskOver(n) \/ HandleResponseReady(n)

Next ==
  \/ \E request \in Request : SendRequest(request)
  \/ \E n \in 0 .. MaxRequests : DataReceived(n)
  \/ ConnectionLost
  \/ Process
  \/ Tasks
  \/ CloseConnection

\* A callback of the loop runs to its end; tasks have a timeout, and the loop
\* calls their callbacks.  What a controller sends arrives or does not.
Fairness == WF_vars(Process) /\ WF_vars(Tasks)

Spec == Init /\ [][Next]_vars /\ Fairness

----------------------------------------------------------------------------
(* Properties *)

InOrder == \A i \in 1 .. Len(answers) : answers[i] = i

Served(n) == received >= n ~> Len(answers) >= n \/ transport # "open"

(* Requests are answered in the order they came in, each once, although some *)
(* are answered by a task and all share self.response (hap_protocol.py:282); *)
(* and a request that has arrived is answered or the connection is closed:   *)
(* none is left in the buffer behind one that is answered later              *)
(* (hap_protocol.py:245, :307).                                              *)
RequestsAreAnsweredInOrder == []InOrder /\ \A n \in 1 .. MaxRequests : Served(n)
=============================================================================
