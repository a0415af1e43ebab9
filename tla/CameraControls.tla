--------------------------- MODULE CameraControls ---------------------------
(***************************************************************************)
(* What a camera keeps for controllers beside its streams (camera.py): the *)
(* WebRTC sessions with their count, and the event queue of the camera     *)
(* buffer; and the CMAF ingest sessions (hksv_cmaf.py) whose start and end *)
(* are announced through that queue.                                       *)
(*                                                                         *)
(* Writes of controllers are one step.  An ingest session is used by two   *)
(* tasks of the accessory, one that pushes segments and one that stops it, *)
(* and both await the uploader.  What is uploaded, offered and negotiated  *)
(* is left out, and what a hook of the accessory answers is chosen freely. *)
(***************************************************************************)
EXTENDS Naturals, Sequences, FiniteSets, SequencesExt

CONSTANTS
  WebRTCIds,   \* identifiers of offers, each of them new
  CMAFIds,     \* ingest sessions
  Limits,      \* limits of a query: how many events it asks for
  MaxEvents    \* bound: events

ASSUME ControlsAssumption ==
  /\ Limits \subseteq Nat /\ MaxEvents \in Nat
  /\ "camera" \notin CMAFIds

VARIABLES
  webrtc_sessions,   \* _webrtc_sessions: from identifiers to states
  active_sessions,   \* WebRTCNumberOfActiveSessions
  offers,            \* history: identifiers that were offered
  buffer_events,     \* _buffer_events
  event_seq,         \* _buffer_event_seq, and BufferEventSequenceNumber
  happened,          \* history: every event that was queued
  heard,             \* the events the controller has got
  cmaf               \* the ingest sessions

webrtc == <<webrtc_sessions, active_sessions, offers>>
buffer == <<buffer_events, event_seq, happened>>
controls == <<webrtc, buffer, heard, cmaf>>

Event == [number : Nat, type : {"start", "stop", "error", "motion"}, of : CMAFIds \cup {"camera"}]

\* "pushing" and "stopping" say what the two tasks await; "mute" that close()
\* has raised.
Ingest == [started : BOOLEAN, closed : BOOLEAN, pushing : {"nothing", "upload", "close"},
           stopping : {"nothing", "close"}, mute : BOOLEAN]

\* Every variable has a value of its type.
ControlsTypeOK ==
  /\ DOMAIN webrtc_sessions \subseteq offers
  /\ \A w \in DOMAIN webrtc_sessions : webrtc_sessions[w] \in {"offered", "active"}
  /\ active_sessions \in 0 .. Cardinality(offers)
  /\ offers \subseteq WebRTCIds
  /\ buffer_events \in Seq(Event)
  /\ event_seq = Len(happened)
  /\ happened \in Seq(Event)
  /\ heard \in Seq(Event)
  /\ cmaf \in [CMAFIds -> Ingest]

ControlsInit ==
  /\ webrtc_sessions = [w \in {} |-> "offered"] /\ active_sessions = 0 /\ offers = {}
  /\ buffer_events = <<>> /\ event_seq = 0 /\ happened = <<>>
  /\ heard = <<>>
  /\ cmaf = [c \in CMAFIds |-> [started |-> FALSE, closed |-> FALSE, pushing |-> "nothing",
                                stopping |-> "nothing", mute |-> FALSE]]

----------------------------------------------------------------------------
(* WebRTC sessions *)

Active(registry) == {w \in DOMAIN registry : registry[w] = "active"}

\* set_webrtc_solicit_offer, when webrtc_create_offer returns an offer.
SolicitOffer(w) ==
  /\ w \notin offers
  /\ offers' = offers \cup {w}
  /\ webrtc_sessions' = [v \in DOMAIN webrtc_sessions \cup {w} |->
                           IF v = w THEN "offered" ELSE webrtc_sessions[v]]
  /\ UNCHANGED <<active_sessions, buffer, heard, cmaf>>

\* set_webrtc_provide_answer, when webrtc_apply_answer returns True.
ProvideAnswer(w) ==
  /\ w \in DOMAIN webrtc_sessions
  /\ webrtc_sessions' = [webrtc_sessions EXCEPT ![w] = "active"]
  /\ active_sessions' = Cardinality(Active(webrtc_sessions'))
  /\ UNCHANGED <<offers, buffer, heard, cmaf>>

\* set_webrtc_streaming_control: a session ends, answered or not.  When the hook
\* webrtc_end_session raises, the count stays as it is until it is next set.
EndSession(w) ==
  /\ w \in DOMAIN webrtc_sessions
  /\ webrtc_sessions' = [v \in DOMAIN webrtc_sessions \ {w} |-> webrtc_sessions[v]]
  /\ \/ active_sessions' = Cardinality(Active(webrtc_sessions'))
     \/ UNCHANGED active_sessions
  /\ UNCHANGED <<offers, buffer, heard, cmaf>>

----------------------------------------------------------------------------
(* The event queue *)

\* queue_buffer_event
QueueBufferEvent(type, of) ==
  LET event == [number |-> event_seq + 1, type |-> type, of |-> of]
  IN  /\ event_seq < MaxEvents
      /\ event_seq' = event_seq + 1
      /\ buffer_events' = Append(buffer_events, event)
      /\ happened' = Append(happened, event)

\* An event of the accessory's own.
Motion ==
  /\ QueueBufferEvent("motion", "camera")
  /\ UNCHANGED <<webrtc, heard, cmaf>>

\* Mistake: what is acknowledged takes the rest with it.
UnacknowledgedNone(number) == <<>>

\* The events from a number on.  They are queued with ascending numbers: what a
\* filter by the number keeps is the end of the list.
EventsFrom(number) ==
  LET kept == {n \in 1 .. Len(buffer_events) : buffer_events[n].number >= number}
  IN  IF kept = {} THEN <<>> ELSE SubSeq(buffer_events, Min(kept), Len(buffer_events))

\* set_buffer_event_command, Acknowledge: what it keeps.
Unacknowledged(number) == EventsFrom(number + 1)

\* The controller acknowledges what it has heard, all of it or not.
Acknowledge(number) ==
  /\ number \in 1 .. Len(heard)
  /\ buffer_events' = Unacknowledged(number)
  /\ UNCHANGED <<webrtc, event_seq, happened, heard, cmaf>>

\* set_buffer_event_command, Query: the events from a number on, at most limit.
Queried(number, limit) ==
  SubSeq(EventsFrom(number), 1, Min({limit, Len(EventsFrom(number))}))

\* The controller asks for what comes after all it has heard.  The response may
\* be lost, then it asks again.
Query(limit) ==
  /\ heard' = heard \o Queried(Len(heard) + 1, limit)
  /\ UNCHANGED <<webrtc, buffer, cmaf>>

----------------------------------------------------------------------------
(* CMAF ingest sessions *)

\* start(): announced once.
StartIngest(c) ==
  /\ ~cmaf[c].started
  /\ cmaf' = [cmaf EXCEPT ![c].started = TRUE]
  /\ QueueBufferEvent("start", c)
  /\ UNCHANGED <<webrtc, heard>>

\* push(): the accessory pushes one segment after the other.  A session that is
\* closed refuses it, one that was not started does not.
Push(c) ==
  /\ cmaf[c].pushing = "nothing" /\ ~cmaf[c].closed
  /\ cmaf' = [cmaf EXCEPT ![c].pushing = "upload"]
  /\ UNCHANGED <<webrtc, buffer, heard>>

Uploaded(c) ==
  /\ cmaf[c].pushing = "upload"
  /\ cmaf' = [cmaf EXCEPT ![c].pushing = "nothing"]
  /\ UNCHANGED <<webrtc, buffer, heard>>

\* Mistake: _fail does not look whether the session was closed meanwhile.
UploadFailsAgain(c) ==
  /\ cmaf[c].pushing = "upload"
  /\ cmaf' = [cmaf EXCEPT ![c].pushing = "close", ![c].closed = TRUE]
  /\ UNCHANGED <<webrtc, buffer, heard>>

\* The upload raises.  _fail closes the session unless it was closed meanwhile.
UploadFails(c) ==
  /\ cmaf[c].pushing = "upload"
  /\ cmaf' = IF cmaf[c].closed THEN [cmaf EXCEPT ![c].pushing = "nothing"]
             ELSE [cmaf EXCEPT ![c].pushing = "close", ![c].closed = TRUE]
  /\ UNCHANGED <<webrtc, buffer, heard>>

\* stop(), of a session that was started or not.
StopIngest(c) ==
  /\ ~cmaf[c].closed
  /\ cmaf' = [cmaf EXCEPT ![c].stopping = "close", ![c].closed = TRUE]
  /\ UNCHANGED <<webrtc, buffer, heard>>

\* The uploader is closed: the end is announced by whoever closed it.
FailureClosed(c) ==
  /\ cmaf[c].pushing = "close"
  /\ cmaf' = [cmaf EXCEPT ![c].pushing = "nothing"]
  /\ QueueBufferEvent("error", c)
  /\ UNCHANGED <<webrtc, heard>>

StopClosed(c) ==
  /\ cmaf[c].stopping = "close"
  /\ cmaf' = [cmaf EXCEPT ![c].stopping = "nothing"]
  /\ QueueBufferEvent("stop", c)
  /\ UNCHANGED <<webrtc, heard>>

\* close() raises, and with it stop() or push(): nothing is announced.
CloseRaises(c) ==
  /\ \/ /\ cmaf[c].pushing = "close"
        /\ cmaf' = [cmaf EXCEPT ![c].pushing = "nothing", ![c].mute = TRUE]
     \/ /\ cmaf[c].stopping = "close"
        /\ cmaf' = [cmaf EXCEPT ![c].stopping = "nothing", ![c].mute = TRUE]
  /\ UNCHANGED <<webrtc, buffer, heard>>

Negotiates == \E w \in WebRTCIds : SolicitOffer(w) \/ ProvideAnswer(w) \/ EndSession(w)

Records ==
  \/ Motion
  \/ \E number \in 1 .. MaxEvents : Acknowledge(number)
  \/ \E limit \in Limits : Query(limit)
  \/ \E c \in CMAFIds :
       \/ StartIngest(c) \/ Push(c) \/ Uploaded(c) \/ UploadFails(c) \/ StopIngest(c)
       \/ FailureClosed(c) \/ StopClosed(c) \/ CloseRaises(c)

\* The two do not depend on each other.
ControlsNext == Negotiates \/ Records

ControlsSpec == ControlsInit /\ [][ControlsNext]_controls

----------------------------------------------------------------------------
(* Properties *)

(* A controller that acknowledges only what it has heard hears of every      *)
(* event, once and in order, however it limits its queries, and whatever is  *)
(* queued in between (camera.py:1076); what it has not heard is still there. *)
NoEventIsMissed ==
  /\ IsPrefix(heard, happened)
  /\ \A n \in Len(heard) + 1 .. Len(happened) : happened[n] \in ToSet(buffer_events)

Announced(c, types) == {n \in 1 .. Len(happened) : happened[n].of = c
                                                     /\ happened[n].type \in types}

(* An ingest session is announced to start and to end at most once each; and *)
(* if the uploader could be closed, a session that is over was announced to  *)
(* be (hksv_cmaf.py:110, :122).  Nothing keeps an end behind a start: a      *)
(* session can be stopped, or fail, that never was started.                  *)
SessionEndsOnce ==
  \A c \in CMAFIds :
    LET ends == Announced(c, {"stop", "error"})
    IN  /\ Cardinality(ends) <= 1 /\ Cardinality(Announced(c, {"start"})) <= 1
        /\ cmaf[c].closed /\ cmaf[c].pushing # "close" /\ cmaf[c].stopping # "close" =>
             (ends = {} <=> cmaf[c].mute)
=============================================================================
