---------------------------- MODULE Camera_proofs ----------------------------
(***************************************************************************)
(* Proofs about a camera, for any number of sessions, encoders and events: *)
(* its types, what its event queue promises, and what becomes of the       *)
(* encoders and the streams.                                               *)
(***************************************************************************)
EXTENDS MCCamera, FiniteSetTheorems, SequenceTheorems, TLAPS

----------------------------------------------------------------------------
(* The announcements of ingest sessions *)

IngestTypeOK == event_seq \in Nat /\ happened \in Seq(Event) /\ cmaf \in [CMAFIds -> Ingest]

StartsOf(c) == Announced(c, {"start"})
EndsOf(c) == Announced(c, {"stop", "error"})

(* Whoever closes a session was the only one to find it open, and no end has  *)
(* been announced until the uploader is closed.                               *)
EndsOnce(c) ==
  /\ cmaf[c].pushing # "close" \/ cmaf[c].stopping # "close"
  /\ cmaf[c].pushing = "close" \/ cmaf[c].stopping = "close" => cmaf[c].closed /\ ~cmaf[c].mute
  /\ ~cmaf[c].closed => ~cmaf[c].mute
  /\ IF ~cmaf[c].started THEN StartsOf(c) = {} ELSE \E n \in 1 .. Len(happened) : StartsOf(c) = {n}
  /\ IF ~cmaf[c].closed \/ cmaf[c].pushing = "close" \/ cmaf[c].stopping = "close" \/ cmaf[c].mute
     THEN EndsOf(c) = {}
     ELSE \E n \in 1 .. Len(happened) : EndsOf(c) = {n}

IngestInv == IngestTypeOK /\ \A c \in CMAFIds : EndsOnce(c)

(* An event is announced behind the others, and of one thing. *)
LEMMA AppendAnnounces ==
  ASSUME happened \in Seq(Event), NEW type, NEW of, QueueBufferEvent(type, of), NEW c
  PROVE  /\ Len(happened') = Len(happened) + 1 /\ Len(happened) \in Nat
         /\ StartsOf(c)' = IF of = c /\ type = "start" THEN StartsOf(c) \cup {Len(happened) + 1}
                         ELSE StartsOf(c)
         /\ EndsOf(c)' = IF of = c /\ type \in {"stop", "error"} THEN EndsOf(c) \cup {Len(happened) + 1}
                       ELSE EndsOf(c)
<1> DEFINE e == [number |-> event_seq + 1, type |-> type, of |-> of]
<1>1. happened' = Append(happened, e)
  BY DEF QueueBufferEvent
<1> HIDE DEF e
<1>2. /\ Len(happened') = Len(happened) + 1 /\ Len(happened) \in Nat
      /\ \A n \in 1 .. Len(happened) : happened'[n] = happened[n]
      /\ happened'[Len(happened) + 1] = e
  BY <1>1
<1>3. e.type = type /\ e.of = of
  BY DEF e
<1> QED  BY <1>2, <1>3 DEF Announced, StartsOf, EndsOf

(* What is announced of a session is so for good. *)
LEMMA NotAnnouncing ==
  ASSUME NEW c, NEW types, UNCHANGED happened PROVE Announced(c, types)' = Announced(c, types)
  BY DEF Announced

LEMMA IngestInit == ASSUME ControlsInit PROVE IngestInv
  BY DEF ControlsInit, IngestInv, IngestTypeOK, Ingest, EndsOnce, StartsOf, EndsOf, Announced

(* A step leaves alone what it is not about. *)
LEMMA OthersKeep ==
  ASSUME IngestInv, NEW d \in CMAFIds, cmaf'[d] = cmaf[d],
         \/ UNCHANGED happened
         \/ \E type, of : of # d /\ QueueBufferEvent(type, of)
  PROVE  EndsOnce(d)'
<1>1. happened \in Seq(Event) /\ EndsOnce(d)
  BY DEF IngestInv, IngestTypeOK
<1> DEFINE Kept == /\ Len(happened) \in Nat /\ Len(happened') \in Nat
                   /\ Len(happened) <= Len(happened')
                   /\ StartsOf(d)' = StartsOf(d) /\ EndsOf(d)' = EndsOf(d)
<1>2. Kept
  <2>1. CASE UNCHANGED happened
    BY <1>1, <2>1, NotAnnouncing DEF StartsOf, EndsOf
  <2>2. ASSUME NEW type, NEW of, of # d, QueueBufferEvent(type, of) PROVE Kept
    BY <1>1, <2>2, AppendAnnounces
  <2> QED  BY <2>1, <2>2
<1> QED  BY <1>1, <1>2 DEF EndsOnce

(* The steps that announce nothing. *)
LEMMA SilentStep ==
  ASSUME IngestInv, UNCHANGED <<event_seq, happened>>, NEW c \in CMAFIds,
         Push(c) \/ Uploaded(c) \/ UploadFails(c) \/ StopIngest(c) \/ CloseRaises(c)
  PROVE  IngestInv'
<1>1. IngestTypeOK'
  <2>1. cmaf \in [CMAFIds -> Ingest]
    BY DEF IngestInv, IngestTypeOK
  <2>2. cmaf' \in [CMAFIds -> Ingest]
    <3>1. CASE Push(c)
      BY <2>1, <3>1 DEF Push, Ingest
    <3>2. CASE Uploaded(c)
      BY <2>1, <3>2 DEF Uploaded, Ingest
    <3>3. CASE UploadFails(c)
      BY <2>1, <3>3 DEF UploadFails, Ingest
    <3>4. CASE StopIngest(c)
      BY <2>1, <3>4 DEF StopIngest, Ingest
    <3>5. CASE CloseRaises(c)
      BY <2>1, <3>5 DEF CloseRaises, Ingest
    <3> QED  BY <3>1, <3>2, <3>3, <3>4, <3>5
  <2> QED  BY <2>2 DEF IngestInv, IngestTypeOK
<1>2. ASSUME NEW d \in CMAFIds PROVE EndsOnce(d)'
  <2>1. CASE d = c
    <3>1. StartsOf(c)' = StartsOf(c) /\ EndsOf(c)' = EndsOf(c)
      BY NotAnnouncing DEF StartsOf, EndsOf
    <3>2. EndsOnce(c) /\ cmaf[c] \in Ingest /\ cmaf \in [CMAFIds -> Ingest]
      BY DEF IngestInv, IngestTypeOK
    <3>3. CASE Push(c)
      BY <2>1, <3>1, <3>2, <3>3 DEF Push, EndsOnce, Ingest
    <3>4. CASE Uploaded(c)
      BY <2>1, <3>1, <3>2, <3>4 DEF Uploaded, EndsOnce, Ingest
    <3>5. CASE UploadFails(c)
      BY <2>1, <3>1, <3>2, <3>5 DEF UploadFails, EndsOnce, Ingest
    <3>6. CASE StopIngest(c)
      BY <2>1, <3>1, <3>2, <3>6 DEF StopIngest, EndsOnce, Ingest
    <3>7. CASE CloseRaises(c)
      BY <2>1, <3>1, <3>2, <3>7 DEF CloseRaises, EndsOnce, Ingest
    <3> QED  BY <3>3, <3>4, <3>5, <3>6, <3>7
  <2>2. CASE d # c
    <3>1. cmaf'[d] = cmaf[d]
      BY <2>2 DEF IngestInv, IngestTypeOK, Push, Uploaded, UploadFails, StopIngest, CloseRaises
    <3> QED  BY <3>1, OthersKeep
  <2> QED  BY <2>1, <2>2
<1> QED  BY <1>1, <1>2 DEF IngestInv

(* The steps that announce something of one session. *)
LEMMA AnnouncingStep ==
  ASSUME IngestInv, NEW c \in CMAFIds, StartIngest(c) \/ FailureClosed(c) \/ StopClosed(c) PROVE IngestInv'
<1>1. PICK type \in {"start", "stop", "error"} :
        /\ QueueBufferEvent(type, c)
        /\ type = "start" => /\ ~cmaf[c].started
                             /\ cmaf' = [cmaf EXCEPT ![c].started = TRUE]
        /\ type = "error" => /\ cmaf[c].pushing = "close"
                             /\ cmaf' = [cmaf EXCEPT ![c].pushing = "nothing"]
        /\ type = "stop" => /\ cmaf[c].stopping = "close"
                            /\ cmaf' = [cmaf EXCEPT ![c].stopping = "nothing"]
  BY DEF StartIngest, FailureClosed, StopClosed
<1>2. /\ event_seq \in Nat /\ happened \in Seq(Event)
      /\ cmaf \in [CMAFIds -> Ingest] /\ EndsOnce(c) /\ cmaf[c] \in Ingest
  BY DEF IngestInv, IngestTypeOK
<1>3. IngestTypeOK'
  <2>1. [number |-> event_seq + 1, type |-> type, of |-> c] \in Event
    BY <1>2 DEF Event
  <2>2. event_seq' \in Nat /\ happened' \in Seq(Event)
    <3>1. QueueBufferEvent(type, c)
      BY <1>1
    <3> QED  BY <1>2, <2>1, <3>1 DEF QueueBufferEvent
  <2>3. cmaf' \in [CMAFIds -> Ingest]
    <3>1. CASE type = "start"
      <4>1. [cmaf[c] EXCEPT !.started = TRUE] \in Ingest
        BY <1>2 DEF Ingest
      <4> QED  BY <1>1, <1>2, <3>1, <4>1
    <3>2. CASE type = "error"
      BY <1>1, <1>2, <3>2 DEF Ingest
    <3>3. CASE type = "stop"
      BY <1>1, <1>2, <3>3 DEF Ingest
    <3> QED  BY <3>1, <3>2, <3>3
  <2> QED  BY <2>2, <2>3 DEF IngestTypeOK
<1>4. /\ Len(happened') = Len(happened) + 1 /\ Len(happened) \in Nat
      /\ StartsOf(c)' = IF type = "start" THEN StartsOf(c) \cup {Len(happened) + 1} ELSE StartsOf(c)
      /\ EndsOf(c)' = IF type = "start" THEN EndsOf(c) ELSE EndsOf(c) \cup {Len(happened) + 1}
  <2>1. QueueBufferEvent(type, c)
    BY <1>1
  <2>2. type = "start" \/ type = "stop" \/ type = "error"
    OBVIOUS
  <2> QED  BY <1>2, <2>1, <2>2, AppendAnnounces
<1>6. EndsOnce(c)'
  <2>1. CASE type = "start"
    <3>1. cmaf'[c] = [cmaf[c] EXCEPT !.started = TRUE] /\ ~cmaf[c].started
      BY <1>1, <1>2, <2>1
    <3>2. EndsOf(c)' = EndsOf(c) /\ StartsOf(c)' = {Len(happened) + 1}
      BY <1>2, <1>4, <2>1, <3>1 DEF EndsOnce
    <3>3. \E n \in 1 .. Len(happened') : StartsOf(c)' = {n}
      BY <1>4, <3>2
    <3>4. /\ cmaf'[c].started /\ cmaf'[c].closed = cmaf[c].closed /\ cmaf'[c].mute = cmaf[c].mute
          /\ cmaf'[c].pushing = cmaf[c].pushing /\ cmaf'[c].stopping = cmaf[c].stopping
      BY <1>2, <3>1 DEF Ingest
    <3>5. \A n \in 1 .. Len(happened) : n \in 1 .. Len(happened')
      BY <1>4
    <3> QED  BY <1>2, <3>2, <3>3, <3>4, <3>5, Zenon DEF EndsOnce
  <2>2. CASE type = "error"
    <3>1. /\ cmaf'[c] = [cmaf[c] EXCEPT !.pushing = "nothing"] /\ cmaf[c].closed /\ ~cmaf[c].mute
          /\ cmaf[c].stopping # "close" /\ EndsOf(c) = {}
      BY <1>1, <1>2, <2>2 DEF EndsOnce, Ingest
    <3>2. /\ cmaf'[c].pushing = "nothing" /\ cmaf'[c].stopping # "close"
          /\ cmaf'[c].closed /\ cmaf'[c].started = cmaf[c].started /\ ~cmaf'[c].mute
      <4>1. DOMAIN cmaf[c] = {"started", "closed", "pushing", "stopping", "mute"}
        BY <1>2 DEF Ingest
      <4> QED  BY <3>1, <4>1, Zenon
    <3>3. \E n \in 1 .. Len(happened') : EndsOf(c)' = {n}
      <4>1. EndsOf(c)' = {Len(happened) + 1}
        BY <1>4, <2>2, <3>1
      <4>2. Len(happened) + 1 \in 1 .. Len(happened')
        BY <1>4
      <4> QED  BY <4>1, <4>2, Zenon
    <3>4. IF ~cmaf'[c].started THEN StartsOf(c)' = {}
          ELSE \E n \in 1 .. Len(happened') : StartsOf(c)' = {n}
      BY <1>2, <1>4, <2>2, <3>2 DEF EndsOnce
    <3> QED  BY <3>2, <3>3, <3>4 DEF EndsOnce
  <2>3. CASE type = "stop"
    <3>1. /\ cmaf'[c] = [cmaf[c] EXCEPT !.stopping = "nothing"] /\ cmaf[c].closed /\ ~cmaf[c].mute
          /\ cmaf[c].pushing # "close" /\ EndsOf(c) = {}
      BY <1>1, <1>2, <2>3 DEF EndsOnce, Ingest
    <3>2. /\ cmaf'[c].stopping = "nothing" /\ cmaf'[c].pushing # "close"
          /\ cmaf'[c].closed /\ cmaf'[c].started = cmaf[c].started /\ ~cmaf'[c].mute
      <4>1. DOMAIN cmaf[c] = {"started", "closed", "pushing", "stopping", "mute"}
        BY <1>2 DEF Ingest
      <4> QED  BY <3>1, <4>1, Zenon
    <3>3. \E n \in 1 .. Len(happened') : EndsOf(c)' = {n}
      <4>1. EndsOf(c)' = {Len(happened) + 1}
        BY <1>4, <2>3, <3>1
      <4>2. Len(happened) + 1 \in 1 .. Len(happened')
        BY <1>4
      <4> QED  BY <4>1, <4>2, Zenon
    <3>4. IF ~cmaf'[c].started THEN StartsOf(c)' = {}
          ELSE \E n \in 1 .. Len(happened') : StartsOf(c)' = {n}
      BY <1>2, <1>4, <2>3, <3>2 DEF EndsOnce
    <3> QED  BY <3>2, <3>3, <3>4 DEF EndsOnce
  <2> QED  BY <2>1, <2>2, <2>3
<1>7. ASSUME NEW d \in CMAFIds, d # c PROVE EndsOnce(d)'
  <2>1. cmaf'[d] = cmaf[d]
    BY <1>1, <1>2, <1>7
  <2> QED  BY <1>1, <1>7, <2>1, OthersKeep
<1> QED  BY <1>3, <1>6, <1>7 DEF IngestInv

(* Motion is announced of the camera, which is no session. *)
LEMMA MotionStep == ASSUME IngestInv, Motion PROVE IngestInv'
<1>1. QueueBufferEvent("motion", "camera") /\ UNCHANGED cmaf
  BY DEF Motion
<1>2. IngestTypeOK'
  <2>1. [number |-> event_seq + 1, type |-> "motion", of |-> "camera"] \in Event
    BY DEF IngestInv, IngestTypeOK, Event
  <2> QED  BY <1>1, <2>1 DEF IngestInv, IngestTypeOK, QueueBufferEvent
<1>3. ASSUME NEW d \in CMAFIds PROVE EndsOnce(d)'
  BY <1>1, ControlsAssumption, OthersKeep
<1> QED  BY <1>2, <1>3 DEF IngestInv

(* Every step keeps the invariant. *)
LEMMA IngestStep == ASSUME IngestInv, [ControlsNext]_controls PROVE IngestInv'
<1>1. ASSUME UNCHANGED <<event_seq, happened, cmaf>> PROVE IngestInv'
  <2>1. IngestTypeOK'
    BY <1>1 DEF IngestInv, IngestTypeOK
  <2> QED  BY <1>1, <2>1, OthersKeep DEF IngestInv
<1>2. CASE Negotiates \/ (\E number \in 1 .. MaxEvents : Acknowledge(number)) \/ (\E limit \in Limits : Query(limit))
  BY <1>1, <1>2 DEF Negotiates, SolicitOffer, ProvideAnswer, EndSession, Acknowledge, Query, buffer
<1>3. CASE Motion
  BY <1>3, MotionStep
<1>4. ASSUME NEW c \in CMAFIds, StartIngest(c) \/ FailureClosed(c) \/ StopClosed(c) PROVE IngestInv'
  BY <1>4, AnnouncingStep
<1>5. ASSUME NEW c \in CMAFIds, Push(c) \/ Uploaded(c) \/ UploadFails(c) \/ StopIngest(c) \/ CloseRaises(c)
      PROVE  IngestInv'
  <2>1. UNCHANGED <<event_seq, happened>>
    BY <1>5 DEF Push, Uploaded, UploadFails, StopIngest, CloseRaises, buffer
  <2> QED  BY <1>5, <2>1, SilentStep
<1>6. CASE UNCHANGED controls
  BY <1>1, <1>6 DEF controls, buffer
<1> QED  BY <1>2, <1>3, <1>4, <1>5, <1>6 DEF ControlsNext, Records

(* What the invariant says of announcements is the property. *)
LEMMA IngestInvImplies == IngestInv => SessionEndsOnce
<1> SUFFICES ASSUME IngestInv, NEW c \in CMAFIds
             PROVE  /\ Cardinality(EndsOf(c)) <= 1 /\ Cardinality(StartsOf(c)) <= 1
                    /\ cmaf[c].closed /\ cmaf[c].pushing # "close" /\ cmaf[c].stopping # "close" =>
                         (EndsOf(c) = {} <=> cmaf[c].mute)
  BY DEF SessionEndsOnce, StartsOf, EndsOf
<1>1. EndsOnce(c)
  BY DEF IngestInv
<1>2. ASSUME NEW S, S = {} \/ \E n \in 1 .. Len(happened) : S = {n} PROVE Cardinality(S) <= 1
  <2>1. CASE S = {}
    BY <2>1, FS_EmptySet
  <2>2. ASSUME NEW n \in 1 .. Len(happened), S = {n} PROVE Cardinality(S) <= 1
    <3>1. Cardinality(S) = 1
      BY <2>2, FS_Singleton
    <3> QED  BY <3>1
  <2> QED  BY <1>2, <2>1, <2>2
<1>3. StartsOf(c) = {} \/ \E n \in 1 .. Len(happened) : StartsOf(c) = {n}
  BY <1>1 DEF EndsOnce
<1>4. EndsOf(c) = {} \/ \E n \in 1 .. Len(happened) : EndsOf(c) = {n}
  BY <1>1 DEF EndsOnce
<1>5. /\ Cardinality(EndsOf(c)) <= 1
      /\ Cardinality(StartsOf(c)) <= 1
  BY <1>2, <1>3, <1>4
<1>6. cmaf[c].closed /\ cmaf[c].pushing # "close" /\ cmaf[c].stopping # "close" =>
        (EndsOf(c) = {} <=> cmaf[c].mute)
  BY <1>1 DEF EndsOnce
<1> QED  BY <1>5, <1>6

(* An ingest session is announced to start and to end at most once each, and *)
(* if its uploader could be closed the end is, whichever of the two tasks    *)
(* closes it and however the upload ends (hksv_cmaf.py:112, :122).           *)
THEOREM SessionsEndOnce == ControlsSpec => []SessionEndsOnce
<1>1. ControlsInit => IngestInv
  BY IngestInit
<1>2. IngestInv /\ [ControlsNext]_controls => IngestInv'
  BY IngestStep
<1> QED  BY <1>1, <1>2, IngestInvImplies, PTL DEF ControlsSpec

----------------------------------------------------------------------------
(* The event queue *)

(* All but the first events are in the queue. *)
Left(gone) ==
  /\ Len(happened) = gone + Len(buffer_events)
  /\ \A i \in 1 .. Len(buffer_events) : buffer_events[i] = happened[gone + i]

(* Events are numbered in the order they happened; the queue holds the last  *)
(* of them, at least those that the controller has not heard, and it has     *)
(* heard a first part of them all.                                           *)
EventsInv ==
  /\ happened \in Seq(Event) /\ buffer_events \in Seq(Event) /\ heard \in Seq(Event)
  /\ event_seq = Len(happened)
  /\ \A n \in 1 .. Len(happened) : happened[n].number = n
  /\ Len(heard) <= Len(happened)
  /\ \A n \in 1 .. Len(heard) : heard[n] = happened[n]
  /\ \E gone \in Nat : gone <= Len(heard) /\ Left(gone)

LEMMA Suffix ==
  ASSUME NEW S, NEW s \in Seq(S), NEW m \in 1 .. Len(s)
  PROVE  /\ SubSeq(s, m, Len(s)) \in Seq(S)
         /\ Len(SubSeq(s, m, Len(s))) = Len(s) - m + 1
         /\ \A i \in 1 .. Len(s) - m + 1 : SubSeq(s, m, Len(s))[i] = s[m + i - 1]
<1>1. Len(s) \in Nat /\ \A i \in m .. Len(s) : s[i] \in S
  OBVIOUS
<1> QED  BY <1>1, SubSeqProperties

(* The queue from a number on: what happened from there on, or from the first *)
(* event that is left.                                                        *)
LEMMA EventsFromThere ==
  ASSUME EventsInv, NEW gone \in Nat, Left(gone), NEW number \in Nat,
         NEW before \in Nat, IF number > gone THEN number = before + 1 ELSE before = gone
  PROVE  /\ EventsFrom(number) \in Seq(Event)
         /\ Len(EventsFrom(number)) = IF before < Len(happened) THEN Len(happened) - before ELSE 0
         /\ \A i \in 1 .. Len(EventsFrom(number)) : EventsFrom(number)[i] = happened[before + i]
<1> DEFINE kept == {n \in 1 .. Len(buffer_events) : buffer_events[n].number >= number}
           first == before - gone + 1
<1>1. /\ Len(happened) \in Nat /\ Len(buffer_events) \in Nat
      /\ Len(happened) = gone + Len(buffer_events) /\ before >= gone
  <2>1. Len(happened) \in Nat /\ Len(buffer_events) \in Nat
    BY DEF EventsInv
  <2>2. Len(happened) = gone + Len(buffer_events)
    BY DEF Left
  <2>3. before >= gone
    OBVIOUS
  <2> QED  BY <2>1, <2>2, <2>3
<1>2. kept = {n \in 1 .. Len(buffer_events) : gone + n >= number}
  <2>1. ASSUME NEW n \in 1 .. Len(buffer_events) PROVE buffer_events[n].number = gone + n
    <3>1. gone + n \in 1 .. Len(happened)
      BY <1>1
    <3>2. buffer_events[n] = happened[gone + n]
      BY DEF Left
    <3> QED  BY <3>1, <3>2 DEF EventsInv
  <2> QED  BY <2>1
<1> HIDE DEF kept
<1>3. CASE before < Len(happened)
  <2>1. first \in kept /\ \A n \in kept : first <= n
    BY <1>1, <1>2, <1>3
  <2>2. Min(kept) = first /\ first \in 1 .. Len(buffer_events)
    <3>1. kept \subseteq Nat /\ kept \subseteq 1 .. Len(buffer_events) /\ first \in Nat
      BY <1>1, <1>2
    <3> HIDE DEF first
    <3>2. Min(kept) \in kept /\ \A n \in kept : Min(kept) <= n
      BY <2>1 DEF Min
    <3>3. Min(kept) <= first /\ first <= Min(kept)
      BY <2>1, <3>2
    <3>4. Min(kept) \in Nat /\ first \in 1 .. Len(buffer_events)
      BY <2>1, <3>1, <3>2
    <3> QED  BY <3>1, <3>3, <3>4
  <2>3. EventsFrom(number) = SubSeq(buffer_events, first, Len(buffer_events))
    BY <2>1, <2>2 DEF EventsFrom, kept
  <2> HIDE DEF first
  <2>4. first \in Nat /\ first = before - gone + 1
    BY <1>1 DEF first
  <2>5. \A i \in first .. Len(buffer_events) : buffer_events[i] = happened[gone + i]
    BY <2>4, <2>2, <1>1 DEF Left
  <2>6. /\ EventsFrom(number) \in Seq(Event)
        /\ Len(EventsFrom(number)) = Len(buffer_events) - first + 1
        /\ \A i \in 1 .. Len(buffer_events) - first + 1 :
             EventsFrom(number)[i] = buffer_events[first + i - 1]
    BY <2>2, <2>3, Suffix DEF EventsInv
  <2>7. Len(buffer_events) - first + 1 = Len(happened) - before
    BY <1>1, <2>4
  <2>8. ASSUME NEW i \in 1 .. Len(EventsFrom(number)) PROVE EventsFrom(number)[i] = happened[before + i]
    <3>1. first + i - 1 \in first .. Len(buffer_events) /\ gone + (first + i - 1) = before + i
      BY <1>1, <2>4, <2>6
    <3>2. EventsFrom(number)[i] = buffer_events[first + i - 1]
      BY <2>6
    <3> QED  BY <3>1, <3>2, <2>5
  <2> QED  BY <1>3, <2>6, <2>7, <2>8
<1>4. CASE ~(before < Len(happened))
  <2>1. kept = {}
    BY <1>1, <1>2, <1>4
  <2>2. EventsFrom(number) = <<>>
    BY <2>1 DEF EventsFrom, kept
  <2> QED  BY <1>4, <2>2
<1> QED  BY <1>3, <1>4

(* A new event gets the next number and is behind the others. *)
LEMMA QueueKeepsEvents ==
  ASSUME EventsInv, NEW type \in {"start", "stop", "error", "motion"},
         NEW of \in CMAFIds \cup {"camera"}, QueueBufferEvent(type, of), UNCHANGED heard
  PROVE  EventsInv'
<1> DEFINE e == [number |-> event_seq + 1, type |-> type, of |-> of]
<1>1. /\ event_seq' = event_seq + 1
      /\ buffer_events' = Append(buffer_events, e) /\ happened' = Append(happened, e)
  BY DEF QueueBufferEvent
<1>2. /\ event_seq = Len(happened) /\ Len(happened) \in Nat /\ Len(buffer_events) \in Nat
      /\ Len(heard) \in Nat /\ Len(heard) <= Len(happened)
      /\ buffer_events \in Seq(Event) /\ happened \in Seq(Event) /\ heard \in Seq(Event)
  BY DEF EventsInv
<1>3. e \in Event /\ e.number = Len(happened) + 1
  BY <1>2 DEF Event
<1> HIDE DEF e
<1>4. /\ buffer_events' \in Seq(Event) /\ happened' \in Seq(Event)
      /\ Len(happened') = Len(happened) + 1 /\ Len(buffer_events') = Len(buffer_events) + 1
      /\ \A n \in 1 .. Len(happened) : happened'[n] = happened[n]
      /\ happened'[Len(happened) + 1] = e
      /\ \A n \in 1 .. Len(buffer_events) : buffer_events'[n] = buffer_events[n]
      /\ buffer_events'[Len(buffer_events) + 1] = e
  BY <1>1, <1>2, <1>3
<1>5. PICK gone \in Nat : gone <= Len(heard) /\ Left(gone)
  BY DEF EventsInv
<1>6. \A n \in 1 .. Len(happened') : happened'[n].number = n
  BY <1>2, <1>3, <1>4 DEF EventsInv
<1>7. Left(gone)'
  <2>1. Len(happened') = gone + Len(buffer_events')
    BY <1>2, <1>4, <1>5 DEF Left
  <2>2. ASSUME NEW i \in 1 .. Len(buffer_events') PROVE buffer_events'[i] = happened'[gone + i]
    <3>1. CASE i = Len(buffer_events) + 1
      <4>1. gone + i = Len(happened) + 1
        BY <1>2, <1>5, <3>1 DEF Left
      <4> QED  BY <4>1, <3>1, <1>4
    <3>2. CASE i \in 1 .. Len(buffer_events)
      <4>1. gone + i \in 1 .. Len(happened)
        BY <1>2, <1>5, <3>2 DEF Left
      <4> QED  BY <4>1, <3>2, <1>4, <1>5 DEF Left
    <3> QED  BY <3>1, <3>2, <1>4, <1>2
  <2> QED  BY <2>1, <2>2 DEF Left
<1>8. \A n \in 1 .. Len(heard) : heard[n] = happened'[n]
  BY <1>2, <1>4, <1>5 DEF EventsInv
<1>9. event_seq' = Len(happened') /\ Len(heard') <= Len(happened') /\ gone <= Len(heard')
  BY <1>1, <1>2, <1>4, <1>5
<1> QED  BY <1>2, <1>4, <1>5, <1>6, <1>7, <1>8, <1>9 DEF EventsInv

(* What is acknowledged has been heard: what has not is kept. *)
LEMMA AcknowledgeKeepsEvents ==
  ASSUME EventsInv, NEW number, Acknowledge(number) PROVE EventsInv'
<1>1. /\ number \in 1 .. Len(heard) /\ buffer_events' = EventsFrom(number + 1)
      /\ UNCHANGED <<event_seq, happened, heard>>
  BY DEF Acknowledge, Unacknowledged
<1>2. PICK gone \in Nat : gone <= Len(heard) /\ Left(gone)
  BY DEF EventsInv
<1>3. /\ Len(heard) \in Nat /\ Len(heard) <= Len(happened)
      /\ Len(happened) \in Nat /\ number \in Nat /\ number + 1 \in Nat
  BY <1>1 DEF EventsInv
<1>4. PICK before \in Nat :
        /\ IF number + 1 > gone THEN number + 1 = before + 1 ELSE before = gone
        /\ before <= Len(heard)
  BY <1>1, <1>2, <1>3
<1>5. /\ EventsFrom(number + 1) \in Seq(Event)
      /\ Len(EventsFrom(number + 1)) = IF before < Len(happened) THEN Len(happened) - before ELSE 0
      /\ \A i \in 1 .. Len(EventsFrom(number + 1)) :
           EventsFrom(number + 1)[i] = happened[before + i]
  BY <1>2, <1>3, <1>4, EventsFromThere
<1>6. Len(buffer_events') = Len(happened) - before
  BY <1>1, <1>3, <1>4, <1>5
<1>7. Left(before)'
  <2>1. Len(happened) = before + Len(buffer_events')
    BY <1>3, <1>4, <1>6
  <2> QED  BY <2>1, <1>1, <1>5 DEF Left
<1> QED  BY <1>1, <1>4, <1>5, <1>7 DEF EventsInv

(* What comes after all that was heard is in the queue. *)
LEMMA QueryKeepsEvents ==
  ASSUME EventsInv, NEW limit \in Limits, Query(limit) PROVE EventsInv'
<1> DEFINE rest == EventsFrom(Len(heard) + 1)
           answer == Queried(Len(heard) + 1, limit)
<1>1. heard' = heard \o answer /\ UNCHANGED <<buffer_events, event_seq, happened>>
  BY DEF Query, buffer
<1>2. PICK gone \in Nat : gone <= Len(heard) /\ Left(gone)
  BY DEF EventsInv
<1>3. /\ Len(heard) \in Nat /\ Len(heard) <= Len(happened)
      /\ Len(happened) \in Nat /\ limit \in Nat /\ heard \in Seq(Event)
  BY ControlsAssumption DEF EventsInv
<1>4. PICK before \in Nat : before = Len(heard)
  BY <1>3
<1>5. /\ rest \in Seq(Event)
      /\ Len(rest) = IF before < Len(happened) THEN Len(happened) - before ELSE 0
      /\ \A i \in 1 .. Len(rest) : rest[i] = happened[before + i]
  <2>1. (IF before + 1 > gone THEN before + 1 = before + 1 ELSE before = gone) /\ before + 1 \in Nat
    BY <1>2, <1>3, <1>4
  <2>2. rest = EventsFrom(before + 1)
    BY <1>4
  <2> HIDE DEF rest
  <2> QED  BY <1>2, <2>1, <2>2, EventsFromThere
<1> HIDE DEF rest
<1>6. PICK k \in Nat : k = Min({limit, Len(rest)}) /\ k <= Len(rest)
  <2>1. limit \in Nat /\ Len(rest) \in Nat
    BY <1>3, <1>5
  <2>2. Min({limit, Len(rest)}) \in {limit, Len(rest)} /\ Min({limit, Len(rest)}) <= Len(rest)
    BY <2>1 DEF Min
  <2> QED  BY <2>1, <2>2
<1>7. answer = SubSeq(rest, 1, k)
  BY <1>6 DEF Queried, rest
<1> HIDE DEF answer
<1>8. answer \in Seq(Event) /\ Len(answer) = k /\ \A i \in 1 .. k : answer[i] = happened[before + i]
  <2>1. \A i \in 1 .. k : rest[i] \in Event
    BY <1>5, <1>6
  <2>2. answer \in Seq(Event) /\ Len(answer) = k /\ \A i \in 1 .. k : answer[i] = rest[i]
    <3>1. 1 \in Int /\ k \in Int /\ (1 <= k => k - 1 + 1 = k) /\ (~(1 <= k) => k = 0) /\ k - 1 + 1 = k
      BY <1>6
    <3>2. \A i \in 1 .. k : 1 + i - 1 = i
      OBVIOUS
    <3> QED  BY <2>1, <3>1, <3>2, <1>7, SubSeqProperties
  <2>3. \A i \in 1 .. k : i \in 1 .. Len(rest)
    BY <1>5, <1>6
  <2> QED  BY <2>2, <2>3, <1>5
<1>9. /\ heard' \in Seq(Event) /\ Len(heard') = before + k
      /\ \A n \in 1 .. before + k : heard'[n] = happened[n]
  <2>1. /\ heard' \in Seq(Event) /\ Len(heard') = before + k
        /\ \A n \in 1 .. before + k :
             heard'[n] = IF n <= before THEN heard[n] ELSE answer[n - before]
    <3>1. /\ heard \o answer \in Seq(Event)
          /\ Len(heard \o answer) = Len(heard) + Len(answer)
          /\ \A n \in 1 .. Len(heard) + Len(answer) :
               (heard \o answer)[n] = IF n <= Len(heard) THEN heard[n] ELSE answer[n - Len(heard)]
      BY <1>3, <1>8, ConcatProperties
    <3>2. Len(heard) = before /\ Len(answer) = k
      BY <1>4, <1>8
    <3> QED  BY <1>1, <3>1, <3>2
  <2>2. ASSUME NEW n \in 1 .. before + k PROVE heard'[n] = happened[n]
    <3>1. CASE n <= before
      BY <1>4, <2>1, <3>1 DEF EventsInv
    <3>2. CASE n > before
      <4>1. n - before \in 1 .. k /\ before + (n - before) = n /\ ~(n <= before)
        BY <3>2
      <4>2. answer[n - before] = happened[n]
        BY <4>1, <1>8
      <4> QED  BY <2>1, <4>1, <4>2
    <3> QED  BY <3>1, <3>2
  <2> QED  BY <2>1, <2>2
<1>10. before + k <= Len(happened) /\ gone <= before + k
  BY <1>2, <1>3, <1>4, <1>5, <1>6
<1>11. Left(gone)'
  BY <1>1, <1>2 DEF Left
<1> QED  BY <1>1, <1>9, <1>10, <1>11 DEF EventsInv

LEMMA SameEvents ==
  ASSUME EventsInv, UNCHANGED <<buffer, heard>> PROVE EventsInv'
BY DEF EventsInv, Left, buffer

LEMMA EventsInit == ASSUME ControlsInit PROVE EventsInv
BY DEF ControlsInit, EventsInv, Left

LEMMA EventsStep == ASSUME EventsInv, [ControlsNext]_controls PROVE EventsInv'
<1>1. CASE Motion
  BY <1>1, QueueKeepsEvents DEF Motion
<1>2. ASSUME NEW number, Acknowledge(number) PROVE EventsInv'
  BY <1>2, AcknowledgeKeepsEvents
<1>3. ASSUME NEW limit \in Limits, Query(limit) PROVE EventsInv'
  BY <1>3, QueryKeepsEvents
<1>4. ASSUME NEW c \in CMAFIds, StartIngest(c) \/ FailureClosed(c) \/ StopClosed(c) PROVE EventsInv'
  <2>1. \E type \in {"start", "stop", "error"} : QueueBufferEvent(type, c) /\ UNCHANGED heard
    BY <1>4 DEF StartIngest, FailureClosed, StopClosed
  <2> QED  BY <2>1, QueueKeepsEvents
<1>5. ASSUME NEW c \in CMAFIds, Push(c) \/ Uploaded(c) \/ UploadFails(c) \/ StopIngest(c) \/ CloseRaises(c)
      PROVE  EventsInv'
  BY <1>5, SameEvents DEF Push, Uploaded, UploadFails, StopIngest, CloseRaises
<1>6. CASE Negotiates
  BY <1>6, SameEvents DEF Negotiates, SolicitOffer, ProvideAnswer, EndSession
<1>7. CASE UNCHANGED controls
  BY <1>7, SameEvents DEF controls
<1> QED  BY <1>1, <1>2, <1>3, <1>4, <1>5, <1>6, <1>7 DEF ControlsNext, Records

(* What was heard is a first part of what happened; the rest is queued. *)
LEMMA EventsInvImplies == EventsInv => NoEventIsMissed
<1> SUFFICES ASSUME EventsInv PROVE NoEventIsMissed
  OBVIOUS
<1>1. PICK gone \in Nat : gone <= Len(heard) /\ Left(gone)
  BY DEF EventsInv
<1>2. /\ Len(heard) \in Nat /\ Len(happened) \in Nat /\ Len(buffer_events) \in Nat
      /\ Len(heard) <= Len(happened) /\ Len(happened) = gone + Len(buffer_events)
  <2>1. Len(happened) = gone + Len(buffer_events)
    BY <1>1 DEF Left
  <2> QED  BY <2>1 DEF EventsInv
<1>3. IsPrefix(heard, happened)
  <2>1. heard \in Seq(Event) /\ happened \in Seq(Event) /\ \A n \in 1 .. Len(heard) : heard[n] = happened[n]
    BY DEF EventsInv
  <2>2. SubSeq(heard, 1, Len(heard)) = heard
    BY <2>1, SubSeqFull
  <2>3. /\ SubSeq(happened, 1, Len(heard)) \in Seq(Event)
        /\ Len(SubSeq(happened, 1, Len(heard))) = Len(heard)
        /\ \A i \in 1 .. Len(heard) : SubSeq(happened, 1, Len(heard))[i] = happened[i]
    <3>1. \A i \in 1 .. Len(heard) : happened[i] \in Event
      BY <1>2, <2>1
    <3>2. Len(heard) - 1 + 1 = Len(heard) /\ (~(1 <= Len(heard)) => Len(heard) = 0)
          /\ \A i \in 1 .. Len(heard) : 1 + i - 1 = i
      BY <1>2
    <3> QED  BY <3>1, <3>2, <1>2, SubSeqProperties
  <2>4. heard = SubSeq(happened, 1, Len(heard))
    BY <2>1, <2>3, SeqEqual
  <2> QED  BY <1>2, <2>2, <2>4 DEF IsPrefix
<1>4. ASSUME NEW n \in Len(heard) + 1 .. Len(happened) PROVE happened[n] \in ToSet(buffer_events)
  <2>1. n - gone \in 1 .. Len(buffer_events) /\ gone + (n - gone) = n
    BY <1>1, <1>2
  <2>2. buffer_events[n - gone] = happened[n]
    BY <1>1, <2>1 DEF Left
  <2> QED  BY <2>1, <2>2 DEF ToSet, EventsInv
<1> QED  BY <1>3, <1>4 DEF NoEventIsMissed

(* A controller that acknowledges only what it has heard hears of every      *)
(* event, once and in order, and what it has not heard is still queued,      *)
(* for any number of events and any limits of its queries (camera.py:1076).  *)
THEOREM EventsReachController == ControlsSpec => []NoEventIsMissed
<1>1. ControlsInit => EventsInv
  BY EventsInit
<1>2. EventsInv /\ [ControlsNext]_controls => EventsInv'
  BY EventsStep
<1> QED  BY <1>1, <1>2, EventsInvImplies, PTL DEF ControlsSpec

----------------------------------------------------------------------------
(* WebRTC sessions, and the types of CameraControls *)

(* Every session that is counted was offered. *)
RegistryInv ==
  /\ IsFiniteSet(offers) /\ offers \subseteq WebRTCIds
  /\ DOMAIN webrtc_sessions \subseteq offers
  /\ \A w \in DOMAIN webrtc_sessions : webrtc_sessions[w] \in {"offered", "active"}
  /\ active_sessions \in 0 .. Cardinality(offers)

LEMMA ActiveAreOffered ==
  ASSUME NEW registry, NEW S, IsFiniteSet(S), DOMAIN registry \subseteq S
  PROVE  Cardinality(Active(registry)) \in 0 .. Cardinality(S)
<1>1. Active(registry) \in SUBSET S
  BY DEF Active
<1>2. IsFiniteSet(Active(registry)) /\ Cardinality(Active(registry)) <= Cardinality(S)
  BY <1>1, FS_Subset
<1>3. Cardinality(Active(registry)) \in Nat /\ Cardinality(S) \in Nat
  BY <1>2, FS_CardinalityType
<1> QED  BY <1>2, <1>3

LEMMA RegistryInit == ASSUME ControlsInit PROVE RegistryInv
<1>1. IsFiniteSet({}) /\ Cardinality({}) = 0
  BY FS_EmptySet
<1> QED  BY <1>1 DEF ControlsInit, RegistryInv

LEMMA RegistryStep == ASSUME RegistryInv, [ControlsNext]_controls PROVE RegistryInv'
<1>1. ASSUME UNCHANGED webrtc PROVE RegistryInv'
  BY <1>1 DEF RegistryInv, webrtc
<1>2. ASSUME NEW w \in WebRTCIds, SolicitOffer(w) PROVE RegistryInv'
  <2>1. /\ IsFiniteSet(offers \cup {w})
        /\ Cardinality(offers \cup {w}) = Cardinality(offers) + 1
        /\ Cardinality(offers) \in Nat
    BY <1>2, FS_AddElement, FS_CardinalityType DEF RegistryInv, SolicitOffer
  <2>2. active_sessions \in 0 .. Cardinality(offers) + 1
    BY <2>1 DEF RegistryInv
  <2> QED  BY <1>2, <2>1, <2>2 DEF RegistryInv, SolicitOffer
<1>3. ASSUME NEW w \in WebRTCIds, ProvideAnswer(w) PROVE RegistryInv'
  <2>1. DOMAIN webrtc_sessions' \subseteq offers /\ UNCHANGED offers
    BY <1>3 DEF RegistryInv, ProvideAnswer
  <2>2. active_sessions' \in 0 .. Cardinality(offers)
    BY <1>3, <2>1, ActiveAreOffered DEF RegistryInv, ProvideAnswer
  <2>3. \A v \in DOMAIN webrtc_sessions' : webrtc_sessions'[v] \in {"offered", "active"}
    BY <1>3 DEF RegistryInv, ProvideAnswer
  <2> QED  BY <2>1, <2>2, <2>3 DEF RegistryInv
<1>4. ASSUME NEW w \in WebRTCIds, EndSession(w) PROVE RegistryInv'
  <2>1. DOMAIN webrtc_sessions' \subseteq offers /\ UNCHANGED offers
    BY <1>4 DEF RegistryInv, EndSession
  <2>2. active_sessions' \in 0 .. Cardinality(offers)
    BY <1>4, <2>1, ActiveAreOffered DEF RegistryInv, EndSession
  <2>3. \A v \in DOMAIN webrtc_sessions' : webrtc_sessions'[v] \in {"offered", "active"}
    BY <1>4 DEF RegistryInv, EndSession
  <2> QED  BY <2>1, <2>2, <2>3 DEF RegistryInv
<1>5. CASE Records
  BY <1>1, <1>5 DEF Records, Motion, Acknowledge, Query, StartIngest, Push, Uploaded, UploadFails,
    StopIngest, FailureClosed, StopClosed, CloseRaises
<1>6. CASE UNCHANGED controls
  BY <1>1, <1>6 DEF controls
<1> QED  BY <1>2, <1>3, <1>4, <1>5, <1>6 DEF ControlsNext, Negotiates

LEMMA ControlsTyped ==
  RegistryInv /\ EventsInv /\ IngestTypeOK => ControlsTypeOK
BY DEF RegistryInv, EventsInv, IngestTypeOK, ControlsTypeOK

(* Every variable of CameraControls has a value of its type. *)
THEOREM ControlsTypeCorrect == ControlsSpec => []ControlsTypeOK
<1>1. ControlsInit => RegistryInv /\ EventsInv /\ IngestInv
  BY RegistryInit, EventsInit, IngestInit
<1>2. RegistryInv /\ EventsInv /\ IngestInv /\ [ControlsNext]_controls
        => RegistryInv' /\ EventsInv' /\ IngestInv'
  BY RegistryStep, EventsStep, IngestStep
<1>3. RegistryInv /\ EventsInv /\ IngestInv => ControlsTypeOK
  BY ControlsTyped DEF IngestInv
<1> QED  BY <1>1, <1>2, <1>3, PTL DEF ControlsSpec

----------------------------------------------------------------------------
(* Sequences *)

LEMMA ElementsOfAppend ==
  ASSUME NEW S, NEW s \in Seq(S), NEW e \in S
  PROVE  /\ Append(s, e) \in Seq(S) /\ Len(Append(s, e)) = Len(s) + 1
         /\ \A i \in 1 .. Len(s) : Append(s, e)[i] = s[i]
         /\ Append(s, e)[Len(s) + 1] = e
         /\ ToSet(Append(s, e)) = ToSet(s) \cup {e}
<1>1. /\ Append(s, e) \in Seq(S) /\ Len(Append(s, e)) = Len(s) + 1 /\ Len(s) \in Nat
      /\ \A i \in 1 .. Len(s) : Append(s, e)[i] = s[i]
      /\ Append(s, e)[Len(s) + 1] = e
      /\ DOMAIN Append(s, e) = 1 .. Len(s) + 1 /\ DOMAIN s = 1 .. Len(s)
  OBVIOUS
<1> DEFINE a == Append(s, e)
<1> HIDE DEF a
<1>2. ToSet(a) = ToSet(s) \cup {e}
  <2>1. \A i \in DOMAIN a : i \in DOMAIN s \/ i = Len(s) + 1
    BY <1>1 DEF a
  <2>2. DOMAIN s \subseteq DOMAIN a /\ Len(s) + 1 \in DOMAIN a
    BY <1>1 DEF a
  <2>3. (\A i \in DOMAIN s : a[i] = s[i]) /\ a[Len(s) + 1] = e
    BY <1>1 DEF a
  <2> QED  BY <2>1, <2>2, <2>3 DEF ToSet
<1> QED  BY <1>1, <1>2 DEF a

LEMMA ElementsOfTail ==
  ASSUME NEW S, NEW s \in Seq(S), s # <<>>
  PROVE  /\ Head(s) \in S /\ Tail(s) \in Seq(S) /\ Head(s) = s[1] /\ 1 \in 1 .. Len(s)
         /\ \A i \in 1 .. Len(Tail(s)) : i + 1 \in 2 .. Len(s) /\ Tail(s)[i] = s[i + 1]
         /\ Head(s) \in ToSet(s) /\ ToSet(Tail(s)) \subseteq ToSet(s)
<1>1. /\ Tail(s) \in Seq(S) /\ Len(Tail(s)) = Len(s) - 1 /\ Len(s) \in Nat \ {0}
      /\ \A i \in 1 .. Len(Tail(s)) : Tail(s)[i] = s[i + 1]
  BY HeadTailProperties, EmptySeq
<1>2. \A i \in 1 .. Len(Tail(s)) : i + 1 \in 2 .. Len(s) /\ i + 1 \in 1 .. Len(s)
  BY <1>1
<1>3. DOMAIN s = 1 .. Len(s) /\ DOMAIN Tail(s) = 1 .. Len(Tail(s))
  BY <1>1
<1>4. Head(s) = s[1] /\ 1 \in 1 .. Len(s)
  BY <1>1
<1> QED  BY <1>1, <1>2, <1>3, <1>4 DEF ToSet

LEMMA ElementsOfConcat ==
  ASSUME NEW S, NEW s \in Seq(S), NEW t \in Seq(S)
  PROVE  s \o t \in Seq(S) /\ ToSet(s \o t) = ToSet(s) \cup ToSet(t)
<1> DEFINE c == s \o t
<1>1. /\ c \in Seq(S) /\ Len(c) = Len(s) + Len(t)
      /\ \A i \in 1 .. Len(s) + Len(t) : c[i] = IF i <= Len(s) THEN s[i] ELSE t[i - Len(s)]
  BY ConcatProperties
<1> HIDE DEF c
<1>2. /\ DOMAIN c = 1 .. Len(s) + Len(t) /\ DOMAIN s = 1 .. Len(s) /\ DOMAIN t = 1 .. Len(t)
      /\ Len(s) \in Nat /\ Len(t) \in Nat
  BY <1>1
<1>3. ASSUME NEW i \in DOMAIN c PROVE c[i] \in ToSet(s) \cup ToSet(t)
  <2>1. CASE i <= Len(s)
    BY <1>1, <1>2, <2>1 DEF ToSet
  <2>2. CASE ~(i <= Len(s))
    <3>1. i - Len(s) \in DOMAIN t /\ c[i] = t[i - Len(s)]
      BY <1>1, <1>2, <2>2
    <3> QED  BY <3>1 DEF ToSet
  <2> QED  BY <2>1, <2>2
<1>4. ASSUME NEW i \in DOMAIN s PROVE s[i] \in ToSet(c)
  <2>1. i \in DOMAIN c /\ c[i] = s[i]
    BY <1>1, <1>2
  <2> QED  BY <2>1 DEF ToSet
<1>5. ASSUME NEW i \in DOMAIN t PROVE t[i] \in ToSet(c)
  <2>1. i + Len(s) \in DOMAIN c /\ ~(i + Len(s) <= Len(s)) /\ i + Len(s) - Len(s) = i
    BY <1>2
  <2>2. c[i + Len(s)] = t[i]
    BY <1>1, <1>2, <2>1
  <2> QED  BY <2>1, <2>2 DEF ToSet
<1>6. ToSet(c) = ToSet(s) \cup ToSet(t)
  BY <1>3, <1>4, <1>5 DEF ToSet
<1> QED  BY <1>1, <1>6 DEF c

LEMMA ElementsOfSetToSeq ==
  ASSUME NEW S, NEW T \in SUBSET S, IsFiniteSet(T)
  PROVE  SetToSeq(T) \in Seq(S) /\ ToSet(SetToSeq(T)) = T
<1> DEFINE n == Cardinality(T)
<1>1. n \in Nat /\ ExistsBijection(1 .. n, T)
  BY FS_CardinalityType
<1>2. PICK f \in Bijection(1 .. n, T) : TRUE
  BY <1>1 DEF ExistsBijection
<1>3. f \in [1 .. n -> T] /\ IsInjective(f)
  BY <1>2 DEF Bijection, Injection
<1>4. SetToSeq(T) \in [1 .. n -> T] /\ IsInjective(SetToSeq(T))
  BY <1>3 DEF SetToSeq
<1> DEFINE g == SetToSeq(T)
<1> HIDE DEF g, n
<1>5. g \in [1 .. n -> T] /\ IsInjective(g) /\ n = Cardinality(T)
  BY <1>4 DEF g, n
<1>6. g \in Injection(1 .. n, T)
  BY <1>5 DEF Injection
<1>7. IsFiniteSet(1 .. n) /\ Cardinality(1 .. n) = n
  BY <1>1, FS_Interval
<1>8. g \in Surjection(1 .. n, T)
  BY <1>5, <1>6, <1>7, FS_Injection
<1>9. g \in Seq(S) /\ DOMAIN g = 1 .. n
  BY <1>1, <1>5 DEF n
<1>10. \A e \in T : \E i \in 1 .. n : g[i] = e
  BY <1>8 DEF Surjection
<1> QED  BY <1>5, <1>9, <1>10 DEF ToSet, g

----------------------------------------------------------------------------
(* The types of the sessions *)

(* A job has a dict exactly if it was given one, and it is there; that only a *)
(* finite number of sessions is there makes stop() a finite step.             *)
TypeInv ==
  /\ TypeOK
  /\ IsFiniteSet(DOMAIN sessions)
  /\ \A q \in ToSet(queue) :
       /\ q.dict \in 0 .. Len(dicts)
       /\ q.kind \in {"tier_start", "gathered_stop"} <=> q.dict # None

Replaced(s, i, e) == [s EXCEPT ![i] = e]

LEMMA DictIsReplaced ==
  ASSUME NEW D \in Seq(Dicts), NEW d \in 1 .. Len(D), NEW e \in Dicts
  PROVE  /\ Replaced(D, d, e) \in Seq(Dicts) /\ Len(Replaced(D, d, e)) = Len(D)
         /\ \A i \in 1 .. Len(D) : Replaced(D, d, e)[i] = IF i = d THEN e ELSE D[i]
BY ExceptSeq DEF Replaced

WithTier(D, d) == [D EXCEPT ![d].tier = TRUE]

OnlyTierSet(D, E, d) ==
  /\ E \in Seq(Dicts) /\ Len(E) = Len(D)
  /\ \A i \in 1 .. Len(D) : /\ E[i].id = D[i].id /\ E[i].stream = D[i].stream
                            /\ E[i].process = D[i].process
                            /\ E[i].tier => D[i].tier \/ i = d

LEMMA TierIsSet ==
  ASSUME NEW D \in Seq(Dicts), NEW d \in 1 .. Len(D)
  PROVE  OnlyTierSet(D, WithTier(D, d), d)
<1> DEFINE E == WithTier(D, d)
<1>0. E = WithTier(D, d)
  OBVIOUS
<1> HIDE DEF E
<1> DEFINE e == [D[d] EXCEPT !.tier = TRUE]
<1>1. D[d] \in Dicts
  OBVIOUS
<1>2. e \in Dicts /\ e.id = D[d].id /\ e.stream = D[d].stream /\ e.process = D[d].process
  BY <1>1 DEF Dicts
<1>3. E = Replaced(D, d, e)
  BY <1>0 DEF Replaced, WithTier
<1> HIDE DEF e
<1>4. /\ E \in Seq(Dicts) /\ Len(E) = Len(D)
      /\ \A i \in 1 .. Len(D) : E[i] = IF i = d THEN e ELSE D[i]
  <2>1. e \in Dicts
    BY <1>2
  <2>2. /\ Replaced(D, d, e) \in Seq(Dicts) /\ Len(Replaced(D, d, e)) = Len(D)
        /\ \A i \in 1 .. Len(D) : Replaced(D, d, e)[i] = IF i = d THEN e ELSE D[i]
    BY <2>1, DictIsReplaced
  <2> QED  BY <2>2, <1>3
<1>5. ASSUME NEW i \in 1 .. Len(D), E[i].tier PROVE D[i].tier \/ i = d
  <2>1. CASE i # d
    <3>1. E[i] = D[i]
      BY <1>4, <2>1
    <3> QED  BY <3>1, <1>5, Zenon
  <2> QED  BY <2>1
<1>6. ASSUME NEW i \in 1 .. Len(D)
      PROVE  E[i].id = D[i].id /\ E[i].stream = D[i].stream /\ E[i].process = D[i].process
  BY <1>2, <1>4
<1>7. OnlyTierSet(D, E, d)
  BY <1>4, <1>5, <1>6, Zenon DEF OnlyTierSet
<1> QED  BY <1>0, <1>7

WithProcess(D, d, p) == [D EXCEPT ![d].process = p]

OnlyProcessSet(D, E, d, p) ==
  /\ E \in Seq(Dicts) /\ Len(E) = Len(D)
  /\ \A i \in 1 .. Len(D) : /\ E[i].id = D[i].id /\ E[i].stream = D[i].stream
                            /\ E[i].tier = D[i].tier
                            /\ E[i].process = IF i = d THEN p ELSE D[i].process

LEMMA ProcessIsSet ==
  ASSUME NEW D \in Seq(Dicts), NEW d \in 1 .. Len(D), NEW p \in Nat
  PROVE  OnlyProcessSet(D, WithProcess(D, d, p), d, p)
<1> DEFINE e == [D[d] EXCEPT !.process = p]
           E == WithProcess(D, d, p)
<1>1. D[d] \in Dicts
  OBVIOUS
<1>2. e \in Dicts /\ e.id = D[d].id /\ e.stream = D[d].stream /\ e.tier = D[d].tier /\ e.process = p
  BY <1>1 DEF Dicts
<1>3. E = [D EXCEPT ![d] = e]
  BY DEF WithProcess
<1> HIDE DEF e, E
<1>4. /\ E \in Seq(Dicts) /\ Len(E) = Len(D)
      /\ \A i \in 1 .. Len(D) : E[i] = IF i = d THEN e ELSE D[i]
  BY <1>2, <1>3, ExceptSeq
<1>5. OnlyProcessSet(D, E, d, p)
  BY <1>2, <1>4 DEF OnlyProcessSet
<1> QED  BY <1>5 DEF E

WithState(C, p, state) == [C EXCEPT ![p].state = state]

OnlyStateSet(C, E, p, state) ==
  /\ E \in Seq(Encoders) /\ Len(E) = Len(C)
  /\ \A i \in 1 .. Len(C) : E[i].state = IF i = p THEN state ELSE C[i].state

LEMMA StateIsSet ==
  ASSUME NEW C \in Seq(Encoders), NEW p \in 1 .. Len(C),
         NEW state \in {"spawning", "running", "terminated", "ended"}
  PROVE  OnlyStateSet(C, WithState(C, p, state), p, state)
<1> DEFINE e == [C[p] EXCEPT !.state = state]
           E == WithState(C, p, state)
<1>1. C[p] \in Encoders
  OBVIOUS
<1>2. e \in Encoders /\ e.state = state
  BY <1>1 DEF Encoders
<1>3. E = [C EXCEPT ![p] = e]
  BY DEF WithState
<1> HIDE DEF e, E
<1>4. /\ E \in Seq(Encoders) /\ Len(E) = Len(C)
      /\ \A i \in 1 .. Len(C) : E[i] = IF i = p THEN e ELSE C[i]
  BY <1>2, <1>3, ExceptSeq
<1>5. OnlyStateSet(C, E, p, state)
  BY <1>2, <1>4 DEF OnlyStateSet
<1> QED  BY <1>5 DEF E

LEMMA LengthsAreNat == ASSUME TypeInv PROVE Len(dicts) \in Nat /\ Len(encoders) \in Nat
BY DEF TypeInv, TypeOK

(* The next job, and what is queued behind it. *)
LEMMA NextJob ==
  ASSUME TypeInv, NEW job, NEW changed, Begun(job, changed)
  PROVE  /\ job \in Jobs /\ job \in ToSet(queue) /\ job = queue[1] /\ 1 \in 1 .. Len(queue)
         /\ queue' \in Seq(Jobs) /\ ToSet(queue') \subseteq ToSet(queue)
         /\ \A i \in 1 .. Len(queue') : i + 1 \in 2 .. Len(queue) /\ queue'[i] = queue[i + 1]
         /\ HasDict(job) => DictOf(job) \in 1 .. Len(dicts)
<1>1. queue \in Seq(Jobs) /\ queue # <<>> /\ job = Head(queue) /\ queue' = Tail(queue)
  BY DEF TypeInv, TypeOK, Begun
<1>2. job \in Jobs /\ job \in ToSet(queue)
  BY <1>1, ElementsOfTail
<1>3. HasDict(job) => DictOf(job) \in 1 .. Len(dicts)
  <2>1. job.dict \in 0 .. Len(dicts) /\ \A id \in DOMAIN sessions : sessions[id] \in 1 .. Len(dicts)
    BY <1>2 DEF TypeInv, TypeOK
  <2> QED  BY <2>1, LengthsAreNat DEF HasDict, DictOf, None
<1> QED  BY <1>1, <1>2, <1>3, ElementsOfTail

(* The encoder of a dict, when it has one. *)
LEMMA ProcessIsThere ==
  ASSUME TypeInv, NEW d \in 1 .. Len(dicts), dicts[d].process # None
  PROVE  dicts[d].process \in 1 .. Len(encoders)
<1>1. dicts[d].process \in 0 .. Len(encoders)
  BY DEF TypeInv, TypeOK
<1> QED  BY <1>1, LengthsAreNat DEF None

LEMMA TypeParts ==
  ASSUME TypeInv
  PROVE  /\ DOMAIN sessions \subseteq Ids /\ \A id \in DOMAIN sessions : sessions[id] \in 1 .. Len(dicts)
         /\ dicts \in Seq(Dicts) /\ encoders \in Seq(Encoders) /\ queue \in Seq(Jobs)
         /\ \A d \in 1 .. Len(dicts) : dicts[d].process \in 0 .. Len(encoders)
         /\ status \in [Streams -> {"AVAILABLE", "STREAMING"}]
         /\ Len(dicts) \in Nat /\ Len(encoders) \in Nat
BY DEF TypeInv, TypeOK

LEMMA EncoderIsSet ==
  ASSUME TypeInv, NEW p \in 1 .. Len(encoders),
         NEW state \in {"spawning", "running", "terminated", "ended"},
         encoders' = WithState(encoders, p, state)
  PROVE  /\ encoders' \in Seq(Encoders) /\ Len(encoders') = Len(encoders)
         /\ \A i \in 1 .. Len(encoders) :
              encoders'[i].state = IF i = p THEN state ELSE encoders[i].state
<1>1. encoders \in Seq(Encoders)
  BY TypeParts
<1>2. OnlyStateSet(encoders, WithState(encoders, p, state), p, state)
  BY <1>1, StateIsSet
<1>3. OnlyStateSet(encoders, encoders', p, state)
  BY <1>2
<1> QED  BY <1>3 DEF OnlyStateSet

LEMMA TypeSetEndpoints ==
  ASSUME TypeInv, NEW id \in Ids, NEW stream \in Streams, SetEndpoints(id, stream) PROVE TypeInv'
<1> DEFINE e == [id |-> id, stream |-> stream, tier |-> FALSE, process |-> None]
<1>1. /\ dicts' = Append(dicts, e) /\ sessions' = Named(id, Len(dicts'))
      /\ UNCHANGED <<encoders, status, queue, tasks, listener, phase>>
      /\ orderly \in BOOLEAN /\ orderly' \in BOOLEAN
  BY DEF SetEndpoints, TypeInv, TypeOK
<1>2. e \in Dicts /\ e.process = 0
  BY DEF Dicts, None
<1> HIDE DEF e
<1>3. /\ dicts' \in Seq(Dicts) /\ Len(dicts') = Len(dicts) + 1
      /\ \A i \in 1 .. Len(dicts) : dicts'[i] = dicts[i]
      /\ dicts'[Len(dicts) + 1] = e
  <2>1. dicts \in Seq(Dicts)
    BY TypeParts
  <2> QED  BY <1>1, <1>2, <2>1, ElementsOfAppend
<1>4. /\ DOMAIN sessions' = DOMAIN sessions \cup {id}
      /\ \A i \in DOMAIN sessions' : sessions'[i] = IF i = id THEN Len(dicts') ELSE sessions[i]
  BY <1>1 DEF Named
<1>5. IsFiniteSet(DOMAIN sessions')
  BY <1>4, FS_AddElement DEF TypeInv
<1>6. \A i \in DOMAIN sessions' : sessions'[i] \in 1 .. Len(dicts')
  BY <1>3, <1>4, TypeParts
<1>7. \A d \in 1 .. Len(dicts') : dicts'[d].process \in 0 .. Len(encoders')
  <2>1. \A d \in 1 .. Len(dicts) + 1 : d \in 1 .. Len(dicts) \/ d = Len(dicts) + 1
    BY TypeParts
  <2> QED  BY <1>1, <1>2, <1>3, <2>1, TypeParts
<1>8. \A t \in tasks' : t.job \in Jobs /\ t.dict \in 1 .. Len(dicts') /\ t.encoder \in 1 .. Len(encoders')
  BY <1>1, <1>3, TypeParts DEF TypeInv, TypeOK
<1>9. \A q \in ToSet(queue') : /\ q.dict \in 0 .. Len(dicts')
                               /\ q.kind \in {"tier_start", "gathered_stop"} <=> q.dict # None
  BY <1>1, <1>3, TypeParts DEF TypeInv
<1>10. DOMAIN sessions' \subseteq Ids
  BY <1>4, TypeParts
<1> QED  BY <1>1, <1>3, <1>5, <1>6, <1>7, <1>8, <1>9, <1>10 DEF TypeInv, TypeOK

(* Adding a job to the queue. *)
LEMMA TypeAddJob ==
  ASSUME TypeInv, NEW job \in Jobs, job.dict \in 0 .. Len(dicts),
         job.kind \in {"tier_start", "gathered_stop"} <=> job.dict # None,
         queue' = Append(queue, job),
         UNCHANGED <<sessions, encoders, status, tasks, listener, phase>>,
         orderly' \in BOOLEAN,
         dicts' \in Seq(Dicts), Len(dicts') = Len(dicts),
         \A d \in 1 .. Len(dicts) : dicts'[d].process = dicts[d].process
  PROVE  TypeInv'
<1>1. queue' \in Seq(Jobs) /\ ToSet(queue') = ToSet(queue) \cup {job}
  BY TypeParts, ElementsOfAppend
<1>2. \A q \in ToSet(queue') : /\ q.dict \in 0 .. Len(dicts')
                               /\ q.kind \in {"tier_start", "gathered_stop"} <=> q.dict # None
  BY <1>1 DEF TypeInv
<1>3. \A t \in tasks' : t.job \in Jobs /\ t.dict \in 1 .. Len(dicts') /\ t.encoder \in 1 .. Len(encoders')
  BY DEF TypeInv, TypeOK
<1>4. \A d \in 1 .. Len(dicts') : dicts'[d].process \in 0 .. Len(encoders')
  BY TypeParts
<1> QED  BY <1>1, <1>2, <1>3, <1>4 DEF TypeInv, TypeOK

(* A step that takes from what is there, and at most adds an encoder and a task. *)
LEMMA TypeShrink ==
  ASSUME TypeInv,
         DOMAIN sessions' \subseteq DOMAIN sessions,
         \A id \in DOMAIN sessions' : sessions'[id] = sessions[id],
         dicts' \in Seq(Dicts), Len(dicts') = Len(dicts),
         encoders' \in Seq(Encoders), Len(encoders) <= Len(encoders'),
         \A d \in 1 .. Len(dicts) : dicts'[d].process \in 0 .. Len(encoders'),
         status' \in [Streams -> {"AVAILABLE", "STREAMING"}],
         queue' \in Seq(Jobs), ToSet(queue') \subseteq ToSet(queue),
         \A t \in tasks' : t \in tasks \/ (/\ t.job \in Jobs /\ t.dict \in 1 .. Len(dicts)
                                           /\ t.encoder \in 1 .. Len(encoders')),
         listener' \in BOOLEAN, orderly' \in BOOLEAN,
         phase' \in {"up", "stopping", "stopped", "failed"}
  PROVE  TypeInv'
<1>1. IsFiniteSet(DOMAIN sessions')
  BY FS_Subset DEF TypeInv
<1>2. \A id \in DOMAIN sessions' : sessions'[id] \in 1 .. Len(dicts')
  BY TypeParts
<1>3. DOMAIN sessions' \subseteq Ids
  BY TypeParts
<1>4. \A q \in ToSet(queue') : /\ q.dict \in 0 .. Len(dicts')
                               /\ q.kind \in {"tier_start", "gathered_stop"} <=> q.dict # None
  BY DEF TypeInv
<1>5. ASSUME NEW t \in tasks'
      PROVE  t.job \in Jobs /\ t.dict \in 1 .. Len(dicts') /\ t.encoder \in 1 .. Len(encoders')
  <2>1. CASE t \in tasks
    <3>1. t.job \in Jobs /\ t.dict \in 1 .. Len(dicts) /\ t.encoder \in 1 .. Len(encoders)
      BY <2>1 DEF TypeInv, TypeOK
    <3>2. Len(encoders) \in Nat /\ Len(encoders') \in Nat
      BY TypeParts
    <3> QED  BY <3>1, <3>2
  <2>2. CASE t \notin tasks
    BY <2>2
  <2> QED  BY <2>1, <2>2
<1> QED  BY <1>1, <1>2, <1>3, <1>4, <1>5 DEF TypeInv, TypeOK

LEMMA Flags ==
  ASSUME TypeInv
  PROVE  listener \in BOOLEAN /\ orderly \in BOOLEAN /\ phase \in {"up", "stopping", "stopped", "failed"}
BY DEF TypeInv, TypeOK

LEMMA SomethingIsLeft ==
  ASSUME NEW id
  PROVE  /\ DOMAIN Without(id) = DOMAIN sessions \ {id}
         /\ \A i \in DOMAIN Without(id) : Without(id)[i] = sessions[i]
BY DEF Without

LEMMA Deletes ==
  ASSUME TypeInv, NEW id, NEW stream \in Streams, Delete(id, stream)
  PROVE  /\ DOMAIN sessions' = DOMAIN sessions \ {id}
         /\ \A i \in DOMAIN sessions' : sessions'[i] = sessions[i]
         /\ status' \in [Streams -> {"AVAILABLE", "STREAMING"}]
         /\ \A s \in Streams : status'[s] = "STREAMING" => status[s] = "STREAMING"
         /\ id \in DOMAIN sessions => status'[stream] = "AVAILABLE"
<1>1. CASE id \in DOMAIN sessions
  BY <1>1, SomethingIsLeft, TypeParts DEF Delete
<1>2. CASE id \notin DOMAIN sessions
  BY <1>2, TypeParts DEF Delete
<1> QED  BY <1>1, <1>2

LEMMA StreamOfDict == ASSUME TypeInv, NEW d \in 1 .. Len(dicts) PROVE dicts[d].stream \in Streams
<1>1. dicts[d] \in Dicts
  BY TypeParts
<1> QED  BY <1>1 DEF Dicts

LEMMA AfterStopShrinks ==
  ASSUME TypeInv, NEW job \in Jobs, job.kind \in Stops, NEW stream \in Streams,
         AfterStop(job, stream)
  PROVE  /\ DOMAIN sessions' = IF job.kind = "gathered_stop" THEN DOMAIN sessions
                               ELSE DOMAIN sessions \ {job.id}
         /\ \A id \in DOMAIN sessions' : sessions'[id] = sessions[id]
         /\ status' \in [Streams -> {"AVAILABLE", "STREAMING"}]
         /\ \A s \in Streams : status'[s] = "STREAMING" => status[s] = "STREAMING"
         /\ job.kind = "stop" /\ job.id \in DOMAIN sessions => status'[stream] = "AVAILABLE"
<1>1. CASE job.kind = "stop"
  <2>1. Delete(job.id, stream)
    BY <1>1 DEF AfterStop
  <2> QED  BY <1>1, <2>1, Deletes
<1>2. CASE job.kind = "tier_stop"
  <2>1. sessions' = Without(job.id) /\ status' = [status EXCEPT ![stream] = "AVAILABLE"]
    BY <1>2 DEF AfterStop
  <2> QED  BY <1>2, <2>1, SomethingIsLeft, TypeParts
<1>3. CASE job.kind = "gathered_stop"
  <2>1. UNCHANGED <<sessions, status>>
    BY <1>3 DEF AfterStop
  <2> QED  BY <1>3, <2>1, TypeParts
<1> QED  BY <1>1, <1>2, <1>3 DEF Stops

LEMMA SessionsForShrinks ==
  ASSUME NEW job, sessions' = SessionsFor(job)
  PROVE  /\ DOMAIN sessions' = IF job.kind = "tier_stop" THEN DOMAIN sessions \ {job.id}
                               ELSE DOMAIN sessions
         /\ \A id \in DOMAIN sessions' : sessions'[id] = sessions[id]
BY SomethingIsLeft DEF SessionsFor

----------------------------------------------------------------------------
(* What the steps do, one lemma for each, and that they keep the types *)

LEMMA DoesSelect ==
  ASSUME TypeInv, NEW kind \in {"start", "stop", "reconfigure"}, NEW id \in Ids,
         SetSelectedStreamConfiguration(kind, id)
  PROVE  TypeInv' /\ queue' = Append(queue, Job(kind, id, None)) /\ Job(kind, id, None) \in Jobs
<1>1. Job(kind, id, None) \in Jobs
  BY DEF Job, Jobs, Starts, Stops, None
<1>2. /\ Job(kind, id, None).dict = 0 /\ Job(kind, id, None).kind = kind
  BY DEF Job, None
<1>3. /\ queue' = Append(queue, Job(kind, id, None))
      /\ UNCHANGED <<sessions, dicts, encoders, status, tasks, listener, phase>>
      /\ orderly' \in BOOLEAN
  BY Flags DEF SetSelectedStreamConfiguration, AddJob
<1>4. Job(kind, id, None).dict \in 0 .. Len(dicts)
  BY <1>2, TypeParts
<1>5. Job(kind, id, None).kind \in {"tier_start", "gathered_stop"} <=> Job(kind, id, None).dict # None
  BY <1>2 DEF None
<1>6. dicts' \in Seq(Dicts) /\ Len(dicts') = Len(dicts)
      /\ \A d \in 1 .. Len(dicts) : dicts'[d].process = dicts[d].process
  BY <1>3, TypeParts
<1>7. TypeInv'
  BY <1>1, <1>3, <1>4, <1>5, <1>6, TypeAddJob
<1> QED  BY <1>1, <1>3, <1>7

LEMMA DoesStartTier ==
  ASSUME TypeInv, NEW id \in Ids, StartTierStream(id)
  PROVE  /\ TypeInv' /\ id \in DOMAIN sessions
         /\ queue' = Append(queue, Job("tier_start", id, sessions[id]))
         /\ Job("tier_start", id, sessions[id]) \in Jobs
         /\ dicts' \in Seq(Dicts) /\ Len(dicts') = Len(dicts)
         /\ \A d \in 1 .. Len(dicts) :
              /\ dicts'[d].id = dicts[d].id /\ dicts'[d].stream = dicts[d].stream
              /\ dicts'[d].process = dicts[d].process
              /\ dicts'[d].tier => dicts[d].tier \/ d = sessions[id]
<1> DEFINE job == Job("tier_start", id, sessions[id])
<1>1. /\ id \in DOMAIN sessions /\ queue' = Append(queue, job)
      /\ dicts' = WithTier(dicts, sessions[id])
      /\ UNCHANGED <<sessions, encoders, status, tasks, listener, phase>>
      /\ orderly' \in BOOLEAN
  BY Flags DEF StartTierStream, AddJob, WithTier
<1>2. sessions[id] \in 1 .. Len(dicts) /\ dicts \in Seq(Dicts) /\ Len(dicts) \in Nat
  BY <1>1, TypeParts
<1>3. job \in Jobs /\ job.dict = sessions[id] /\ job.kind = "tier_start"
  BY <1>2 DEF Job, Jobs, Starts, Stops
<1>4. /\ dicts' \in Seq(Dicts) /\ Len(dicts') = Len(dicts)
      /\ \A d \in 1 .. Len(dicts) :
           /\ dicts'[d].id = dicts[d].id /\ dicts'[d].stream = dicts[d].stream
           /\ dicts'[d].process = dicts[d].process
           /\ dicts'[d].tier => dicts[d].tier \/ d = sessions[id]
  <2>1. dicts' = WithTier(dicts, sessions[id])
    BY <1>1
  <2>2. sessions[id] \in 1 .. Len(dicts)
    BY <1>2
  <2>3. dicts \in Seq(Dicts)
    BY <1>2
  <2>4. OnlyTierSet(dicts, WithTier(dicts, sessions[id]), sessions[id])
    BY <2>2, <2>3, TierIsSet
  <2>5. OnlyTierSet(dicts, dicts', sessions[id])
    BY <2>1, <2>4
  <2> QED  BY <2>5, Zenon DEF OnlyTierSet
<1>5. job.dict \in 0 .. Len(dicts) /\ (job.kind \in {"tier_start", "gathered_stop"} <=> job.dict # None)
  BY <1>2, <1>3 DEF None
<1> HIDE DEF job
<1>6. \A d \in 1 .. Len(dicts) : dicts'[d].process = dicts[d].process
  BY <1>4, Zenon
<1>7. dicts' \in Seq(Dicts) /\ Len(dicts') = Len(dicts)
  BY <1>4, Zenon
<1>8. TypeInv'
  BY <1>1, <1>3, <1>5, <1>6, <1>7, TypeAddJob
<1> QED  BY <1>1, <1>3, <1>4, <1>8, Zenon DEF job

LEMMA DoesEndTier ==
  ASSUME TypeInv, NEW id \in Ids, EndTierStream(id)
  PROVE  /\ TypeInv' /\ queue' = Append(queue, Job("tier_stop", id, None))
         /\ Job("tier_stop", id, None) \in Jobs
<1> DEFINE job == Job("tier_stop", id, None)
<1>1. job \in Jobs /\ job.dict = 0 /\ job.kind = "tier_stop"
  BY DEF Job, Jobs, Starts, Stops, None
<1>2. /\ queue' = Append(queue, job)
      /\ UNCHANGED <<sessions, dicts, encoders, status, tasks, listener, phase>>
      /\ orderly' \in BOOLEAN
  BY Flags DEF EndTierStream, AddJob
<1> HIDE DEF job
<1>3. job.dict \in 0 .. Len(dicts) /\ (job.kind \in {"tier_start", "gathered_stop"} <=> job.dict # None)
  BY <1>1, TypeParts DEF None
<1>4. dicts' \in Seq(Dicts) /\ Len(dicts') = Len(dicts)
      /\ \A d \in 1 .. Len(dicts) : dicts'[d].process = dicts[d].process
  BY <1>2, TypeParts
<1>5. TypeInv'
  BY <1>1, <1>2, <1>3, <1>4, TypeAddJob
<1> QED  BY <1>1, <1>2, <1>5 DEF job

LEMMA TypeAvailable ==
  ASSUME TypeInv, NEW stream \in Streams, SetStreamingAvailable(stream) PROVE TypeInv'
<1>1. status' \in [Streams -> {"AVAILABLE", "STREAMING"}]
  BY TypeParts DEF SetStreamingAvailable
<1> QED  BY <1>1 DEF SetStreamingAvailable, TypeInv, TypeOK

LEMMA TypeFindsNothing == ASSUME TypeInv, NEW job, FindsNothing(job) PROVE TypeInv'
<1>1. queue' \in Seq(Jobs) /\ ToSet(queue') \subseteq ToSet(queue)
  BY NextJob DEF FindsNothing
<1>2. UNCHANGED <<sessions, dicts, encoders, status, tasks, listener, phase, orderly>>
  BY DEF FindsNothing, Begun
<1>3. Len(encoders) <= Len(encoders)
  BY TypeParts
<1> QED  BY <1>1, <1>2, <1>3, TypeParts, Flags, TypeShrink

LEMMA DoesBeginStart ==
  ASSUME TypeInv, NEW job, BeginStart(job)
  PROVE  /\ TypeInv'
         /\ encoders' \in Seq(Encoders) /\ Len(encoders') = Len(encoders) + 1
         /\ \A p \in 1 .. Len(encoders) : encoders'[p] = encoders[p]
         /\ encoders'[Len(encoders) + 1].state = "spawning"
         /\ tasks' = tasks \cup {Awaiting(job, Len(encoders) + 1)}
<1> DEFINE e == [state |-> "spawning", dict |-> DictOf(job)]
           u == Awaiting(job, Len(encoders) + 1)
<1>1. HasDict(job) /\ encoders' = Append(encoders, e) /\ tasks' = tasks \cup {Awaiting(job, Len(encoders'))}
      /\ UNCHANGED <<sessions, dicts, status, listener, phase, orderly>>
  BY DEF BeginStart, Begun
<1>2. job \in Jobs /\ queue' \in Seq(Jobs) /\ ToSet(queue') \subseteq ToSet(queue)
      /\ DictOf(job) \in 1 .. Len(dicts)
  BY <1>1, NextJob DEF BeginStart
<1>3. e \in Encoders /\ e.state = "spawning"
  BY <1>2, TypeParts DEF Encoders
<1> HIDE DEF e
<1>4. /\ encoders' \in Seq(Encoders) /\ Len(encoders') = Len(encoders) + 1
      /\ \A p \in 1 .. Len(encoders) : encoders'[p] = encoders[p]
      /\ encoders'[Len(encoders) + 1] = e
  BY <1>1, <1>3, TypeParts, ElementsOfAppend
<1>5. u.job \in Jobs /\ u.dict \in 1 .. Len(dicts) /\ u.encoder \in 1 .. Len(encoders')
  BY <1>2, <1>4, TypeParts DEF Awaiting
<1>6. tasks' = tasks \cup {u}
  BY <1>1, <1>4
<1> HIDE DEF u
<1>7. \A d \in 1 .. Len(dicts) : dicts'[d].process \in 0 .. Len(encoders')
  BY <1>1, <1>4, TypeParts
<1>8. Len(encoders) <= Len(encoders')
  BY <1>4, TypeParts
<1>9. \A t \in tasks' : t \in tasks \/ (/\ t.job \in Jobs /\ t.dict \in 1 .. Len(dicts)
                                        /\ t.encoder \in 1 .. Len(encoders'))
  BY <1>5, <1>6
<1>10. TypeInv'
  BY <1>1, <1>2, <1>4, <1>7, <1>8, <1>9, TypeParts, Flags, TypeShrink
<1> QED  BY <1>3, <1>4, <1>6, <1>10 DEF u

LEMMA DoesBeginStop ==
  ASSUME TypeInv, NEW job, BeginStop(job), NEW p, p = dicts[DictOf(job)].process
  PROVE  /\ TypeInv'
         /\ p \in 1 .. Len(encoders) /\ DictOf(job) \in 1 .. Len(dicts)
         /\ Len(encoders') = Len(encoders)
         /\ \A i \in 1 .. Len(encoders) :
              encoders'[i].state = IF i = p THEN "terminated" ELSE encoders[i].state
         /\ tasks' = tasks \cup {Awaiting(job, p)}
<1>1. /\ HasDict(job) /\ p # None
      /\ encoders' = [encoders EXCEPT ![p].state = "terminated"]
      /\ tasks' = tasks \cup {Awaiting(job, p)}
      /\ sessions' = SessionsFor(job)
      /\ UNCHANGED <<dicts, status, listener, phase, orderly>>
  BY DEF BeginStop, Begun
<1>2. job \in Jobs /\ queue' \in Seq(Jobs) /\ ToSet(queue') \subseteq ToSet(queue)
      /\ DictOf(job) \in 1 .. Len(dicts)
  BY <1>1, NextJob DEF BeginStop
<1>3. p \in 1 .. Len(encoders)
  BY <1>1, <1>2, ProcessIsThere
<1>4. /\ encoders' \in Seq(Encoders) /\ Len(encoders') = Len(encoders)
      /\ \A i \in 1 .. Len(encoders) :
           encoders'[i].state = IF i = p THEN "terminated" ELSE encoders[i].state
  <2>1. encoders' = WithState(encoders, p, "terminated")
    BY <1>1, <1>3 DEF WithState
  <2> QED  BY <1>1, <1>3, <2>1, EncoderIsSet
<1> DEFINE u == Awaiting(job, p)
<1>5. u.job \in Jobs /\ u.dict \in 1 .. Len(dicts) /\ u.encoder \in 1 .. Len(encoders')
  BY <1>2, <1>3, <1>4 DEF Awaiting
<1>6. tasks' = tasks \cup {u}
  BY <1>1
<1> HIDE DEF u
<1>7. \A t \in tasks' : t \in tasks \/ (/\ t.job \in Jobs /\ t.dict \in 1 .. Len(dicts)
                                        /\ t.encoder \in 1 .. Len(encoders'))
  BY <1>5, <1>6
<1>8. DOMAIN sessions' \subseteq DOMAIN sessions /\ \A id \in DOMAIN sessions' : sessions'[id] = sessions[id]
  BY <1>1, SessionsForShrinks
<1>9. Len(encoders) <= Len(encoders') /\ \A d \in 1 .. Len(dicts) : dicts'[d].process \in 0 .. Len(encoders')
  BY <1>1, <1>4, TypeParts
<1>10. TypeInv'
  BY <1>1, <1>2, <1>4, <1>7, <1>8, <1>9, TypeParts, Flags, TypeShrink
<1> QED  BY <1>1, <1>2, <1>3, <1>4, <1>10

LEMMA DoesStopRaises ==
  ASSUME TypeInv, NEW job, StopRaises(job), NEW p, p = dicts[DictOf(job)].process
  PROVE  /\ TypeInv'
         /\ p \in 1 .. Len(encoders) /\ DictOf(job) \in 1 .. Len(dicts)
         /\ Len(encoders') = Len(encoders)
         /\ \A i \in 1 .. Len(encoders) :
              encoders'[i].state = IF i = p /\ encoders[i].state # "ended" THEN "terminated"
                                   ELSE encoders[i].state
<1>1. /\ HasDict(job) /\ p # None
      /\ encoders' = [encoders EXCEPT ![p].state = IF @ = "ended" THEN @ ELSE "terminated"]
      /\ sessions' = SessionsFor(job)
      /\ phase' = IF job.kind = "gathered_stop" /\ phase = "stopping" THEN "failed" ELSE phase
      /\ UNCHANGED <<dicts, status, tasks, listener, orderly>>
  BY DEF StopRaises, Begun
<1>2. job \in Jobs /\ queue' \in Seq(Jobs) /\ ToSet(queue') \subseteq ToSet(queue)
      /\ DictOf(job) \in 1 .. Len(dicts)
  BY <1>1, NextJob DEF StopRaises
<1>3. p \in 1 .. Len(encoders)
  BY <1>1, <1>2, ProcessIsThere
<1>4. PICK state \in {"terminated", "ended"} :
        state = IF encoders[p].state = "ended" THEN encoders[p].state ELSE "terminated"
  OBVIOUS
<1>5. encoders' = [encoders EXCEPT ![p].state = state]
  <2>1. CASE encoders[p].state = "ended"
    BY <1>1, <1>4, <2>1
  <2>2. CASE encoders[p].state # "ended"
    BY <1>1, <1>4, <2>2
  <2> QED  BY <2>1, <2>2
<1>6. /\ encoders' \in Seq(Encoders) /\ Len(encoders') = Len(encoders)
      /\ \A i \in 1 .. Len(encoders) :
           encoders'[i].state = IF i = p THEN state ELSE encoders[i].state
  <2>1. encoders' = WithState(encoders, p, state)
    BY <1>3, <1>5 DEF WithState
  <2>2. state \in {"spawning", "running", "terminated", "ended"}
    OBVIOUS
  <2> QED  BY <1>3, <2>1, <2>2, EncoderIsSet
<1>7. \A i \in 1 .. Len(encoders) :
        encoders'[i].state = IF i = p /\ encoders[i].state # "ended" THEN "terminated"
                             ELSE encoders[i].state
  BY <1>4, <1>6
<1>8. DOMAIN sessions' \subseteq DOMAIN sessions /\ \A id \in DOMAIN sessions' : sessions'[id] = sessions[id]
  BY <1>1, SessionsForShrinks
<1>9. Len(encoders) <= Len(encoders') /\ \A d \in 1 .. Len(dicts) : dicts'[d].process \in 0 .. Len(encoders')
  BY <1>1, <1>6, TypeParts
<1>10. phase' \in {"up", "stopping", "stopped", "failed"}
  BY <1>1, Flags
<1>11. TypeInv'
  BY <1>1, <1>2, <1>6, <1>8, <1>9, <1>10, TypeParts, Flags, TypeShrink
<1> QED  BY <1>2, <1>3, <1>6, <1>7, <1>11

LEMMA TypeStopsNothing == ASSUME TypeInv, NEW job, StopsNothing(job) PROVE TypeInv'
<1>1. HasDict(job) /\ job.kind \in Stops /\ AfterStop(job, dicts[DictOf(job)].stream)
      /\ UNCHANGED <<dicts, encoders, tasks, listener, phase, orderly>>
  BY DEF StopsNothing, Begun
<1>2. job \in Jobs /\ queue' \in Seq(Jobs) /\ ToSet(queue') \subseteq ToSet(queue)
      /\ DictOf(job) \in 1 .. Len(dicts)
  BY <1>1, NextJob DEF StopsNothing
<1>3. dicts[DictOf(job)].stream \in Streams
  BY <1>2, StreamOfDict
<1>4. /\ DOMAIN sessions' \subseteq DOMAIN sessions /\ \A id \in DOMAIN sessions' : sessions'[id] = sessions[id]
      /\ status' \in [Streams -> {"AVAILABLE", "STREAMING"}]
  BY <1>1, <1>2, <1>3, AfterStopShrinks
<1>5. Len(encoders) <= Len(encoders)
  BY TypeParts
<1> QED  BY <1>1, <1>2, <1>4, <1>5, TypeParts, Flags, TypeShrink

LEMMA TaskParts ==
  ASSUME TypeInv, NEW t \in tasks
  PROVE  /\ t.job \in Jobs /\ t.dict \in 1 .. Len(dicts) /\ t.encoder \in 1 .. Len(encoders)
         /\ dicts[t.dict].stream \in Streams
<1>1. t.job \in Jobs /\ t.dict \in 1 .. Len(dicts) /\ t.encoder \in 1 .. Len(encoders)
  BY DEF TypeInv, TypeOK
<1> QED  BY <1>1, StreamOfDict

(* What a step that ends a task needs to keep the types. *)
LEMMA TypeTaskEnds ==
  ASSUME TypeInv, NEW t \in tasks, tasks' = tasks \ {t},
         DOMAIN sessions' \subseteq DOMAIN sessions,
         \A id \in DOMAIN sessions' : sessions'[id] = sessions[id],
         status' \in [Streams -> {"AVAILABLE", "STREAMING"}],
         encoders' \in Seq(Encoders), Len(encoders') = Len(encoders),
         dicts' \in Seq(Dicts), Len(dicts') = Len(dicts),
         \A d \in 1 .. Len(dicts) : dicts'[d].process \in {dicts[d].process, t.encoder},
         UNCHANGED <<queue, listener, phase, orderly>>
  PROVE  TypeInv'
<1>1. \A d \in 1 .. Len(dicts) : dicts'[d].process \in 0 .. Len(encoders')
  <2>1. t.encoder \in 0 .. Len(encoders)
    BY TaskParts, TypeParts
  <2> QED  BY <2>1, TypeParts
<1>2. Len(encoders) <= Len(encoders')
  BY TypeParts
<1> QED  BY <1>1, <1>2, TypeParts, Flags, TypeShrink

LEMMA DoesFinishStop ==
  ASSUME TypeInv, NEW t \in tasks, FinishStop(t)
  PROVE  /\ TypeInv'
         /\ DOMAIN sessions' = IF t.job.kind = "stop" THEN DOMAIN sessions \ {t.job.id}
                               ELSE DOMAIN sessions
         /\ \A id \in DOMAIN sessions' : sessions'[id] = sessions[id]
         /\ \A s \in Streams : status'[s] = "STREAMING" => status[s] = "STREAMING"
         /\ t.job.kind = "stop" /\ t.job.id \in DOMAIN sessions =>
              status'[dicts[t.dict].stream] = "AVAILABLE"
<1>1. /\ t.job.kind \in Stops /\ tasks' = tasks \ {t}
      /\ UNCHANGED <<dicts, encoders, queue, listener, phase, orderly>>
  BY DEF FinishStop
<1>2. /\ DOMAIN sessions' = IF t.job.kind = "stop" THEN DOMAIN sessions \ {t.job.id}
                            ELSE DOMAIN sessions
      /\ \A id \in DOMAIN sessions' : sessions'[id] = sessions[id]
      /\ status' \in [Streams -> {"AVAILABLE", "STREAMING"}]
      /\ \A s \in Streams : status'[s] = "STREAMING" => status[s] = "STREAMING"
      /\ t.job.kind = "stop" /\ t.job.id \in DOMAIN sessions =>
           status'[dicts[t.dict].stream] = "AVAILABLE"
  <2>1. CASE t.job.kind = "tier_stop"
    <3>1. status' = [status EXCEPT ![dicts[t.dict].stream] = "AVAILABLE"] /\ UNCHANGED sessions
      BY <2>1 DEF FinishStop
    <3> QED  BY <2>1, <3>1, TypeParts
  <2>2. CASE t.job.kind # "tier_stop"
    <3>1. AfterStop(t.job, dicts[t.dict].stream)
      BY <2>2 DEF FinishStop
    <3>2. t.job \in Jobs /\ dicts[t.dict].stream \in Streams
      BY TaskParts
    <3>3. t.job.kind = "stop" \/ t.job.kind = "gathered_stop"
      BY <1>1, <2>2 DEF Stops
    <3> QED  BY <1>1, <3>1, <3>2, <3>3, AfterStopShrinks
  <2> QED  BY <2>1, <2>2
<1>3. \A d \in 1 .. Len(dicts) : dicts'[d].process \in {dicts[d].process, t.encoder}
  BY <1>1
<1>4. TypeInv'
  BY <1>1, <1>2, <1>3, TypeParts, TypeTaskEnds
<1> QED  BY <1>2, <1>4

LEMMA DoesStartSucceeds ==
  ASSUME TypeInv, NEW t \in tasks, StartSucceeds(t)
  PROVE  /\ TypeInv'
         /\ DOMAIN sessions' = IF t.job.kind = "reconfigure" THEN DOMAIN sessions \ {t.job.id}
                               ELSE DOMAIN sessions
         /\ \A id \in DOMAIN sessions' : sessions'[id] = sessions[id]
         /\ Len(encoders') = Len(encoders)
         /\ \A i \in 1 .. Len(encoders) :
              encoders'[i].state = IF i = t.encoder THEN "running" ELSE encoders[i].state
         /\ Len(dicts') = Len(dicts)
         /\ \A d \in 1 .. Len(dicts) :
              /\ dicts'[d].id = dicts[d].id /\ dicts'[d].stream = dicts[d].stream
              /\ dicts'[d].tier = dicts[d].tier
              /\ dicts'[d].process = IF d = t.dict THEN t.encoder ELSE dicts[d].process
         /\ \A s \in Streams : status'[s] = "STREAMING" =>
              status[s] = "STREAMING" \/ s = dicts[t.dict].stream
<1>1. /\ tasks' = tasks \ {t}
      /\ encoders' = [encoders EXCEPT ![t.encoder].state = "running"]
      /\ dicts' = [dicts EXCEPT ![t.dict].process = t.encoder]
      /\ UNCHANGED <<queue, listener, phase, orderly>>
  BY DEF StartSucceeds
<1>2. /\ t.job \in Jobs /\ t.dict \in 1 .. Len(dicts) /\ t.encoder \in 1 .. Len(encoders)
      /\ dicts[t.dict].stream \in Streams
  BY TaskParts
<1>3. /\ encoders' \in Seq(Encoders) /\ Len(encoders') = Len(encoders)
      /\ \A i \in 1 .. Len(encoders) :
           encoders'[i].state = IF i = t.encoder THEN "running" ELSE encoders[i].state
  <2>1. encoders' = WithState(encoders, t.encoder, "running")
    BY <1>1, <1>2 DEF WithState
  <2> QED  BY <1>1, <1>2, <2>1, EncoderIsSet
<1>4. t.encoder \in Nat
  BY <1>2
<1>5. /\ dicts' \in Seq(Dicts) /\ Len(dicts') = Len(dicts)
      /\ \A d \in 1 .. Len(dicts) :
           /\ dicts'[d].id = dicts[d].id /\ dicts'[d].stream = dicts[d].stream
           /\ dicts'[d].tier = dicts[d].tier
           /\ dicts'[d].process = IF d = t.dict THEN t.encoder ELSE dicts[d].process
  <2>1. dicts' = WithProcess(dicts, t.dict, t.encoder)
    BY <1>1 DEF WithProcess
  <2>2. OnlyProcessSet(dicts, WithProcess(dicts, t.dict, t.encoder), t.dict, t.encoder)
    BY <1>2, <1>4, TypeParts, ProcessIsSet
  <2>3. OnlyProcessSet(dicts, dicts', t.dict, t.encoder)
    BY <2>1, <2>2
  <2> QED  BY <2>3, Zenon DEF OnlyProcessSet
<1>6. /\ DOMAIN sessions' = IF t.job.kind = "reconfigure" THEN DOMAIN sessions \ {t.job.id}
                            ELSE DOMAIN sessions
      /\ \A id \in DOMAIN sessions' : sessions'[id] = sessions[id]
      /\ status' \in [Streams -> {"AVAILABLE", "STREAMING"}]
      /\ \A s \in Streams : status'[s] = "STREAMING" =>
           status[s] = "STREAMING" \/ s = dicts[t.dict].stream
  <2>1. CASE t.job.kind = "reconfigure"
    <3>1. Delete(t.job.id, dicts[t.dict].stream)
      BY <2>1 DEF StartSucceeds
    <3> QED  BY <1>2, <2>1, <3>1, Deletes
  <2>2. CASE t.job.kind # "reconfigure"
    <3>1. status' = [status EXCEPT ![dicts[t.dict].stream] = "STREAMING"] /\ UNCHANGED sessions
      BY <2>2 DEF StartSucceeds
    <3> QED  BY <1>2, <2>2, <3>1, TypeParts
  <2> QED  BY <2>1, <2>2
<1>7. \A d \in 1 .. Len(dicts) : dicts'[d].process \in {dicts[d].process, t.encoder}
  BY <1>5
<1>8. DOMAIN sessions' \subseteq DOMAIN sessions
  BY <1>6
<1>9. TypeInv'
  BY <1>1, <1>3, <1>5, <1>6, <1>7, <1>8, TypeTaskEnds
<1> QED  BY <1>3, <1>5, <1>6, <1>9, Zenon

LEMMA DoesStartFails ==
  ASSUME TypeInv, NEW t \in tasks, StartFails(t)
  PROVE  /\ TypeInv'
         /\ DOMAIN sessions' = IF t.job.kind = "tier_start" THEN DOMAIN sessions
                               ELSE DOMAIN sessions \ {t.job.id}
         /\ \A id \in DOMAIN sessions' : sessions'[id] = sessions[id]
         /\ Len(encoders') = Len(encoders)
         /\ \A i \in 1 .. Len(encoders) :
              encoders'[i].state = IF i = t.encoder THEN "ended" ELSE encoders[i].state
         /\ \A s \in Streams : status'[s] = "STREAMING" => status[s] = "STREAMING"
<1>1. /\ tasks' = tasks \ {t}
      /\ encoders' = [encoders EXCEPT ![t.encoder].state = "ended"]
      /\ UNCHANGED <<dicts, queue, listener, phase, orderly>>
  BY DEF StartFails
<1>2. /\ t.job \in Jobs /\ t.dict \in 1 .. Len(dicts) /\ t.encoder \in 1 .. Len(encoders)
      /\ dicts[t.dict].stream \in Streams
  BY TaskParts
<1>3. /\ encoders' \in Seq(Encoders) /\ Len(encoders') = Len(encoders)
      /\ \A i \in 1 .. Len(encoders) :
           encoders'[i].state = IF i = t.encoder THEN "ended" ELSE encoders[i].state
  <2>1. encoders' = WithState(encoders, t.encoder, "ended")
    BY <1>1, <1>2 DEF WithState
  <2> QED  BY <1>1, <1>2, <2>1, EncoderIsSet
<1>4. /\ DOMAIN sessions' = IF t.job.kind = "tier_start" THEN DOMAIN sessions
                            ELSE DOMAIN sessions \ {t.job.id}
      /\ \A id \in DOMAIN sessions' : sessions'[id] = sessions[id]
      /\ status' \in [Streams -> {"AVAILABLE", "STREAMING"}]
      /\ \A s \in Streams : status'[s] = "STREAMING" => status[s] = "STREAMING"
  <2>1. CASE t.job.kind # "tier_start"
    <3>1. Delete(t.job.id, dicts[t.dict].stream)
      BY <2>1 DEF StartFails
    <3> QED  BY <1>2, <2>1, <3>1, Deletes
  <2>2. CASE t.job.kind = "tier_start"
    <3>1. status' = [status EXCEPT ![dicts[t.dict].stream] = "AVAILABLE"] /\ UNCHANGED sessions
      BY <2>2 DEF StartFails
    <3> QED  BY <1>2, <2>2, <3>1, TypeParts
  <2> QED  BY <2>1, <2>2
<1>5. \A d \in 1 .. Len(dicts) : dicts'[d].process \in {dicts[d].process, t.encoder}
  BY <1>1
<1>6. DOMAIN sessions' \subseteq DOMAIN sessions /\ dicts' \in Seq(Dicts) /\ Len(dicts') = Len(dicts)
  BY <1>1, <1>4, TypeParts
<1>7. TypeInv'
  BY <1>1, <1>3, <1>4, <1>5, <1>6, TypeTaskEnds
<1> QED  BY <1>3, <1>4, <1>7, Zenon

LEMMA DoesEncoderEnds ==
  ASSUME TypeInv, NEW p, EncoderEnds(p)
  PROVE  /\ TypeInv' /\ p \in 1 .. Len(encoders)
         /\ Len(encoders') = Len(encoders)
         /\ \A i \in 1 .. Len(encoders) :
              encoders'[i].state = IF i = p THEN "ended" ELSE encoders[i].state
<1>1. /\ p \in 1 .. Len(encoders) /\ encoders' = [encoders EXCEPT ![p].state = "ended"]
      /\ UNCHANGED <<sessions, dicts, status, queue, tasks, listener, phase, orderly>>
  BY DEF EncoderEnds
<1>2. /\ encoders' \in Seq(Encoders) /\ Len(encoders') = Len(encoders)
      /\ \A i \in 1 .. Len(encoders) :
           encoders'[i].state = IF i = p THEN "ended" ELSE encoders[i].state
  <2>1. encoders' = WithState(encoders, p, "ended")
    BY <1>1 DEF WithState
  <2> QED  BY <1>1, <2>1, EncoderIsSet
<1>3. TypeInv'
  BY <1>1, <1>2 DEF TypeInv, TypeOK
<1> QED  BY <1>1, <1>2, <1>3

LEMMA DoesStop ==
  ASSUME TypeInv, Stop
  PROVE  /\ TypeInv'
         /\ ToSet(queue') = ToSet(queue)
              \cup {Job("gathered_stop", id, sessions[id]) : id \in DOMAIN sessions}
<1> DEFINE gathered == {Job("gathered_stop", id, sessions[id]) : id \in DOMAIN sessions}
<1>1. /\ queue' = queue \o SetToSeq(gathered) /\ phase' = "stopping" /\ orderly' \in BOOLEAN
      /\ UNCHANGED <<sessions, dicts, encoders, status, tasks, listener>>
  BY Flags DEF Stop
<1>2. ASSUME NEW id \in DOMAIN sessions
      PROVE  /\ Job("gathered_stop", id, sessions[id]) \in Jobs
             /\ Job("gathered_stop", id, sessions[id]).dict \in 1 .. Len(dicts)
             /\ Job("gathered_stop", id, sessions[id]).kind = "gathered_stop"
  <2>1. id \in Ids /\ sessions[id] \in 1 .. Len(dicts)
    BY TypeParts
  <2> QED  BY <2>1 DEF Job, Jobs, Stops, Starts
<1>3. gathered \in SUBSET Jobs
  BY <1>2
<1>4. IsFiniteSet(gathered)
  <2> DEFINE f == [id \in DOMAIN sessions |-> Job("gathered_stop", id, sessions[id])]
  <2>1. f \in Surjection(DOMAIN sessions, gathered)
    BY DEF Surjection
  <2> QED  BY <2>1, FS_Surjection DEF TypeInv
<1>5. ASSUME NEW q \in gathered
      PROVE  q.dict \in 1 .. Len(dicts) /\ q.kind = "gathered_stop"
  BY <1>2
<1> HIDE DEF gathered
<1>6. queue' \in Seq(Jobs) /\ ToSet(queue') = ToSet(queue) \cup gathered
  <2>1. SetToSeq(gathered) \in Seq(Jobs) /\ ToSet(SetToSeq(gathered)) = gathered
    BY <1>3, <1>4, ElementsOfSetToSeq
  <2>2. queue \in Seq(Jobs)
    BY TypeParts
  <2>3. queue \o SetToSeq(gathered) \in Seq(Jobs)
        /\ ToSet(queue \o SetToSeq(gathered)) = ToSet(queue) \cup ToSet(SetToSeq(gathered))
    BY <2>1, <2>2, ElementsOfConcat
  <2> QED  BY <1>1, <2>1, <2>3
<1>7. \A q \in ToSet(queue') : /\ q.dict \in 0 .. Len(dicts)
                               /\ q.kind \in {"tier_start", "gathered_stop"} <=> q.dict # None
  BY <1>5, <1>6, TypeParts DEF TypeInv, None
<1>8. TypeInv'
  BY <1>1, <1>6, <1>7 DEF TypeInv, TypeOK
<1> QED  BY <1>6, <1>8 DEF gathered

LEMMA TypeStopListener == ASSUME TypeInv, StopListener PROVE TypeInv'
BY DEF StopListener, TypeInv, TypeOK

LEMMA TypeInit == ASSUME Init PROVE TypeInv
<1>1. IsFiniteSet({})
  BY FS_EmptySet
<1>2. DOMAIN sessions = {} /\ ToSet(queue) = {}
  BY DEF Init, ToSet
<1> QED  BY <1>1, <1>2 DEF Init, TypeInv, TypeOK

LEMMA TypeStep == ASSUME TypeInv, [Next]_vars PROVE TypeInv'
<1>1. CASE UNCHANGED vars
  BY <1>1 DEF vars, TypeInv, TypeOK
<1>2. ASSUME NEW id \in Ids, NEW stream \in Streams, SetEndpoints(id, stream) PROVE TypeInv'
  BY <1>2, TypeSetEndpoints
<1>3. ASSUME NEW id \in Ids, NEW kind \in {"start", "stop", "reconfigure"},
             SetSelectedStreamConfiguration(kind, id)
      PROVE  TypeInv'
  BY <1>3, DoesSelect
<1>4. ASSUME NEW id \in Ids, StartTierStream(id) PROVE TypeInv'
  BY <1>4, DoesStartTier
<1>5. ASSUME NEW id \in Ids, EndTierStream(id) PROVE TypeInv'
  BY <1>5, DoesEndTier
<1>6. ASSUME NEW stream \in Streams, SetStreamingAvailable(stream) PROVE TypeInv'
  BY <1>6, TypeAvailable
<1>7. ASSUME NEW job, FindsNothing(job) \/ BeginStart(job) \/ BeginStop(job) \/ StopRaises(job)
                      \/ StopsNothing(job)
      PROVE  TypeInv'
  BY <1>7, TypeFindsNothing, DoesBeginStart, DoesBeginStop, DoesStopRaises, TypeStopsNothing
<1>8. ASSUME NEW t \in tasks, StartSucceeds(t) \/ StartFails(t) \/ FinishStop(t) PROVE TypeInv'
  BY <1>8, DoesStartSucceeds, DoesStartFails, DoesFinishStop
<1>9. ASSUME NEW p, EncoderEnds(p) PROVE TypeInv'
  BY <1>9, DoesEncoderEnds
<1>10. CASE Stop \/ StopListener
  BY <1>10, DoesStop, TypeStopListener
<1> QED  BY <1>1, <1>2, <1>3, <1>4, <1>5, <1>6, <1>7, <1>8, <1>9, <1>10 DEF Next

(* Every variable of CameraSessions has a value of its type. *)
THEOREM TypeCorrect == Spec => []TypeOK
<1>1. Init => TypeInv
  BY TypeInit
<1>2. TypeInv /\ [Next]_vars => TypeInv'
  BY TypeStep
<1>3. TypeInv => TypeOK
  BY DEF TypeInv
<1> QED  BY <1>1, <1>2, <1>3, PTL DEF Spec

----------------------------------------------------------------------------
(* Encoders, and the tasks that await them *)

SessionsOwn == \A id \in DOMAIN sessions : dicts[sessions[id]].id = id

ProcessesAreThere ==
  \A d \in 1 .. Len(dicts) :
    dicts[d].process # None => encoders[dicts[d].process].state # "spawning"

TasksAwait ==
  \A t \in tasks : IF t.job.kind \in Starts THEN encoders[t.encoder].state = "spawning"
                   ELSE encoders[t.encoder].state \in {"terminated", "ended"}

StartsApart ==
  \A t, u \in tasks : t.job.kind \in Starts /\ u.job.kind \in Starts /\ t.encoder = u.encoder => t = u

SpawningAwaited ==
  \A p \in 1 .. Len(encoders) : encoders[p].state = "spawning" =>
     \E t \in tasks : t.job.kind \in Starts /\ t.encoder = p

(* A session has a dict of its own; an encoder is in a dict when it was       *)
(* started; a task that starts one is the only one to await it, and a task    *)
(* that stops one has told it to end.                                         *)
TrackedInv ==
  /\ TypeInv
  /\ SessionsOwn /\ ProcessesAreThere /\ TasksAwait /\ StartsApart /\ SpawningAwaited
  /\ phase = "stopped" => ~listener

(* A step that leaves encoders and tasks alone. *)
LEMMA TrackedSame ==
  ASSUME TrackedInv, TypeInv', UNCHANGED <<encoders, tasks>>,
         \A id \in DOMAIN sessions' : id \in DOMAIN sessions /\ sessions'[id] = sessions[id],
         Len(dicts') = Len(dicts),
         \A d \in 1 .. Len(dicts) : dicts'[d].id = dicts[d].id /\ dicts'[d].process = dicts[d].process,
         phase' = "stopped" => ~listener'
  PROVE  TrackedInv'
<1>1. SessionsOwn'
  <2>1. \A id \in DOMAIN sessions' : sessions[id] \in 1 .. Len(dicts)
    BY TypeParts DEF TrackedInv
  <2> QED  BY <2>1 DEF TrackedInv, SessionsOwn
<1>2. ProcessesAreThere'
  BY DEF TrackedInv, ProcessesAreThere
<1>3. TasksAwait' /\ StartsApart' /\ SpawningAwaited'
  BY DEF TrackedInv, TasksAwait, StartsApart, SpawningAwaited
<1> QED  BY <1>1, <1>2, <1>3 DEF TrackedInv

LEMMA TrackedSetEndpoints ==
  ASSUME TrackedInv, NEW id \in Ids, NEW stream \in Streams, SetEndpoints(id, stream)
  PROVE  TrackedInv'
<1> DEFINE e == [id |-> id, stream |-> stream, tier |-> FALSE, process |-> None]
<1>1. /\ dicts' = Append(dicts, e) /\ sessions' = Named(id, Len(dicts'))
      /\ UNCHANGED <<encoders, status, queue, tasks, listener, phase>>
  BY DEF SetEndpoints
<1>2. e \in Dicts /\ e.process = 0 /\ e.id = id
  BY DEF Dicts, None
<1> HIDE DEF e
<1>3. /\ Len(dicts') = Len(dicts) + 1
      /\ \A i \in 1 .. Len(dicts) : dicts'[i] = dicts[i]
      /\ dicts'[Len(dicts) + 1] = e
  BY <1>1, <1>2, TypeParts, ElementsOfAppend DEF TrackedInv
<1>4. /\ DOMAIN sessions' = DOMAIN sessions \cup {id}
      /\ \A i \in DOMAIN sessions' : sessions'[i] = IF i = id THEN Len(dicts') ELSE sessions[i]
  BY <1>1 DEF Named
<1>5. SessionsOwn'
  <2>1. \A i \in DOMAIN sessions : sessions[i] \in 1 .. Len(dicts)
    BY TypeParts DEF TrackedInv
  <2> QED  BY <2>1, <1>2, <1>3, <1>4 DEF TrackedInv, SessionsOwn
<1>6. ProcessesAreThere'
  <2>1. \A d \in 1 .. Len(dicts) + 1 : d \in 1 .. Len(dicts) \/ d = Len(dicts) + 1
    BY TypeParts DEF TrackedInv
  <2> QED  BY <2>1, <1>1, <1>2, <1>3 DEF TrackedInv, ProcessesAreThere, None
<1>7. TasksAwait' /\ StartsApart' /\ SpawningAwaited'
  BY <1>1 DEF TrackedInv, TasksAwait, StartsApart, SpawningAwaited
<1>8. TypeInv'
  BY TypeSetEndpoints DEF TrackedInv
<1> QED  BY <1>1, <1>5, <1>6, <1>7, <1>8 DEF TrackedInv

LEMMA TrackedBeginStart == ASSUME TrackedInv, NEW job, BeginStart(job) PROVE TrackedInv'
<1> DEFINE u == Awaiting(job, Len(encoders) + 1)
<1>1. /\ TypeInv /\ TypeInv'
      /\ Len(encoders') = Len(encoders) + 1 /\ Len(encoders) \in Nat
      /\ \A p \in 1 .. Len(encoders) : encoders'[p] = encoders[p]
      /\ encoders'[Len(encoders) + 1].state = "spawning"
      /\ tasks' = tasks \cup {u}
  BY DoesBeginStart, TypeParts DEF TrackedInv
<1>2. UNCHANGED <<sessions, dicts, listener, phase>> /\ job.kind \in Starts
  BY DEF BeginStart, Begun
<1>3. u.job = job /\ u.encoder = Len(encoders) + 1
  BY DEF Awaiting
<1> HIDE DEF u
<1>4. \A t \in tasks : t.encoder \in 1 .. Len(encoders) /\ t.encoder # Len(encoders) + 1
  BY <1>1, TaskParts
<1>5. SessionsOwn'
  BY <1>2 DEF TrackedInv, SessionsOwn
<1>6. ProcessesAreThere'
  <2>1. \A d \in 1 .. Len(dicts) : dicts[d].process # None => dicts[d].process \in 1 .. Len(encoders)
    BY <1>1, ProcessIsThere
  <2> QED  BY <2>1, <1>1, <1>2 DEF TrackedInv, ProcessesAreThere
<1>7. TasksAwait'
  BY <1>1, <1>2, <1>3, <1>4 DEF TrackedInv, TasksAwait
<1>8. StartsApart'
  BY <1>1, <1>3, <1>4 DEF TrackedInv, StartsApart
<1>9. SpawningAwaited'
  <2>1. ASSUME NEW p \in 1 .. Len(encoders'), encoders'[p].state = "spawning"
        PROVE  \E t \in tasks' : t.job.kind \in Starts /\ t.encoder = p
    <3>1. CASE p = Len(encoders) + 1
      BY <3>1, <1>1, <1>2, <1>3
    <3>2. CASE p \in 1 .. Len(encoders)
      BY <3>2, <2>1, <1>1 DEF TrackedInv, SpawningAwaited
    <3> QED  BY <3>1, <3>2, <1>1
  <2> QED  BY <2>1 DEF SpawningAwaited
<1> QED  BY <1>1, <1>2, <1>5, <1>6, <1>7, <1>8, <1>9 DEF TrackedInv

(* The encoder that is stopped is none that is awaited. *)
LEMMA TrackedBeginStop == ASSUME TrackedInv, NEW job, BeginStop(job) PROVE TrackedInv'
<1> DEFINE p == dicts[DictOf(job)].process
           u == Awaiting(job, p)
<1>1. /\ TypeInv /\ TypeInv'
      /\ p \in 1 .. Len(encoders) /\ DictOf(job) \in 1 .. Len(dicts)
      /\ Len(encoders') = Len(encoders)
      /\ \A i \in 1 .. Len(encoders) :
           encoders'[i].state = IF i = p THEN "terminated" ELSE encoders[i].state
      /\ tasks' = tasks \cup {u}
  BY DoesBeginStop DEF TrackedInv
<1>2. /\ UNCHANGED <<dicts, listener, phase>> /\ job.kind \in Stops /\ p # None
      /\ \A t \in tasks : ~(t.job.kind \in Stops /\ t.encoder = p)
      /\ sessions' = SessionsFor(job)
  BY DEF BeginStop, Begun
<1>3. u.job = job /\ u.encoder = p
  BY DEF Awaiting
<1>4. encoders[p].state # "spawning"
  BY <1>1, <1>2 DEF TrackedInv, ProcessesAreThere
<1> HIDE DEF u, p
<1>5. job.kind \notin Starts
  BY <1>2 DEF Starts, Stops
<1>6. \A t \in tasks : t.encoder \in 1 .. Len(encoders) /\ t.encoder # p
  <2>1. \A t \in tasks : t.encoder \in 1 .. Len(encoders) /\ t.job \in Jobs
    BY <1>1, TaskParts
  <2>2. \A t \in tasks : t.job.kind \in Starts \cup Stops
    BY <2>1 DEF Jobs
  <2> QED  BY <2>1, <2>2, <1>2, <1>4 DEF TrackedInv, TasksAwait
<1>7. SessionsOwn'
  <2>1. \A id \in DOMAIN sessions' : id \in DOMAIN sessions /\ sessions'[id] = sessions[id]
    BY <1>2, SessionsForShrinks
  <2> QED  BY <2>1, <1>2 DEF TrackedInv, SessionsOwn
<1>8. ProcessesAreThere'
  <2>1. \A d \in 1 .. Len(dicts) : dicts[d].process # None => dicts[d].process \in 1 .. Len(encoders)
    BY <1>1, ProcessIsThere
  <2> QED  BY <2>1, <1>1, <1>2 DEF TrackedInv, ProcessesAreThere
<1>9. TasksAwait'
  BY <1>1, <1>3, <1>5, <1>6 DEF TrackedInv, TasksAwait
<1>10. StartsApart'
  BY <1>1, <1>3, <1>5 DEF TrackedInv, StartsApart
<1>11. SpawningAwaited'
  BY <1>1 DEF TrackedInv, SpawningAwaited
<1> QED  BY <1>1, <1>2, <1>7, <1>8, <1>9, <1>10, <1>11 DEF TrackedInv

(* An encoder whose stop raises has ended or been told to: nothing changes.   *)
LEMMA StopRaisesForNothing ==
  ASSUME TrackedInv, NEW job, StopRaises(job)
  PROVE  \A i \in 1 .. Len(encoders) : encoders'[i].state = encoders[i].state
<1> DEFINE p == dicts[DictOf(job)].process
<1>1. /\ TypeInv /\ p \in 1 .. Len(encoders)
      /\ \A i \in 1 .. Len(encoders) :
           encoders'[i].state = IF i = p /\ encoders[i].state # "ended" THEN "terminated"
                                ELSE encoders[i].state
  BY DoesStopRaises DEF TrackedInv
<1>2. encoders[p].state = "ended" \/ \E t \in tasks : t.job.kind \in Stops /\ t.encoder = p
  BY DEF StopRaises
<1> HIDE DEF p
<1>3. encoders[p].state \in {"terminated", "ended"}
  <2>1. ASSUME NEW t \in tasks, t.job.kind \in Stops, t.encoder = p
        PROVE  encoders[p].state \in {"terminated", "ended"}
    <3>1. t.job.kind \notin Starts
      BY <2>1 DEF Starts, Stops
    <3> QED  BY <2>1, <3>1 DEF TrackedInv, TasksAwait
  <2> QED  BY <1>2, <2>1
<1> QED  BY <1>1, <1>3

LEMMA TrackedStopRaises == ASSUME TrackedInv, NEW job, StopRaises(job) PROVE TrackedInv'
<1>1. /\ TypeInv /\ TypeInv' /\ Len(encoders') = Len(encoders)
      /\ \A i \in 1 .. Len(encoders) : encoders'[i].state = encoders[i].state
  BY DoesStopRaises, StopRaisesForNothing DEF TrackedInv
<1>2. /\ UNCHANGED <<dicts, tasks, listener>> /\ sessions' = SessionsFor(job)
      /\ phase' = "stopped" => phase = "stopped"
  BY DEF StopRaises, Begun
<1>3. SessionsOwn'
  <2>1. \A id \in DOMAIN sessions' : id \in DOMAIN sessions /\ sessions'[id] = sessions[id]
    BY <1>2, SessionsForShrinks
  <2> QED  BY <2>1, <1>2 DEF TrackedInv, SessionsOwn
<1>4. ProcessesAreThere'
  <2>1. \A d \in 1 .. Len(dicts) : dicts[d].process # None => dicts[d].process \in 1 .. Len(encoders)
    BY <1>1, ProcessIsThere
  <2> QED  BY <2>1, <1>1, <1>2 DEF TrackedInv, ProcessesAreThere
<1>5. TasksAwait'
  <2>1. \A t \in tasks : t.encoder \in 1 .. Len(encoders)
    BY <1>1, TaskParts
  <2> QED  BY <2>1, <1>1, <1>2 DEF TrackedInv, TasksAwait
<1>6. StartsApart' /\ SpawningAwaited'
  BY <1>1, <1>2 DEF TrackedInv, StartsApart, SpawningAwaited
<1> QED  BY <1>1, <1>2, <1>3, <1>4, <1>5, <1>6 DEF TrackedInv

LEMMA TrackedFinishStop == ASSUME TrackedInv, NEW t \in tasks, FinishStop(t) PROVE TrackedInv'
<1>1. /\ TypeInv' /\ \A id \in DOMAIN sessions' : id \in DOMAIN sessions /\ sessions'[id] = sessions[id]
  BY DoesFinishStop DEF TrackedInv
<1>2. /\ UNCHANGED <<dicts, encoders, phase, listener>> /\ tasks' = tasks \ {t}
      /\ t.job.kind \notin Starts
  BY DEF FinishStop, Starts, Stops
<1>3. SessionsOwn' /\ ProcessesAreThere'
  BY <1>1, <1>2 DEF TrackedInv, SessionsOwn, ProcessesAreThere
<1>4. TasksAwait' /\ StartsApart'
  BY <1>2 DEF TrackedInv, TasksAwait, StartsApart
<1>5. SpawningAwaited'
  BY <1>2 DEF TrackedInv, SpawningAwaited
<1> QED  BY <1>1, <1>2, <1>3, <1>4, <1>5 DEF TrackedInv

LEMMA TrackedStartSucceeds == ASSUME TrackedInv, NEW t \in tasks, StartSucceeds(t) PROVE TrackedInv'
<1>1. /\ TypeInv /\ TypeInv'
      /\ \A id \in DOMAIN sessions' : id \in DOMAIN sessions /\ sessions'[id] = sessions[id]
      /\ Len(encoders') = Len(encoders)
      /\ \A i \in 1 .. Len(encoders) :
           encoders'[i].state = IF i = t.encoder THEN "running" ELSE encoders[i].state
      /\ Len(dicts') = Len(dicts)
      /\ \A d \in 1 .. Len(dicts) :
           /\ dicts'[d].id = dicts[d].id
           /\ dicts'[d].process = IF d = t.dict THEN t.encoder ELSE dicts[d].process
  BY DoesStartSucceeds, Zenon DEF TrackedInv
<1>2. /\ UNCHANGED <<phase, listener>> /\ tasks' = tasks \ {t} /\ t.job.kind \in Starts
  BY DEF StartSucceeds
<1>3. t.encoder \in 1 .. Len(encoders) /\ encoders[t.encoder].state = "spawning"
  BY <1>1, <1>2, TaskParts DEF TrackedInv, TasksAwait
<1>4. SessionsOwn'
  <2>1. \A id \in DOMAIN sessions : sessions[id] \in 1 .. Len(dicts)
    BY <1>1, TypeParts
  <2> QED  BY <2>1, <1>1 DEF TrackedInv, SessionsOwn
<1>5. ProcessesAreThere'
  <2>1. \A d \in 1 .. Len(dicts) : dicts[d].process # None => dicts[d].process \in 1 .. Len(encoders)
    BY <1>1, ProcessIsThere
  <2> QED  BY <2>1, <1>1, <1>3 DEF TrackedInv, ProcessesAreThere
<1>6. TasksAwait'
  <2>1. \A u \in tasks : u.encoder \in 1 .. Len(encoders)
    BY <1>1, TaskParts
  <2>2. \A u \in tasks' : u.encoder # t.encoder
    BY <1>2, <1>3 DEF TrackedInv, TasksAwait, StartsApart
  <2> QED  BY <2>1, <2>2, <1>1, <1>2 DEF TrackedInv, TasksAwait
<1>7. StartsApart'
  BY <1>2 DEF TrackedInv, StartsApart
<1>8. SpawningAwaited'
  BY <1>1, <1>2 DEF TrackedInv, SpawningAwaited
<1> QED  BY <1>1, <1>2, <1>4, <1>5, <1>6, <1>7, <1>8 DEF TrackedInv

LEMMA TrackedStartFails == ASSUME TrackedInv, NEW t \in tasks, StartFails(t) PROVE TrackedInv'
<1>1. /\ TypeInv /\ TypeInv'
      /\ \A id \in DOMAIN sessions' : id \in DOMAIN sessions /\ sessions'[id] = sessions[id]
      /\ Len(encoders') = Len(encoders)
      /\ \A i \in 1 .. Len(encoders) :
           encoders'[i].state = IF i = t.encoder THEN "ended" ELSE encoders[i].state
  BY DoesStartFails DEF TrackedInv
<1>2. /\ UNCHANGED <<dicts, phase, listener>> /\ tasks' = tasks \ {t} /\ t.job.kind \in Starts
  BY DEF StartFails
<1>3. t.encoder \in 1 .. Len(encoders) /\ encoders[t.encoder].state = "spawning"
  BY <1>1, <1>2, TaskParts DEF TrackedInv, TasksAwait
<1>4. SessionsOwn'
  BY <1>1, <1>2 DEF TrackedInv, SessionsOwn
<1>5. ProcessesAreThere'
  <2>1. \A d \in 1 .. Len(dicts) : dicts[d].process # None => dicts[d].process \in 1 .. Len(encoders)
    BY <1>1, ProcessIsThere
  <2> QED  BY <2>1, <1>1, <1>2 DEF TrackedInv, ProcessesAreThere
<1>6. TasksAwait'
  <2>1. \A u \in tasks : u.encoder \in 1 .. Len(encoders)
    BY <1>1, TaskParts
  <2>2. \A u \in tasks' : u.encoder # t.encoder
    BY <1>2, <1>3 DEF TrackedInv, TasksAwait, StartsApart
  <2> QED  BY <2>1, <2>2, <1>1, <1>2 DEF TrackedInv, TasksAwait
<1>7. StartsApart'
  BY <1>2 DEF TrackedInv, StartsApart
<1>8. SpawningAwaited'
  BY <1>1, <1>2 DEF TrackedInv, SpawningAwaited
<1> QED  BY <1>1, <1>2, <1>4, <1>5, <1>6, <1>7, <1>8 DEF TrackedInv

LEMMA TrackedEncoderEnds == ASSUME TrackedInv, NEW p, EncoderEnds(p) PROVE TrackedInv'
<1>1. /\ TypeInv /\ TypeInv' /\ p \in 1 .. Len(encoders) /\ Len(encoders') = Len(encoders)
      /\ \A i \in 1 .. Len(encoders) :
           encoders'[i].state = IF i = p THEN "ended" ELSE encoders[i].state
  BY DoesEncoderEnds DEF TrackedInv
<1>2. /\ encoders[p].state \in {"running", "terminated"}
      /\ UNCHANGED <<sessions, dicts, tasks, phase, listener>>
  BY DEF EncoderEnds
<1>3. SessionsOwn' /\ StartsApart' /\ SpawningAwaited'
  BY <1>1, <1>2 DEF TrackedInv, SessionsOwn, StartsApart, SpawningAwaited
<1>4. ProcessesAreThere'
  <2>1. \A d \in 1 .. Len(dicts) : dicts[d].process # None => dicts[d].process \in 1 .. Len(encoders)
    BY <1>1, ProcessIsThere
  <2> QED  BY <2>1, <1>1, <1>2 DEF TrackedInv, ProcessesAreThere
<1>5. TasksAwait'
  <2>1. \A t \in tasks : t.encoder \in 1 .. Len(encoders)
    BY <1>1, TaskParts
  <2> QED  BY <2>1, <1>1, <1>2 DEF TrackedInv, TasksAwait
<1> QED  BY <1>1, <1>2, <1>3, <1>4, <1>5 DEF TrackedInv

LEMMA TrackedInit == ASSUME Init PROVE TrackedInv
BY TypeInit DEF Init, TrackedInv, SessionsOwn, ProcessesAreThere, TasksAwait, StartsApart, SpawningAwaited

LEMMA TrackedStep == ASSUME TrackedInv, [Next]_vars PROVE TrackedInv'
<1>0. TypeInv /\ TypeInv' /\ (phase = "stopped" => ~listener)
  BY TypeStep DEF TrackedInv
<1>1. CASE UNCHANGED vars
  BY <1>0, <1>1, TrackedSame DEF vars
<1>2. ASSUME NEW id \in Ids, NEW stream \in Streams, SetEndpoints(id, stream) PROVE TrackedInv'
  BY <1>2, TrackedSetEndpoints
<1>3. ASSUME NEW id \in Ids, NEW kind \in {"start", "stop", "reconfigure"},
             SetSelectedStreamConfiguration(kind, id)
      PROVE  TrackedInv'
  BY <1>0, <1>3, TrackedSame DEF SetSelectedStreamConfiguration
<1>4. ASSUME NEW id \in Ids, StartTierStream(id) PROVE TrackedInv'
  <2>1. /\ Len(dicts') = Len(dicts)
        /\ \A d \in 1 .. Len(dicts) : dicts'[d].id = dicts[d].id /\ dicts'[d].process = dicts[d].process
    BY <1>0, <1>4, DoesStartTier, Zenon
  <2>2. UNCHANGED <<sessions, encoders, tasks, listener, phase>>
    BY <1>4 DEF StartTierStream
  <2> QED  BY <1>0, <2>1, <2>2, TrackedSame
<1>5. ASSUME NEW id \in Ids, EndTierStream(id) PROVE TrackedInv'
  BY <1>0, <1>5, TrackedSame DEF EndTierStream
<1>6. ASSUME NEW stream \in Streams, SetStreamingAvailable(stream) PROVE TrackedInv'
  BY <1>0, <1>6, TrackedSame DEF SetStreamingAvailable
<1>7. ASSUME NEW job, FindsNothing(job) PROVE TrackedInv'
  BY <1>0, <1>7, TrackedSame DEF FindsNothing, Begun
<1>8. ASSUME NEW job, BeginStart(job) \/ BeginStop(job) \/ StopRaises(job) PROVE TrackedInv'
  BY <1>8, TrackedBeginStart, TrackedBeginStop, TrackedStopRaises
<1>9. ASSUME NEW job, StopsNothing(job) PROVE TrackedInv'
  <2>1. /\ HasDict(job) /\ job.kind \in Stops /\ AfterStop(job, dicts[DictOf(job)].stream)
        /\ UNCHANGED <<dicts, encoders, tasks, listener, phase>>
    BY <1>9 DEF StopsNothing, Begun
  <2>2. job \in Jobs /\ DictOf(job) \in 1 .. Len(dicts)
    BY <1>0, <1>9, <2>1, NextJob DEF StopsNothing
  <2>3. \A id \in DOMAIN sessions' : id \in DOMAIN sessions /\ sessions'[id] = sessions[id]
    BY <1>0, <2>1, <2>2, StreamOfDict, AfterStopShrinks
  <2> QED  BY <1>0, <2>1, <2>3, TrackedSame
<1>10. ASSUME NEW t \in tasks, StartSucceeds(t) \/ StartFails(t) \/ FinishStop(t) PROVE TrackedInv'
  BY <1>10, TrackedStartSucceeds, TrackedStartFails, TrackedFinishStop
<1>11. ASSUME NEW p, EncoderEnds(p) PROVE TrackedInv'
  BY <1>11, TrackedEncoderEnds
<1>12. CASE Stop \/ StopListener
  BY <1>0, <1>12, TrackedSame DEF Stop, StopListener
<1> QED  BY <1>1, <1>2, <1>3, <1>4, <1>5, <1>6, <1>7, <1>8, <1>9, <1>10, <1>11, <1>12 DEF Next
----------------------------------------------------------------------------
(* Sessions while writes come in order *)

Ready(id) == id \in DOMAIN sessions /\ dicts[sessions[id]].process = None

StartsReady ==
  /\ \A q \in ToSet(queue) : q.kind \in Starts =>
       q.kind # "reconfigure" /\ Ready(q.id) /\ (q.dict # None => q.dict = sessions[q.id])
  /\ \A t \in tasks : t.job.kind \in Starts =>
       t.job.kind # "reconfigure" /\ Ready(t.job.id) /\ t.dict = sessions[t.job.id]

StopsKnow ==
  \A t \in tasks : t.job.kind = "stop" /\ t.job.id \in DOMAIN sessions =>
    sessions[t.job.id] = t.dict /\ dicts[t.dict].process = t.encoder

OnTier(id) == dicts[sessions[id]].stream = TierStream

TiersApart ==
  /\ \A id \in DOMAIN sessions : dicts[sessions[id]].tier => OnTier(id)
  /\ \A q \in ToSet(queue) : q.kind = "tier_stop" /\ q.id \in DOMAIN sessions => OnTier(q.id)

OneJobPerId ==
  /\ \A i, j \in 1 .. Len(queue) : queue[i].id = queue[j].id => i = j
  /\ \A i \in 1 .. Len(queue) : \A t \in tasks : queue[i].id # t.job.id
  /\ \A t, u \in tasks : t.job.id = u.job.id => t = u

NothingBegins ==
  /\ \A q \in ToSet(queue) : q.kind = "gathered_stop"
  /\ \A t \in tasks : t.job.kind \notin Starts

Gathered ==
  \A p \in 1 .. Len(encoders) : Running(p) =>
    \E q \in ToSet(queue) : q.kind = "gathered_stop" /\ dicts[q.dict].process = p

NoneRuns == \A p \in 1 .. Len(encoders) : ~Running(p)

CanStop ==
  \A p \in 1 .. Len(encoders) : Running(p) => \E id \in DOMAIN sessions : dicts[sessions[id]].process = p

HasSession(s) ==
  \E id \in DOMAIN sessions : dicts[sessions[id]].stream = s /\ dicts[sessions[id]].process # None

Busy == \A s \in LegacyStreams : status[s] = "STREAMING" => HasSession(s)

(* A session whose start is under way is there and has no encoder yet; the   *)
(* task of a stop holds the session's encoder; only sessions of the          *)
(* multi-tier service are ended by it.  No session has two jobs at a time,   *)
(* and once stop() was called nothing is started any more: every encoder     *)
(* that runs has its gathered stop ahead of it.                              *)
InOrder ==
  /\ StartsReady /\ StopsKnow /\ TiersApart /\ CanStop /\ Busy
  /\ IF phase = "up" THEN OneJobPerId ELSE NothingBegins
  /\ phase = "stopping" => Gathered
  /\ phase = "stopped" => NoneRuns

CameraInv == TrackedInv /\ (orderly => InOrder)

LEMMA JobsLeft ==
  ASSUME TypeInv, NEW job, NEW changed, Begun(job, changed)
  PROVE  ToSet(queue) \subseteq ToSet(queue') \cup {job}
<1>1. queue \in Seq(Jobs) /\ queue # <<>> /\ job = queue[1] /\ queue' = Tail(queue)
  BY TypeParts, NextJob DEF Begun
<1>2. /\ Tail(queue) \in Seq(Jobs) /\ Len(Tail(queue)) = Len(queue) - 1 /\ Len(queue) \in Nat \ {0}
      /\ \A i \in 1 .. Len(Tail(queue)) : Tail(queue)[i] = queue[i + 1]
  BY <1>1, HeadTailProperties, EmptySeq
<1>3. DOMAIN queue = 1 .. Len(queue) /\ DOMAIN queue' = 1 .. Len(queue')
  BY <1>1, <1>2
<1>4. ASSUME NEW i \in DOMAIN queue PROVE queue[i] \in ToSet(queue') \cup {job}
  <2>1. CASE i = 1
    BY <1>1, <2>1
  <2>2. CASE i # 1
    <3>1. i - 1 \in 1 .. Len(queue') /\ (i - 1) + 1 = i
      BY <1>1, <1>2, <1>3, <2>2
    <3>2. queue'[i - 1] = queue[i]
      BY <1>1, <1>2, <3>1
    <3> QED  BY <1>3, <3>1, <3>2 DEF ToSet
  <2> QED  BY <2>1, <2>2
<1> QED  BY <1>4 DEF ToSet

(* A job begins: no other job is for its session. *)
LEMMA OneJobMoves ==
  ASSUME TypeInv, NEW job, NEW changed, Begun(job, changed), OneJobPerId,
         \A t \in tasks' : t \in tasks \/ t.job = job,
         \A t, u \in tasks' : t \notin tasks /\ u \notin tasks => t = u
  PROVE  /\ OneJobPerId'
         /\ \A q \in ToSet(queue') : q.id # job.id
         /\ \A t \in tasks : t.job.id # job.id
<1>1. /\ job = queue[1] /\ 1 \in 1 .. Len(queue) /\ queue' \in Seq(Jobs)
      /\ \A i \in 1 .. Len(queue') : i + 1 \in 2 .. Len(queue) /\ queue'[i] = queue[i + 1]
  BY NextJob
<1>2. Len(queue) \in Nat /\ Len(queue') \in Nat /\ DOMAIN queue' = 1 .. Len(queue')
  BY <1>1, TypeParts
<1>3. ASSUME NEW i \in 1 .. Len(queue') PROVE queue'[i].id # job.id
  <2>1. i + 1 \in 1 .. Len(queue) /\ i + 1 # 1
    BY <1>1, <1>2
  <2> QED  BY <1>1, <2>1 DEF OneJobPerId
<1>4. \A t \in tasks : t.job.id # job.id
  BY <1>1 DEF OneJobPerId
<1>5. ASSUME NEW i \in 1 .. Len(queue'), NEW j \in 1 .. Len(queue'), queue'[i].id = queue'[j].id
      PROVE  i = j
  <2>1. i + 1 \in 1 .. Len(queue) /\ j + 1 \in 1 .. Len(queue)
    BY <1>1, <1>2
  <2>2. queue[i + 1].id = queue[j + 1].id
    BY <1>1, <1>5
  <2>3. i + 1 = j + 1
    BY <2>1, <2>2 DEF OneJobPerId
  <2> QED  BY <2>3, <1>2
<1>6. ASSUME NEW i \in 1 .. Len(queue'), NEW t \in tasks' PROVE queue'[i].id # t.job.id
  <2>1. CASE t \in tasks
    <3>1. i + 1 \in 1 .. Len(queue) /\ queue'[i] = queue[i + 1]
      BY <1>1, <1>2
    <3> QED  BY <2>1, <3>1 DEF OneJobPerId
  <2>2. CASE t.job = job
    BY <2>2, <1>3
  <2> QED  BY <2>1, <2>2
<1>7. \A t, u \in tasks' : t.job.id = u.job.id => t = u
  BY <1>4 DEF OneJobPerId
<1>8. OneJobPerId'
  BY <1>5, <1>6, <1>7 DEF OneJobPerId
<1>9. \A q \in ToSet(queue') : q.id # job.id
  BY <1>2, <1>3 DEF ToSet
<1> QED  BY <1>4, <1>8, <1>9

(* A session that is gone: its encoder does not run, its stream is not in     *)
(* use, and nobody starts it.                                                 *)
Gone(id) ==
  /\ \A p \in 1 .. Len(encoders) : dicts[sessions[id]].process = p => ~Running(p)'
  /\ dicts[sessions[id]].process = None \/ OnTier(id) \/ status'[dicts[sessions[id]].stream] # "STREAMING"
  /\ \A q \in ToSet(queue') : q.kind \in Starts => q.id # id
  /\ \A t \in tasks' : t.job.kind \in Starts => t.job.id # id

(* A step that only takes away: sessions, encoders that run, streams in use,  *)
(* and jobs, of which it may make tasks that stop.                            *)
Shrinking ==
  /\ UNCHANGED dicts
  /\ \A id \in DOMAIN sessions' : id \in DOMAIN sessions /\ sessions'[id] = sessions[id]
  /\ \A id \in DOMAIN sessions : id \in DOMAIN sessions' \/ Gone(id)
  /\ Len(encoders') = Len(encoders)
  /\ \A p \in 1 .. Len(encoders) : Running(p)' => Running(p)
  /\ \A s \in Streams : status'[s] = "STREAMING" => status[s] = "STREAMING"
  /\ ToSet(queue') \subseteq ToSet(queue)
  /\ \A t \in tasks' : t \in tasks \/
       /\ t.job.kind \in Stops
       /\ t.job.kind = "stop" /\ t.job.id \in DOMAIN sessions =>
            sessions[t.job.id] = t.dict /\ dicts[t.dict].process = t.encoder

LEMMA Shrinks ==
  ASSUME TypeInv, InOrder, Shrinking,
         phase' = "up" <=> phase = "up",
         phase' = "up" => OneJobPerId',
         phase' = "stopping" => phase = "stopping",
         phase' = "stopping" => \A q \in ToSet(queue) : q \in ToSet(queue') \/ 
             \A p \in 1 .. Len(encoders) : dicts[q.dict].process = p => ~Running(p)',
         phase' = "stopped" => phase = "stopped"
  PROVE  InOrder'
<1>1. \A id \in DOMAIN sessions' :
        /\ id \in DOMAIN sessions /\ sessions'[id] = sessions[id]
        /\ OnTier(id)' = OnTier(id)
  BY DEF Shrinking, OnTier
<1>2. StartsReady'
  <2>1. ASSUME NEW q \in ToSet(queue'), q.kind \in Starts
        PROVE  q.kind # "reconfigure" /\ Ready(q.id)' /\ (q.dict # None => q.dict = sessions'[q.id])
    <3>1. q \in ToSet(queue) /\ ~Gone(q.id)
      BY <2>1 DEF Shrinking, Gone
    <3>2. q.kind # "reconfigure" /\ Ready(q.id) /\ (q.dict # None => q.dict = sessions[q.id])
      BY <2>1, <3>1 DEF InOrder, StartsReady
    <3>3. q.id \in DOMAIN sessions'
      BY <3>1, <3>2 DEF Shrinking, Ready
    <3> QED  BY <1>1, <3>2, <3>3 DEF Shrinking, Ready
  <2>2. ASSUME NEW t \in tasks', t.job.kind \in Starts
        PROVE  t.job.kind # "reconfigure" /\ Ready(t.job.id)' /\ t.dict = sessions'[t.job.id]
    <3>1. t.job.kind \notin Stops
      BY <2>2 DEF Starts, Stops
    <3>2. t \in tasks /\ ~Gone(t.job.id)
      BY <2>2, <3>1 DEF Shrinking, Gone
    <3>3. t.job.kind # "reconfigure" /\ Ready(t.job.id) /\ t.dict = sessions[t.job.id]
      BY <2>2, <3>2 DEF InOrder, StartsReady
    <3>4. t.job.id \in DOMAIN sessions'
      BY <3>2, <3>3 DEF Shrinking, Ready
    <3> QED  BY <1>1, <3>3, <3>4 DEF Shrinking, Ready
  <2> QED  BY <2>1, <2>2 DEF StartsReady
<1>3. StopsKnow'
  BY <1>1 DEF InOrder, StopsKnow, Shrinking
<1>4. TiersApart'
  <2>1. \A id \in DOMAIN sessions' : dicts'[sessions'[id]].tier => OnTier(id)'
    BY <1>1, Zenon DEF InOrder, TiersApart, Shrinking
  <2>2. \A q \in ToSet(queue') : q.kind = "tier_stop" /\ q.id \in DOMAIN sessions' => OnTier(q.id)'
    BY <1>1 DEF InOrder, TiersApart, Shrinking
  <2> QED  BY <2>1, <2>2 DEF TiersApart
<1>5. CanStop'
  <2>1. ASSUME NEW p \in 1 .. Len(encoders), Running(p)'
        PROVE  \E id \in DOMAIN sessions' : dicts'[sessions'[id]].process = p
    <3>1. Running(p)
      BY <2>1 DEF Shrinking
    <3>2. PICK id \in DOMAIN sessions : dicts[sessions[id]].process = p
      BY <3>1 DEF InOrder, CanStop
    <3>3. ~Gone(id)
      BY <2>1, <3>2 DEF Gone
    <3> QED  BY <1>1, <3>2, <3>3 DEF Shrinking
  <2> QED  BY <2>1 DEF CanStop, Shrinking
<1>6. Busy'
  <2>1. ASSUME NEW s \in LegacyStreams, status'[s] = "STREAMING" PROVE HasSession(s)'
    <3>1. s \in Streams /\ s # TierStream
      BY StreamAssumption DEF Streams
    <3>2. status[s] = "STREAMING"
      BY <2>1, <3>1 DEF Shrinking
    <3>3. PICK id \in DOMAIN sessions : dicts[sessions[id]].stream = s /\ dicts[sessions[id]].process # None
      BY <3>2 DEF InOrder, Busy, HasSession
    <3>4. ~Gone(id)
      BY <2>1, <3>1, <3>3 DEF Gone, OnTier
    <3> QED  BY <1>1, <3>3, <3>4 DEF Shrinking, HasSession
  <2> QED  BY <2>1 DEF Busy
<1>7. CASE phase' = "up"
  BY <1>2, <1>3, <1>4, <1>5, <1>6, <1>7 DEF InOrder
<1>8. CASE phase' # "up"
  <2>1. NothingBegins
    BY <1>8 DEF InOrder
  <2>2. NothingBegins'
    <3>1. \A q \in ToSet(queue') : q.kind = "gathered_stop"
      BY <2>1 DEF NothingBegins, Shrinking
    <3>2. \A t \in tasks' : t.job.kind \notin Starts
      BY <2>1 DEF NothingBegins, Shrinking, Starts, Stops
    <3> QED  BY <3>1, <3>2 DEF NothingBegins
  <2>3. ASSUME phase' = "stopping" PROVE Gathered'
    <3>1. ASSUME NEW p \in 1 .. Len(encoders), Running(p)'
          PROVE  \E q \in ToSet(queue') : q.kind = "gathered_stop" /\ dicts'[q.dict].process = p
      <4>1. PICK q \in ToSet(queue) : q.kind = "gathered_stop" /\ dicts[q.dict].process = p
        BY <2>3, <3>1 DEF InOrder, Gathered, Shrinking
      <4>2. q \in ToSet(queue')
        BY <2>3, <3>1, <4>1
      <4> QED  BY <4>1, <4>2 DEF Shrinking
    <3> QED  BY <3>1 DEF Gathered, Shrinking
  <2>4. ASSUME phase' = "stopped" PROVE NoneRuns'
    BY <2>4 DEF InOrder, NoneRuns, Shrinking
  <2> QED  BY <1>2, <1>3, <1>4, <1>5, <1>6, <1>8, <2>2, <2>3, <2>4 DEF InOrder
<1> QED  BY <1>7, <1>8

LEMMA OrderSame ==
  ASSUME TypeInv, InOrder, UNCHANGED <<sessions, dicts, encoders, queue, tasks, phase>>,
         \A s \in Streams : status'[s] = "STREAMING" => status[s] = "STREAMING"
  PROVE  InOrder'
<1>1. Shrinking
  BY DEF Shrinking, Running
<1>2. phase' = "up" => OneJobPerId'
  BY DEF InOrder, OneJobPerId
<1> QED  BY <1>1, <1>2, Shrinks

LEMMA OrderFindsNothing == ASSUME TypeInv, InOrder, NEW job, FindsNothing(job) PROVE InOrder'
<1>1. /\ Begun(job, <<sessions, dicts, encoders, status, tasks, listener, phase, orderly>>)
      /\ UNCHANGED <<sessions, dicts, encoders, status, tasks, phase>>
      /\ job.kind # "gathered_stop"
  BY DEF FindsNothing, Begun
<1>2. ToSet(queue') \subseteq ToSet(queue) /\ ToSet(queue) \subseteq ToSet(queue') \cup {job}
      /\ job \in ToSet(queue)
  BY <1>1, NextJob, JobsLeft
<1>3. Shrinking
  BY <1>1, <1>2 DEF Shrinking, Running
<1>4. phase = "up"
  BY <1>1, <1>2 DEF InOrder, NothingBegins
<1>5. OneJobPerId'
  BY <1>1, <1>4, OneJobMoves DEF InOrder
<1> QED  BY <1>1, <1>3, <1>4, <1>5, Shrinks

(* What is left to show when a stop begins, and its encoder p runs no more.   *)
LEMMA OrderStopBegins ==
  ASSUME TypeInv, InOrder, NEW job, NEW changed, Begun(job, changed),
         job.kind \in Stops, HasDict(job), UNCHANGED dicts,
         \A id \in DOMAIN sessions' : id \in DOMAIN sessions /\ sessions'[id] = sessions[id],
         \A id \in DOMAIN sessions : id \in DOMAIN sessions' \/
            (id = job.id /\ (job.kind = "stop" \/ job.kind = "tier_stop")),
         job.kind = "stop" /\ job.id \in DOMAIN sessions =>
            job.id \in DOMAIN sessions' \/ dicts[sessions[job.id]].process = None,
         Len(encoders') = Len(encoders),
         \A i \in 1 .. Len(encoders) : Running(i)' => Running(i) /\ dicts[DictOf(job)].process # i,
         \A s \in Streams : status'[s] = "STREAMING" => status[s] = "STREAMING",
         tasks' = tasks \/ tasks' = tasks \cup {Awaiting(job, dicts[DictOf(job)].process)},
         phase' = phase \/ (phase = "stopping" /\ phase' = "failed")
  PROVE  InOrder'
<1>1. /\ ToSet(queue') \subseteq ToSet(queue) /\ ToSet(queue) \subseteq ToSet(queue') \cup {job}
      /\ job \in ToSet(queue) /\ DictOf(job) \in 1 .. Len(dicts)
  BY NextJob, JobsLeft
<1>2. job.kind # "gathered_stop" => phase = "up"
  BY <1>1 DEF InOrder, NothingBegins
<1>3. job.kind \notin Starts
  BY DEF Starts, Stops
<1>4. job.kind \in {"stop", "tier_stop"} => job.dict = None /\ DictOf(job) = sessions[job.id] /\ job.id \in DOMAIN sessions
  <2>1. job.kind \in {"tier_start", "gathered_stop"} <=> job.dict # None
    BY <1>1 DEF TypeInv
  <2> QED  BY <2>1 DEF DictOf, HasDict
<1>5. \A t \in tasks' : t \in tasks \/
        (t.job = job /\ t.dict = DictOf(job) /\ t.encoder = dicts[DictOf(job)].process)
  BY DEF Awaiting
<1>6. \A t, u \in tasks' : t \notin tasks /\ u \notin tasks => t = u
  OBVIOUS
<1>7. phase = "up" => /\ OneJobPerId'
                      /\ \A q \in ToSet(queue') : q.id # job.id
                      /\ \A t \in tasks : t.job.id # job.id
  <2>1. \A t \in tasks' : t \in tasks \/ t.job = job
    BY <1>5
  <2> QED  BY <1>6, <2>1, OneJobMoves DEF InOrder
<1>8. ASSUME NEW id \in DOMAIN sessions, id \notin DOMAIN sessions' PROVE Gone(id)
  <2>1. id = job.id /\ job.kind \in {"stop", "tier_stop"} /\ phase = "up"
    BY <1>2, <1>8
  <2>2. DictOf(job) = sessions[id]
    BY <1>4, <2>1
  <2>3. \A p \in 1 .. Len(encoders) : dicts[sessions[id]].process = p => ~Running(p)'
    BY <2>2
  <2>4. dicts[sessions[id]].process = None \/ OnTier(id)
    <3>1. CASE job.kind = "stop"
      BY <1>4, <1>8, <2>1, <3>1
    <3>2. CASE job.kind = "tier_stop"
      BY <1>1, <2>1, <3>2 DEF InOrder, TiersApart
    <3> QED  BY <2>1, <3>1, <3>2
  <2>5. \A q \in ToSet(queue') : q.kind \in Starts => q.id # id
    BY <1>7, <2>1
  <2>6. \A t \in tasks' : t.job.kind \in Starts => t.job.id # id
    BY <1>3, <1>5, <1>7, <2>1
  <2> QED  BY <2>3, <2>4, <2>5, <2>6 DEF Gone
<1>9. Shrinking
  <2>1. \A t \in tasks' : t \in tasks \/
          /\ t.job.kind \in Stops
          /\ t.job.kind = "stop" /\ t.job.id \in DOMAIN sessions =>
               sessions[t.job.id] = t.dict /\ dicts[t.dict].process = t.encoder
    BY <1>4, <1>5
  <2> QED  BY <1>1, <1>8, <2>1 DEF Shrinking
<1>10. \A q \in ToSet(queue) : q \in ToSet(queue') \/
         \A p \in 1 .. Len(encoders) : dicts[q.dict].process = p => ~Running(p)' \/ phase' # "stopping"
  <2>1. CASE phase' = "stopping"
    <3>1. job.kind = "gathered_stop"
      BY <1>2, <2>1
    <3>2. DictOf(job) = job.dict
      BY <1>1, <3>1 DEF TypeInv, DictOf
    <3> QED  BY <1>1, <3>2
  <2> QED  BY <2>1
<1> QED  BY <1>7, <1>9, <1>10, Shrinks

LEMMA OrderBeginStop == ASSUME TrackedInv, InOrder, NEW job, BeginStop(job) PROVE InOrder'
<1> DEFINE p == dicts[DictOf(job)].process
<1>1. /\ TypeInv /\ Len(encoders') = Len(encoders)
      /\ \A i \in 1 .. Len(encoders) :
           encoders'[i].state = IF i = p THEN "terminated" ELSE encoders[i].state
  BY DoesBeginStop DEF TrackedInv
<1>2. /\ Begun(job, <<dicts, status, listener, phase, orderly>>)
      /\ job.kind \in Stops /\ HasDict(job) /\ UNCHANGED <<dicts, status, phase>>
      /\ sessions' = SessionsFor(job) /\ tasks' = tasks \cup {Awaiting(job, p)}
  BY DEF BeginStop, Begun
<1>3. /\ \A id \in DOMAIN sessions' : id \in DOMAIN sessions /\ sessions'[id] = sessions[id]
      /\ \A id \in DOMAIN sessions : id \in DOMAIN sessions' \/
            (id = job.id /\ (job.kind = "stop" \/ job.kind = "tier_stop"))
      /\ job.kind = "stop" => DOMAIN sessions' = DOMAIN sessions
  BY <1>2, SessionsForShrinks
<1>4. \A i \in 1 .. Len(encoders) : Running(i)' => Running(i) /\ p # i
  BY <1>1 DEF Running
<1> QED  BY <1>1, <1>2, <1>3, <1>4, OrderStopBegins

LEMMA OrderStopRaises == ASSUME TrackedInv, InOrder, NEW job, StopRaises(job) PROVE InOrder'
<1> DEFINE p == dicts[DictOf(job)].process
<1>1. /\ TypeInv /\ p \in 1 .. Len(encoders) /\ Len(encoders') = Len(encoders)
      /\ \A i \in 1 .. Len(encoders) : encoders'[i].state = encoders[i].state
      /\ \A i \in 1 .. Len(encoders) :
           encoders'[i].state = IF i = p /\ encoders[i].state # "ended" THEN "terminated"
                                ELSE encoders[i].state
  BY DoesStopRaises, StopRaisesForNothing DEF TrackedInv
<1>2. /\ Begun(job, <<dicts, status, tasks, listener, orderly>>)
      /\ job.kind \in Stops /\ HasDict(job) /\ UNCHANGED <<dicts, status, tasks>>
      /\ sessions' = SessionsFor(job)
      /\ phase' = phase \/ (phase = "stopping" /\ phase' = "failed")
  BY DEF StopRaises, Begun
<1>3. /\ \A id \in DOMAIN sessions' : id \in DOMAIN sessions /\ sessions'[id] = sessions[id]
      /\ \A id \in DOMAIN sessions : id \in DOMAIN sessions' \/
            (id = job.id /\ (job.kind = "stop" \/ job.kind = "tier_stop"))
      /\ job.kind = "stop" => DOMAIN sessions' = DOMAIN sessions
  BY <1>2, SessionsForShrinks
<1>4. \A i \in 1 .. Len(encoders) : Running(i)' => Running(i) /\ p # i
  BY <1>1 DEF Running
<1> QED  BY <1>1, <1>2, <1>3, <1>4, OrderStopBegins

LEMMA OrderStopsNothing == ASSUME TypeInv, InOrder, NEW job, StopsNothing(job) PROVE InOrder'
<1>1. /\ Begun(job, <<dicts, encoders, tasks, listener, phase, orderly>>)
      /\ job.kind \in Stops /\ HasDict(job) /\ UNCHANGED <<dicts, encoders, tasks, phase>>
      /\ dicts[DictOf(job)].process = None /\ AfterStop(job, dicts[DictOf(job)].stream)
  BY DEF StopsNothing, Begun
<1>2. job \in Jobs /\ job \in ToSet(queue) /\ DictOf(job) \in 1 .. Len(dicts)
  BY <1>1, NextJob
<1>3. /\ DOMAIN sessions' = IF job.kind = "gathered_stop" THEN DOMAIN sessions
                            ELSE DOMAIN sessions \ {job.id}
      /\ \A id \in DOMAIN sessions' : sessions'[id] = sessions[id]
      /\ \A s \in Streams : status'[s] = "STREAMING" => status[s] = "STREAMING"
  BY <1>1, <1>2, StreamOfDict, AfterStopShrinks
<1>4. \A id \in DOMAIN sessions : id \in DOMAIN sessions' \/
            (id = job.id /\ (job.kind = "stop" \/ job.kind = "tier_stop"))
  BY <1>1, <1>3 DEF Stops
<1>5. job.kind = "stop" /\ job.id \in DOMAIN sessions => dicts[sessions[job.id]].process = None
  <2>1. job.kind = "stop" => job.dict = None
    BY <1>2 DEF TypeInv
  <2> QED  BY <1>1, <2>1 DEF DictOf
<1>6. \A i \in 1 .. Len(encoders) : Running(i)' => Running(i) /\ dicts[DictOf(job)].process # i
  BY <1>1 DEF Running, None
<1>7. \A id \in DOMAIN sessions' : id \in DOMAIN sessions /\ sessions'[id] = sessions[id]
  BY <1>3
<1> QED  BY <1>1, <1>3, <1>4, <1>5, <1>6, <1>7, OrderStopBegins

LEMMA OrderFinishStop == ASSUME TrackedInv, InOrder, NEW t \in tasks, FinishStop(t) PROVE InOrder'
<1>1. /\ TypeInv
      /\ DOMAIN sessions' = IF t.job.kind = "stop" THEN DOMAIN sessions \ {t.job.id} ELSE DOMAIN sessions
      /\ \A id \in DOMAIN sessions' : sessions'[id] = sessions[id]
      /\ \A s \in Streams : status'[s] = "STREAMING" => status[s] = "STREAMING"
      /\ t.job.kind = "stop" /\ t.job.id \in DOMAIN sessions =>
           status'[dicts[t.dict].stream] = "AVAILABLE"
  BY DoesFinishStop DEF TrackedInv
<1>2. /\ UNCHANGED <<dicts, encoders, queue, phase>> /\ tasks' = tasks \ {t}
      /\ t.job.kind \in Stops /\ encoders[t.encoder].state = "ended"
  BY DEF FinishStop
<1>3. phase = "up" => OneJobPerId'
  BY <1>2 DEF InOrder, OneJobPerId
<1>4. ASSUME NEW id \in DOMAIN sessions, id \notin DOMAIN sessions' PROVE Gone(id)
  <2>1. t.job.kind = "stop" /\ t.job.id = id
    BY <1>1, <1>4
  <2>2. sessions[id] = t.dict /\ dicts[sessions[id]].process = t.encoder
    BY <2>1 DEF InOrder, StopsKnow
  <2>3. \A p \in 1 .. Len(encoders) : dicts[sessions[id]].process = p => ~Running(p)'
    BY <1>2, <2>2 DEF Running
  <2>4. status'[dicts[sessions[id]].stream] # "STREAMING"
    BY <1>1, <2>1, <2>2
  <2>5. \A q \in ToSet(queue') : q.kind \in Starts => q.id # id
    <3>1. CASE phase = "up"
      <4>1. \A i \in 1 .. Len(queue) : queue[i].id # id
        BY <2>1, <3>1 DEF InOrder, OneJobPerId
      <4>2. DOMAIN queue = 1 .. Len(queue)
        BY <1>1, TypeParts
      <4> QED  BY <1>2, <4>1, <4>2 DEF ToSet
    <3>2. CASE phase # "up"
      BY <1>2, <3>2 DEF InOrder, NothingBegins, Starts
    <3> QED  BY <3>1, <3>2
  <2>6. \A u \in tasks' : u.job.kind \in Starts => u.job.id # id
    <3>1. CASE phase = "up"
      BY <1>2, <2>1, <3>1 DEF InOrder, OneJobPerId
    <3>2. CASE phase # "up"
      BY <1>2, <3>2 DEF InOrder, NothingBegins
    <3> QED  BY <3>1, <3>2
  <2> QED  BY <2>3, <2>4, <2>5, <2>6 DEF Gone
<1>5. Shrinking
  BY <1>1, <1>2, <1>4 DEF Shrinking, Running
<1> QED  BY <1>1, <1>2, <1>3, <1>5, Shrinks

LEMMA OrderStartFails == ASSUME TrackedInv, InOrder, NEW t \in tasks, StartFails(t) PROVE InOrder'
<1>1. /\ TypeInv
      /\ DOMAIN sessions' = IF t.job.kind = "tier_start" THEN DOMAIN sessions
                            ELSE DOMAIN sessions \ {t.job.id}
      /\ \A id \in DOMAIN sessions' : sessions'[id] = sessions[id]
      /\ Len(encoders') = Len(encoders)
      /\ \A i \in 1 .. Len(encoders) :
           encoders'[i].state = IF i = t.encoder THEN "ended" ELSE encoders[i].state
      /\ \A s \in Streams : status'[s] = "STREAMING" => status[s] = "STREAMING"
  BY DoesStartFails DEF TrackedInv
<1>2. /\ UNCHANGED <<dicts, queue, phase>> /\ tasks' = tasks \ {t} /\ t.job.kind \in Starts
  BY DEF StartFails
<1>3. phase = "up" /\ Ready(t.job.id)
  BY <1>2 DEF InOrder, NothingBegins, StartsReady
<1>4. OneJobPerId /\ OneJobPerId'
  BY <1>2, <1>3 DEF InOrder, OneJobPerId
<1>5. ASSUME NEW id \in DOMAIN sessions, id \notin DOMAIN sessions' PROVE Gone(id)
  <2>1. t.job.id = id
    BY <1>1, <1>5
  <2>2. dicts[sessions[id]].process = None
    BY <1>3, <2>1 DEF Ready
  <2>3. \A q \in ToSet(queue') : q.id # id
    <3>1. \A i \in 1 .. Len(queue) : queue[i].id # id
      BY <1>4, <2>1 DEF OneJobPerId
    <3>2. DOMAIN queue = 1 .. Len(queue)
      BY <1>1, TypeParts
    <3> QED  BY <1>2, <3>1, <3>2 DEF ToSet
  <2>4. \A u \in tasks' : u.job.id # id
    BY <1>2, <1>4, <2>1 DEF OneJobPerId
  <2> QED  BY <2>2, <2>3, <2>4 DEF Gone, None
<1>6. \A p \in 1 .. Len(encoders) : Running(p)' => Running(p)
  BY <1>1 DEF Running
<1>7. Shrinking
  BY <1>1, <1>2, <1>5, <1>6 DEF Shrinking
<1> QED  BY <1>1, <1>2, <1>3, <1>4, <1>7, Shrinks

LEMMA OrderEncoderEnds == ASSUME TrackedInv, InOrder, NEW p, EncoderEnds(p) PROVE InOrder'
<1>1. /\ TypeInv /\ Len(encoders') = Len(encoders)
      /\ \A i \in 1 .. Len(encoders) :
           encoders'[i].state = IF i = p THEN "ended" ELSE encoders[i].state
  BY DoesEncoderEnds DEF TrackedInv
<1>2. UNCHANGED <<sessions, dicts, status, queue, tasks, phase>>
  BY DEF EncoderEnds
<1>3. \A i \in 1 .. Len(encoders) : Running(i)' => Running(i)
  BY <1>1 DEF Running
<1>4. Shrinking
  BY <1>1, <1>2, <1>3 DEF Shrinking
<1>5. phase = "up" => OneJobPerId'
  BY <1>2 DEF InOrder, OneJobPerId
<1> QED  BY <1>1, <1>2, <1>4, <1>5, Shrinks

LEMMA OrderSetEndpoints ==
  ASSUME TrackedInv, InOrder, NEW id \in Ids, NEW stream \in Streams, SetEndpoints(id, stream), orderly'
  PROVE  InOrder'
<1> DEFINE e == [id |-> id, stream |-> stream, tier |-> FALSE, process |-> None]
<1>1. /\ dicts' = Append(dicts, e) /\ sessions' = Named(id, Len(dicts'))
      /\ UNCHANGED <<encoders, status, queue, tasks, phase>>
      /\ phase = "up" /\ id \notin DOMAIN sessions /\ ~UnderWay(id) /\ TypeInv
  BY DEF SetEndpoints, Writing, TrackedInv
<1>2. e \in Dicts
  BY DEF Dicts, None
<1>3. ~e.tier
  OBVIOUS
<1> HIDE DEF e
<1>4. /\ Len(dicts') = Len(dicts) + 1
      /\ \A i \in 1 .. Len(dicts) : dicts'[i] = dicts[i]
      /\ dicts'[Len(dicts) + 1] = e
  BY <1>1, <1>2, TypeParts, ElementsOfAppend
<1>5. /\ DOMAIN sessions' = DOMAIN sessions \cup {id}
      /\ \A i \in DOMAIN sessions' : sessions'[i] = IF i = id THEN Len(dicts') ELSE sessions[i]
  BY <1>1 DEF Named
<1>6. \A i \in DOMAIN sessions :
        /\ i # id /\ i \in DOMAIN sessions' /\ sessions'[i] = sessions[i]
        /\ dicts'[sessions'[i]] = dicts[sessions[i]]
  <2>1. \A i \in DOMAIN sessions : sessions[i] \in 1 .. Len(dicts)
    BY <1>1, TypeParts
  <2> QED  BY <1>1, <1>4, <1>5, <2>1
<1>7. \A q \in ToSet(queue) : q.id # id
  BY <1>1 DEF UnderWay
<1>8. \A t \in tasks : t.job.id # id
  BY <1>1 DEF UnderWay
<1>9. StartsReady'
  <2>1. UNCHANGED <<queue, tasks>>
    BY <1>1
  <2>2. \A q \in ToSet(queue) : q.kind \in Starts => q.kind # "reconfigure" /\ Ready(q.id) /\ (q.dict # None => q.dict = sessions[q.id])
    BY DEF InOrder, StartsReady
  <2>3. \A t \in tasks : t.job.kind \in Starts => t.job.kind # "reconfigure" /\ Ready(t.job.id) /\ t.dict = sessions[t.job.id]
    BY DEF InOrder, StartsReady
  <2>4. \A i : Ready(i) => Ready(i)' /\ sessions'[i] = sessions[i]
    BY <1>6 DEF Ready
  <2> QED  BY <2>1, <2>2, <2>3, <2>4 DEF StartsReady
<1>10. StopsKnow'
  <2>1. ASSUME NEW t \in tasks, t.job.kind = "stop", t.job.id \in DOMAIN sessions'
        PROVE  sessions'[t.job.id] = t.dict /\ dicts'[t.dict].process = t.encoder
    <3>1. t.job.id \in DOMAIN sessions
      BY <1>5, <1>8, <2>1
    <3>2. sessions[t.job.id] = t.dict /\ dicts[t.dict].process = t.encoder
      BY <2>1, <3>1 DEF InOrder, StopsKnow
    <3> QED  BY <1>6, <3>1, <3>2
  <2> QED  BY <1>1, <2>1 DEF StopsKnow
<1>11. TiersApart'
  <2>1. ASSUME NEW i \in DOMAIN sessions', dicts'[sessions'[i]].tier PROVE OnTier(i)'
    <3>1. i # id
      BY <1>3, <1>4, <1>5, <2>1, Zenon
    <3>2. i \in DOMAIN sessions
      BY <1>5, <3>1
    <3>3. dicts[sessions[i]].tier
      BY <1>6, <2>1, <3>2, Zenon
    <3>4. OnTier(i)
      BY <3>2, <3>3, Zenon DEF InOrder, TiersApart
    <3> QED  BY <1>6, <3>2, <3>4 DEF OnTier
  <2>2. ASSUME NEW q \in ToSet(queue'), q.kind = "tier_stop", q.id \in DOMAIN sessions' PROVE OnTier(q.id)'
    <3>1. q.id \in DOMAIN sessions /\ q \in ToSet(queue)
      BY <1>1, <1>5, <1>7, <2>2
    <3>2. OnTier(q.id)
      BY <2>2, <3>1 DEF InOrder, TiersApart
    <3> QED  BY <1>6, <3>1, <3>2 DEF OnTier
  <2> QED  BY <2>1, <2>2 DEF TiersApart
<1>12. CanStop'
  <2>1. ASSUME NEW p \in 1 .. Len(encoders), Running(p)
        PROVE  \E i \in DOMAIN sessions' : dicts'[sessions'[i]].process = p
    <3>1. PICK i \in DOMAIN sessions : dicts[sessions[i]].process = p
      BY <2>1 DEF InOrder, CanStop
    <3> QED  BY <1>6, <3>1
  <2> QED  BY <1>1, <2>1 DEF CanStop, Running
<1>13. Busy'
  <2>1. ASSUME NEW s \in LegacyStreams, status[s] = "STREAMING" PROVE HasSession(s)'
    <3>1. PICK i \in DOMAIN sessions : dicts[sessions[i]].stream = s /\ dicts[sessions[i]].process # None
      BY <2>1 DEF InOrder, Busy, HasSession
    <3> QED  BY <1>6, <3>1 DEF HasSession
  <2> QED  BY <1>1, <2>1 DEF Busy
<1>14. OneJobPerId'
  BY <1>1 DEF InOrder, OneJobPerId
<1> QED  BY <1>1, <1>9, <1>10, <1>11, <1>12, <1>13, <1>14 DEF InOrder

(* A write adds a job for a session nothing is under way for. *)
LEMMA OrderAddJob ==
  ASSUME TypeInv, InOrder, phase = "up", NEW job \in Jobs, queue' = Append(queue, job),
         UNCHANGED <<sessions, encoders, status, tasks, phase>>,
         ~UnderWay(job.id),
         Len(dicts') = Len(dicts),
         \A d \in 1 .. Len(dicts) : /\ dicts'[d].stream = dicts[d].stream
                                    /\ dicts'[d].process = dicts[d].process
                                    /\ dicts'[d].tier => dicts[d].tier \/ dicts[d].stream = TierStream,
         job.kind \in Starts => /\ job.kind # "reconfigure" /\ Ready(job.id)
                                /\ job.dict # None => job.dict = sessions[job.id],
         job.kind = "tier_stop" => OnTier(job.id)
  PROVE  InOrder'
<1>1. /\ Len(queue') = Len(queue) + 1 /\ Len(queue) \in Nat
      /\ \A i \in 1 .. Len(queue) : queue'[i] = queue[i]
      /\ queue'[Len(queue) + 1] = job
      /\ ToSet(queue') = ToSet(queue) \cup {job}
      /\ DOMAIN queue = 1 .. Len(queue)
  BY TypeParts, ElementsOfAppend
<1>2. \A i \in DOMAIN sessions : sessions[i] \in 1 .. Len(dicts)
  BY TypeParts
<1>3. (\A q \in ToSet(queue) : q.id # job.id) /\ (\A t \in tasks : t.job.id # job.id)
  BY DEF UnderWay
<1>4. \A i \in 1 .. Len(queue) : queue[i].id # job.id
  BY <1>1, <1>3 DEF ToSet
<1>5. \A i : Ready(i) => Ready(i)'
  BY <1>2 DEF Ready
<1>6. \A i \in DOMAIN sessions : OnTier(i)' = OnTier(i)
  BY <1>2 DEF OnTier
<1>7. StartsReady'
  <2>1. \A q \in ToSet(queue) : q.kind \in Starts =>
          q.kind # "reconfigure" /\ Ready(q.id) /\ (q.dict # None => q.dict = sessions[q.id])
    BY DEF InOrder, StartsReady
  <2>2. \A t \in tasks : t.job.kind \in Starts =>
          t.job.kind # "reconfigure" /\ Ready(t.job.id) /\ t.dict = sessions[t.job.id]
    BY DEF InOrder, StartsReady
  <2>3. ToSet(queue') = ToSet(queue) \cup {job} /\ UNCHANGED <<sessions, tasks>>
    BY <1>1
  <2> QED  BY <1>5, <2>1, <2>2, <2>3 DEF StartsReady
<1>8. StopsKnow'
  BY <1>2 DEF InOrder, StopsKnow
<1>9. TiersApart'
  <2>1. ASSUME NEW i \in DOMAIN sessions, dicts'[sessions[i]].tier PROVE OnTier(i)'
    <3>1. dicts[sessions[i]].tier \/ dicts[sessions[i]].stream = TierStream
      BY <1>2, <2>1, Zenon
    <3>2. OnTier(i)
      BY <3>1, Zenon DEF InOrder, TiersApart, OnTier
    <3> QED  BY <1>6, <3>2, Zenon
  <2>2. ASSUME NEW q \in ToSet(queue'), q.kind = "tier_stop", q.id \in DOMAIN sessions PROVE OnTier(q.id)'
    <3>1. OnTier(q.id)
      BY <1>1, <2>2 DEF InOrder, TiersApart
    <3> QED  BY <1>6, <2>2, <3>1
  <2>3. UNCHANGED sessions
    OBVIOUS
  <2> QED  BY <2>1, <2>2, <2>3, Zenon DEF TiersApart
<1>10. CanStop'
  BY <1>2 DEF InOrder, CanStop, Running
<1>11. Busy'
  BY <1>2 DEF InOrder, Busy, HasSession
<1>12. OneJobPerId'
  <2>1. OneJobPerId
    BY DEF InOrder
  <2>2. \A i \in 1 .. Len(queue') : i \in 1 .. Len(queue) \/ i = Len(queue) + 1
    BY <1>1
  <2>3. ASSUME NEW i \in 1 .. Len(queue'), NEW j \in 1 .. Len(queue'), queue'[i].id = queue'[j].id
        PROVE  i = j
    BY <1>1, <1>4, <2>1, <2>2, <2>3 DEF OneJobPerId
  <2>4. ASSUME NEW i \in 1 .. Len(queue'), NEW t \in tasks PROVE queue'[i].id # t.job.id
    BY <1>1, <1>3, <2>1, <2>2 DEF OneJobPerId
  <2> QED  BY <2>1, <2>3, <2>4 DEF OneJobPerId
<1> QED  BY <1>7, <1>8, <1>9, <1>10, <1>11, <1>12 DEF InOrder

LEMMA OrderSelect ==
  ASSUME TypeInv, InOrder, NEW kind \in {"start", "stop", "reconfigure"}, NEW id \in Ids,
         SetSelectedStreamConfiguration(kind, id), orderly'
  PROVE  InOrder'
<1> DEFINE job == Job(kind, id, None)
<1>1. /\ phase = "up" /\ ~UnderWay(id) /\ id \in DOMAIN sessions
      /\ kind # "reconfigure" /\ (kind = "start" => Idle(id))
      /\ UNCHANGED <<sessions, dicts, encoders, status, tasks, phase>>
  BY DEF SetSelectedStreamConfiguration, AddJob, Writing, SetUpOn
<1>2. job \in Jobs /\ queue' = Append(queue, job)
  BY DoesSelect
<1>3. job.kind = kind /\ job.id = id /\ job.dict = None
  BY DEF Job
<1> HIDE DEF job
<1>4. job.kind \in Starts => /\ job.kind # "reconfigure" /\ Ready(job.id)
                             /\ job.dict # None => job.dict = sessions[job.id]
  BY <1>1, <1>3 DEF Starts, Ready, Idle
<1>5. job.kind # "tier_stop"
  BY <1>3
<1>6. ~UnderWay(job.id)
  BY <1>1, <1>3
<1> QED  BY <1>1, <1>2, <1>4, <1>5, <1>6, OrderAddJob

LEMMA OrderStartTier ==
  ASSUME TypeInv, InOrder, NEW id \in Ids, StartTierStream(id), orderly' PROVE InOrder'
<1> DEFINE job == Job("tier_start", id, sessions[id])
<1>1. /\ phase = "up" /\ ~UnderWay(id) /\ id \in DOMAIN sessions
      /\ OnTier(id) /\ Idle(id)
      /\ UNCHANGED <<sessions, encoders, status, tasks, phase>>
  BY DEF StartTierStream, AddJob, Writing, SetUpOn, OnTier
<1>2. /\ job \in Jobs /\ queue' = Append(queue, job) /\ Len(dicts') = Len(dicts)
      /\ \A d \in 1 .. Len(dicts) : /\ dicts'[d].stream = dicts[d].stream
                                    /\ dicts'[d].process = dicts[d].process
                                    /\ dicts'[d].tier => dicts[d].tier \/ d = sessions[id]
  BY DoesStartTier, Zenon
<1>3. job.kind = "tier_start" /\ job.id = id /\ job.dict = sessions[id]
  BY DEF Job
<1> HIDE DEF job
<1>4. job.kind \in Starts => /\ job.kind # "reconfigure" /\ Ready(job.id)
                             /\ job.dict # None => job.dict = sessions[job.id]
  BY <1>1, <1>3 DEF Starts, Ready, Idle
<1>5. job.kind # "tier_stop"
  BY <1>3
<1>6. ~UnderWay(job.id)
  BY <1>1, <1>3
<1>7. \A d \in 1 .. Len(dicts) :
        /\ dicts'[d].stream = dicts[d].stream
        /\ dicts'[d].process = dicts[d].process
        /\ dicts'[d].tier => dicts[d].tier \/ dicts[d].stream = TierStream
  BY <1>1, <1>2, Zenon DEF OnTier
<1> QED  BY <1>1, <1>2, <1>4, <1>5, <1>6, <1>7, OrderAddJob

LEMMA OrderEndTier ==
  ASSUME TypeInv, InOrder, NEW id \in Ids, EndTierStream(id), orderly' PROVE InOrder'
<1> DEFINE job == Job("tier_stop", id, None)
<1>1. /\ phase = "up" /\ ~UnderWay(id) /\ id \in DOMAIN sessions
      /\ dicts[sessions[id]].tier
      /\ UNCHANGED <<sessions, dicts, encoders, status, tasks, phase>>
  BY DEF EndTierStream, AddJob, Writing
<1>2. job \in Jobs /\ queue' = Append(queue, job)
  BY DoesEndTier
<1>3. job.kind = "tier_stop" /\ job.id = id
  BY DEF Job
<1> HIDE DEF job
<1>4. OnTier(job.id)
  BY <1>1, <1>3, Zenon DEF InOrder, TiersApart
<1>5. job.kind \notin Starts
  BY <1>3 DEF Starts
<1>6. ~UnderWay(job.id)
  BY <1>1, <1>3
<1> QED  BY <1>1, <1>2, <1>4, <1>5, <1>6, OrderAddJob

LEMMA OrderBeginStart == ASSUME TrackedInv, InOrder, NEW job, BeginStart(job) PROVE InOrder'
<1> DEFINE u == Awaiting(job, Len(encoders) + 1)
<1>1. /\ TypeInv /\ Len(encoders') = Len(encoders) + 1 /\ Len(encoders) \in Nat
      /\ \A p \in 1 .. Len(encoders) : encoders'[p] = encoders[p]
      /\ encoders'[Len(encoders) + 1].state = "spawning"
      /\ tasks' = tasks \cup {u}
  BY DoesBeginStart, TypeParts DEF TrackedInv
<1>2. /\ Begun(job, <<sessions, dicts, status, listener, phase, orderly>>)
      /\ UNCHANGED <<sessions, dicts, status, phase>> /\ job.kind \in Starts
  BY DEF BeginStart, Begun
<1>3. u.job = job /\ u.dict = DictOf(job)
  BY DEF Awaiting
<1> HIDE DEF u
<1>4. job \in ToSet(queue) /\ ToSet(queue') \subseteq ToSet(queue)
  BY <1>1, <1>2, NextJob
<1>5. phase = "up"
  BY <1>2, <1>4 DEF InOrder, NothingBegins, Starts
<1>6. /\ job.kind # "reconfigure" /\ Ready(job.id)
      /\ DictOf(job) = sessions[job.id]
  BY <1>2, <1>4 DEF InOrder, StartsReady, DictOf
<1>7. StartsReady'
  <2>1. \A q \in ToSet(queue) : q.kind \in Starts =>
          q.kind # "reconfigure" /\ Ready(q.id) /\ (q.dict # None => q.dict = sessions[q.id])
    BY DEF InOrder, StartsReady
  <2>2. \A t \in tasks : t.job.kind \in Starts =>
          t.job.kind # "reconfigure" /\ Ready(t.job.id) /\ t.dict = sessions[t.job.id]
    BY DEF InOrder, StartsReady
  <2>3. \A i : Ready(i) => Ready(i)'
    BY <1>2 DEF Ready
  <2> QED  BY <1>1, <1>2, <1>3, <1>4, <1>6, <2>1, <2>2, <2>3 DEF StartsReady
<1>8. StopsKnow'
  <2>1. job.kind # "stop"
    BY <1>2 DEF Starts
  <2> QED  BY <1>1, <1>2, <1>3, <2>1 DEF InOrder, StopsKnow
<1>9. TiersApart'
  <2>1. \A id \in DOMAIN sessions : OnTier(id)' = OnTier(id)
    BY <1>2 DEF OnTier
  <2>2. \A id \in DOMAIN sessions' : dicts'[sessions'[id]].tier => OnTier(id)'
    BY <1>2, <2>1, Zenon DEF InOrder, TiersApart
  <2>3. \A q \in ToSet(queue') : q.kind = "tier_stop" /\ q.id \in DOMAIN sessions' => OnTier(q.id)'
    BY <1>2, <1>4, <2>1 DEF InOrder, TiersApart
  <2> QED  BY <2>2, <2>3 DEF TiersApart
<1>10. CanStop'
  <2>1. ASSUME NEW p \in 1 .. Len(encoders'), Running(p)'
        PROVE  \E id \in DOMAIN sessions' : dicts'[sessions'[id]].process = p
    <3>1. p # Len(encoders) + 1
      BY <1>1, <2>1 DEF Running
    <3>2. p \in 1 .. Len(encoders)
      BY <1>1, <3>1
    <3>3. Running(p)
      BY <1>1, <2>1, <3>2 DEF Running
    <3> QED  BY <1>2, <3>2, <3>3 DEF InOrder, CanStop
  <2> QED  BY <2>1 DEF CanStop
<1>11. Busy'
  BY <1>2 DEF InOrder, Busy, HasSession
<1>12. OneJobPerId'
  <2>1. \A t \in tasks' : t \in tasks \/ t.job = job
    BY <1>1, <1>3
  <2>2. \A t, v \in tasks' : t \notin tasks /\ v \notin tasks => t = v
    BY <1>1
  <2> QED  BY <1>1, <1>2, <1>5, <2>1, <2>2, OneJobMoves DEF InOrder
<1> QED  BY <1>2, <1>5, <1>7, <1>8, <1>9, <1>10, <1>11, <1>12 DEF InOrder

(* The session that gets an encoder is the only one with its dict. *)
LEMMA OrderStartSucceeds == ASSUME TrackedInv, InOrder, NEW t \in tasks, StartSucceeds(t) PROVE InOrder'
<1>1. /\ TypeInv
      /\ Len(encoders') = Len(encoders)
      /\ \A i \in 1 .. Len(encoders) :
           encoders'[i].state = IF i = t.encoder THEN "running" ELSE encoders[i].state
      /\ Len(dicts') = Len(dicts)
      /\ \A d \in 1 .. Len(dicts) :
           /\ dicts'[d].stream = dicts[d].stream
           /\ dicts'[d].process = IF d = t.dict THEN t.encoder ELSE dicts[d].process
      /\ \A s \in Streams : status'[s] = "STREAMING" =>
           status[s] = "STREAMING" \/ s = dicts[t.dict].stream
  BY DoesStartSucceeds, Zenon DEF TrackedInv
<1>2. /\ UNCHANGED <<queue, phase>> /\ tasks' = tasks \ {t} /\ t.job.kind \in Starts
  BY DEF StartSucceeds
<1>3. /\ phase = "up" /\ t.job.kind # "reconfigure" /\ Ready(t.job.id) /\ t.dict = sessions[t.job.id]
  BY <1>2 DEF InOrder, NothingBegins, StartsReady
<1>4. UNCHANGED sessions
  BY <1>3 DEF StartSucceeds
<1>5. OneJobPerId /\ OneJobPerId'
  BY <1>2, <1>3 DEF InOrder, OneJobPerId
<1>6. \A id \in DOMAIN sessions : sessions[id] \in 1 .. Len(dicts)
  BY <1>1, TypeParts
<1>7. ASSUME NEW id \in DOMAIN sessions, id # t.job.id
      PROVE  sessions[id] # t.dict /\ dicts'[sessions[id]].process = dicts[sessions[id]].process
  <2>1. dicts[sessions[id]].id = id /\ dicts[sessions[t.job.id]].id = t.job.id
    BY <1>3 DEF TrackedInv, SessionsOwn, Ready
  <2>2. sessions[id] # t.dict
    BY <1>3, <1>7, <2>1
  <2> QED  BY <1>1, <1>6, <2>2
<1>8. /\ t.job.id \in DOMAIN sessions /\ t.dict \in 1 .. Len(dicts) /\ t.encoder \in 1 .. Len(encoders)
      /\ dicts[t.dict].process = None
      /\ dicts'[sessions[t.job.id]].process = t.encoder
  <2>1. t.dict \in 1 .. Len(dicts) /\ t.encoder \in 1 .. Len(encoders)
    BY <1>1, TaskParts
  <2> QED  BY <1>1, <1>3, <2>1 DEF Ready
<1>9. \A q \in ToSet(queue) : q.id # t.job.id
  <2>1. DOMAIN queue = 1 .. Len(queue)
    BY <1>1, TypeParts
  <2> QED  BY <1>5, <2>1 DEF OneJobPerId, ToSet
<1>10. \A u \in tasks' : u \in tasks /\ u.job.id # t.job.id
  BY <1>2, <1>5 DEF OneJobPerId
<1>11. \A i : Ready(i) /\ i # t.job.id => Ready(i)'
  BY <1>4, <1>7 DEF Ready
<1>12. StartsReady'
  <2>1. \A q \in ToSet(queue) : q.kind \in Starts =>
          q.kind # "reconfigure" /\ Ready(q.id) /\ (q.dict # None => q.dict = sessions[q.id])
    BY DEF InOrder, StartsReady
  <2>2. \A u \in tasks : u.job.kind \in Starts =>
          u.job.kind # "reconfigure" /\ Ready(u.job.id) /\ u.dict = sessions[u.job.id]
    BY DEF InOrder, StartsReady
  <2>3. UNCHANGED queue
    BY <1>2
  <2> QED  BY <1>4, <1>9, <1>10, <1>11, <2>1, <2>2, <2>3 DEF StartsReady
<1>13. StopsKnow'
  <2>1. ASSUME NEW u \in tasks', u.job.kind = "stop", u.job.id \in DOMAIN sessions
        PROVE  sessions[u.job.id] = u.dict /\ dicts'[u.dict].process = u.encoder
    <3>1. sessions[u.job.id] = u.dict /\ dicts[u.dict].process = u.encoder
      BY <1>10, <2>1 DEF InOrder, StopsKnow
    <3> QED  BY <1>7, <1>10, <2>1, <3>1
  <2> QED  BY <1>4, <2>1 DEF StopsKnow
<1>14. TiersApart'
  <2>1. \A id \in DOMAIN sessions : OnTier(id)' = OnTier(id)
    BY <1>1, <1>4, <1>6 DEF OnTier
  <2>2. \A d \in 1 .. Len(dicts) : dicts'[d].tier = dicts[d].tier
    BY DoesStartSucceeds, Zenon DEF TrackedInv
  <2>3. \A id \in DOMAIN sessions' : dicts'[sessions'[id]].tier => OnTier(id)'
    BY <1>4, <1>6, <2>1, <2>2, Zenon DEF InOrder, TiersApart
  <2>4. \A q \in ToSet(queue') : q.kind = "tier_stop" /\ q.id \in DOMAIN sessions' => OnTier(q.id)'
    BY <1>2, <1>4, <2>1 DEF InOrder, TiersApart
  <2> QED  BY <2>3, <2>4 DEF TiersApart
<1>15. CanStop'
  <2>1. ASSUME NEW p \in 1 .. Len(encoders), Running(p)'
        PROVE  \E id \in DOMAIN sessions : dicts'[sessions[id]].process = p
    <3>1. CASE p = t.encoder
      BY <1>8, <3>1
    <3>2. CASE p # t.encoder
      <4>1. Running(p)
        BY <1>1, <2>1, <3>2 DEF Running
      <4>2. PICK id \in DOMAIN sessions : dicts[sessions[id]].process = p
        BY <4>1 DEF InOrder, CanStop
      <4>3. id # t.job.id
        BY <1>3, <1>8, <4>2 DEF None
      <4> QED  BY <1>7, <4>2, <4>3
    <3> QED  BY <3>1, <3>2
  <2> QED  BY <1>1, <1>4, <2>1 DEF CanStop
<1>16. Busy'
  <2>1. ASSUME NEW s \in LegacyStreams, status'[s] = "STREAMING"
        PROVE  \E id \in DOMAIN sessions : dicts'[sessions[id]].stream = s /\ dicts'[sessions[id]].process # None
    <3>1. status[s] = "STREAMING" \/ s = dicts[t.dict].stream
      BY <1>1, <2>1 DEF Streams
    <3>2. CASE s = dicts[t.dict].stream
      <4>1. dicts'[sessions[t.job.id]].stream = s
        BY <1>1, <1>3, <1>8, <3>2
      <4>2. t.encoder # None
        BY <1>8 DEF None
      <4> QED  BY <1>8, <4>1, <4>2
    <3>3. CASE status[s] = "STREAMING"
      <4>1. PICK id \in DOMAIN sessions : dicts[sessions[id]].stream = s /\ dicts[sessions[id]].process # None
        BY <3>3 DEF InOrder, Busy, HasSession
      <4>2. id # t.job.id
        BY <1>3, <1>8, <4>1
      <4>3. dicts'[sessions[id]].stream = s
        BY <1>1, <1>6, <4>1
      <4> QED  BY <1>7, <4>1, <4>2, <4>3
    <3> QED  BY <3>1, <3>2, <3>3
  <2> QED  BY <1>4, <2>1 DEF Busy, HasSession
<1> QED  BY <1>2, <1>3, <1>5, <1>12, <1>13, <1>14, <1>15, <1>16 DEF InOrder

LEMMA OrderStop == ASSUME TypeInv, InOrder, Stop, orderly' PROVE InOrder'
<1> DEFINE gathered == {Job("gathered_stop", id, sessions[id]) : id \in DOMAIN sessions}
<1>1. /\ queue = <<>> /\ \A t \in tasks : t.job.kind \notin Starts
      /\ phase = "up" /\ phase' = "stopping"
      /\ UNCHANGED <<sessions, dicts, encoders, status, tasks>>
  BY DEF Stop
<1>2. ToSet(queue') = gathered
  <2>1. ToSet(queue) = {}
    BY <1>1 DEF ToSet
  <2> QED  BY <2>1, DoesStop
<1>3. \A q \in gathered : q.kind = "gathered_stop"
  BY DEF Job
<1>4. \A id \in DOMAIN sessions : \E q \in gathered : q.dict = sessions[id]
  <2>1. ASSUME NEW id \in DOMAIN sessions PROVE \E q \in gathered : q.dict = sessions[id]
    <3>1. Job("gathered_stop", id, sessions[id]) \in gathered
          /\ Job("gathered_stop", id, sessions[id]).dict = sessions[id]
      BY DEF Job
    <3> QED  BY <3>1
  <2> QED  BY <2>1
<1> HIDE DEF gathered
<1>5. \A q \in ToSet(queue') : q.kind = "gathered_stop"
  BY <1>2, <1>3
<1>6. StartsReady'
  BY <1>1, <1>5 DEF StartsReady, Starts
<1>7. NothingBegins'
  BY <1>1, <1>5 DEF NothingBegins
<1>8. StopsKnow'
  BY <1>1 DEF InOrder, StopsKnow
<1>9. TiersApart'
  <2>1. \A id \in DOMAIN sessions : OnTier(id)' = OnTier(id)
    BY <1>1 DEF OnTier
  <2>2. \A id \in DOMAIN sessions' : dicts'[sessions'[id]].tier => OnTier(id)'
    BY <1>1, <2>1, Zenon DEF InOrder, TiersApart
  <2>3. \A q \in ToSet(queue') : q.kind = "tier_stop" /\ q.id \in DOMAIN sessions' => OnTier(q.id)'
    BY <1>5
  <2> QED  BY <2>2, <2>3 DEF TiersApart
<1>10. CanStop' /\ Busy'
  BY <1>1 DEF InOrder, CanStop, Busy, HasSession, Running
<1>11. Gathered'
  <2>1. ASSUME NEW p \in 1 .. Len(encoders), Running(p)
        PROVE  \E q \in ToSet(queue') : q.kind = "gathered_stop" /\ dicts[q.dict].process = p
    <3>1. PICK id \in DOMAIN sessions : dicts[sessions[id]].process = p
      BY <2>1 DEF InOrder, CanStop
    <3>2. PICK q \in gathered : q.dict = sessions[id]
      BY <1>4
    <3> QED  BY <1>2, <1>3, <3>1, <3>2
  <2> QED  BY <1>1, <2>1 DEF Gathered, Running
<1> QED  BY <1>1, <1>6, <1>7, <1>8, <1>9, <1>10, <1>11 DEF InOrder

LEMMA OrderStopListener == ASSUME InOrder, StopListener PROVE InOrder'
<1>1. /\ phase = "stopping" /\ phase' = "stopped"
      /\ \A q \in ToSet(queue) : q.kind # "gathered_stop"
      /\ UNCHANGED <<sessions, dicts, encoders, status, queue, tasks>>
  BY DEF StopListener
<1>2. NothingBegins /\ Gathered
  BY <1>1 DEF InOrder
<1>3. NoneRuns'
  BY <1>1, <1>2 DEF Gathered, NoneRuns, Running
<1>4. NothingBegins'
  BY <1>1, <1>2 DEF NothingBegins
<1>5. StartsReady' /\ StopsKnow'
  BY <1>1 DEF InOrder, StartsReady, StopsKnow, Ready
<1>6. TiersApart'
  BY <1>1, Zenon DEF InOrder, TiersApart, OnTier
<1>7. CanStop' /\ Busy'
  BY <1>1 DEF InOrder, CanStop, Busy, HasSession, Running
<1> QED  BY <1>1, <1>3, <1>4, <1>5, <1>6, <1>7 DEF InOrder

LEMMA OrderInit == ASSUME Init PROVE InOrder
<1>1. DOMAIN sessions = {} /\ ToSet(queue) = {} /\ Len(queue) = 0 /\ Len(encoders) = 0
  BY DEF Init, ToSet
<1>2. tasks = {} /\ phase = "up" /\ \A s \in LegacyStreams : status[s] = "AVAILABLE"
  BY DEF Init, Streams
<1> QED  BY <1>1, <1>2 DEF InOrder, StartsReady, StopsKnow, TiersApart, CanStop, Busy, OneJobPerId

(* What came out of order stays so. *)
LEMMA OnceOrderly == ASSUME [Next]_vars, orderly' PROVE orderly
<1>1. CASE UNCHANGED vars
  BY <1>1 DEF vars
<1>2. ASSUME NEW id, NEW stream, SetEndpoints(id, stream) PROVE orderly
  BY <1>2 DEF SetEndpoints, Writing
<1>3. ASSUME NEW id, NEW kind, SetSelectedStreamConfiguration(kind, id) PROVE orderly
  BY <1>3 DEF SetSelectedStreamConfiguration, AddJob, Writing
<1>4. ASSUME NEW id, StartTierStream(id) \/ EndTierStream(id) PROVE orderly
  BY <1>4 DEF StartTierStream, EndTierStream, AddJob, Writing
<1>5. ASSUME NEW stream, SetStreamingAvailable(stream) PROVE orderly
  BY <1>5 DEF SetStreamingAvailable
<1>6. ASSUME NEW job, FindsNothing(job) \/ BeginStart(job) PROVE orderly
  BY <1>6 DEF FindsNothing, BeginStart, Begun
<1>7. ASSUME NEW job, BeginStop(job) \/ StopRaises(job) \/ StopsNothing(job) PROVE orderly
  BY <1>7 DEF BeginStop, StopRaises, StopsNothing, Begun
<1>8. ASSUME NEW t, StartSucceeds(t) \/ StartFails(t) \/ FinishStop(t) PROVE orderly
  BY <1>8 DEF StartSucceeds, StartFails, FinishStop
<1>9. ASSUME NEW p, EncoderEnds(p) PROVE orderly
  BY <1>9 DEF EncoderEnds
<1>10. CASE Stop \/ StopListener
  BY <1>10 DEF Stop, StopListener
<1> QED  BY <1>1, <1>2, <1>3, <1>4, <1>5, <1>6, <1>7, <1>8, <1>9, <1>10 DEF Next

LEMMA OrderStep == ASSUME TrackedInv, [Next]_vars, orderly', orderly => InOrder PROVE InOrder'
<1>1. orderly
  BY OnceOrderly
<1>2. TypeInv /\ InOrder
  BY <1>1 DEF TrackedInv
<1>3. CASE UNCHANGED vars
  BY <1>2, <1>3, OrderSame DEF vars
<1>4. ASSUME NEW id \in Ids, NEW stream \in Streams, SetEndpoints(id, stream) PROVE InOrder'
  BY <1>2, <1>4, OrderSetEndpoints
<1>5. ASSUME NEW id \in Ids, NEW kind \in {"start", "stop", "reconfigure"},
             SetSelectedStreamConfiguration(kind, id)
      PROVE  InOrder'
  BY <1>2, <1>5, OrderSelect
<1>6. ASSUME NEW id \in Ids, StartTierStream(id) \/ EndTierStream(id) PROVE InOrder'
  BY <1>2, <1>6, OrderStartTier, OrderEndTier
<1>7. ASSUME NEW stream \in Streams, SetStreamingAvailable(stream) PROVE InOrder'
  <2>1. /\ status' = [status EXCEPT ![stream] = "AVAILABLE"]
        /\ UNCHANGED <<sessions, dicts, encoders, queue, tasks, phase>>
    BY <1>7 DEF SetStreamingAvailable
  <2>2. \A s \in Streams : status'[s] = "STREAMING" => status[s] = "STREAMING"
    BY <1>2, <2>1, TypeParts
  <2> QED  BY <1>2, <2>1, <2>2, OrderSame
<1>8. ASSUME NEW job, FindsNothing(job) \/ StopsNothing(job) PROVE InOrder'
  BY <1>2, <1>8, OrderFindsNothing, OrderStopsNothing
<1>9. ASSUME NEW job, BeginStart(job) \/ BeginStop(job) \/ StopRaises(job) PROVE InOrder'
  BY <1>2, <1>9, OrderBeginStart, OrderBeginStop, OrderStopRaises
<1>10. ASSUME NEW t \in tasks, StartSucceeds(t) \/ StartFails(t) \/ FinishStop(t) PROVE InOrder'
  BY <1>2, <1>10, OrderStartSucceeds, OrderStartFails, OrderFinishStop
<1>11. ASSUME NEW p, EncoderEnds(p) PROVE InOrder'
  BY <1>2, <1>11, OrderEncoderEnds
<1>12. CASE Stop \/ StopListener
  BY <1>2, <1>12, OrderStop, OrderStopListener
<1> QED  BY <1>3, <1>4, <1>5, <1>6, <1>7, <1>8, <1>9, <1>10, <1>11, <1>12 DEF Next

LEMMA CameraSteps ==
  /\ Init => CameraInv
  /\ CameraInv /\ [Next]_vars => CameraInv'
<1>1. Init => CameraInv
  BY TrackedInit, OrderInit DEF CameraInv
<1>2. CameraInv /\ [Next]_vars => CameraInv'
  BY TrackedStep, OrderStep DEF CameraInv
<1> QED  BY <1>1, <1>2

(* An encoder that runs is named by a session, as long as writes come in      *)
(* order (camera.py:1828, :1848).                                             *)
THEOREM EncodersCanBeStopped == Spec => []EncoderCanBeStopped
<1>1. CameraInv => EncoderCanBeStopped
  BY DEF CameraInv, InOrder, CanStop, EncoderCanBeStopped
<1> QED  BY <1>1, CameraSteps, PTL DEF Spec

(* A legacy stream in use has a session with an encoder (camera.py:1518).     *)
THEOREM BusyStreamsHaveSessions == Spec => []BusyStreamHasSession
<1>1. CameraInv => BusyStreamHasSession
  BY DEF CameraInv, InOrder, Busy, HasSession, BusyStreamHasSession
<1> QED  BY <1>1, CameraSteps, PTL DEF Spec

(* After an orderly stop() that returned, no encoder runs or is being started *)
(* and the listener is stopped (camera.py:1741).                              *)
THEOREM StopIsThoroughAlways == Spec => []StopIsThorough
<1>1. ASSUME CameraInv, orderly, phase = "stopped"
      PROVE  /\ \A p \in 1 .. Len(encoders) : encoders[p].state \in {"terminated", "ended"}
             /\ ~listener
  <2>1. NoneRuns /\ NothingBegins /\ TrackedInv
    BY <1>1 DEF CameraInv, InOrder
  <2>2. \A p \in 1 .. Len(encoders) : encoders[p].state \in {"spawning", "running", "terminated", "ended"}
    <3>1. \A p \in 1 .. Len(encoders) : encoders[p] \in Encoders
      BY <2>1, TypeParts DEF TrackedInv
    <3> QED  BY <3>1 DEF Encoders
  <2>3. \A p \in 1 .. Len(encoders) : encoders[p].state # "spawning"
    BY <2>1 DEF TrackedInv, SpawningAwaited, NothingBegins
  <2> QED  BY <1>1, <2>1, <2>2, <2>3 DEF NoneRuns, Running, TrackedInv
<1>2. CameraInv => StopIsThorough
  BY <1>1 DEF StopIsThorough
<1> QED  BY <1>2, CameraSteps, PTL DEF Spec
----------------------------------------------------------------------------
(* The camera as a whole *)

(* Every variable of the two modules has a value of its type. *)
THEOREM AllTypesCorrect == MCSpec => []AllTypesOK
<1> DEFINE Inv == /\ CameraInv
                  /\ RegistryInv /\ EventsInv /\ IngestInv
<1>1. MCInit => Inv
  BY CameraSteps, RegistryInit, EventsInit, IngestInit DEF MCInit
<1>2. Inv /\ [MCNext]_<<part, vars, controls>> => Inv'
  <2>1. [MCNext]_<<part, vars, controls>> => [Next]_vars /\ [ControlsNext]_controls
    BY DEF MCNext, Streaming, Negotiating, Recording, ControlsNext
  <2>2. CameraInv /\ [Next]_vars => CameraInv'
    BY CameraSteps
  <2>3. RegistryInv /\ EventsInv /\ IngestInv /\ [ControlsNext]_controls
          => RegistryInv' /\ EventsInv' /\ IngestInv'
    BY RegistryStep, EventsStep, IngestStep
  <2> QED  BY <2>1, <2>2, <2>3
<1>3. Inv => AllTypesOK
  BY ControlsTyped DEF AllTypesOK, IngestInv, CameraInv, TrackedInv, TypeInv
<1> QED  BY <1>1, <1>2, <1>3, PTL DEF MCSpec
=============================================================================
