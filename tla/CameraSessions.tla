--------------------------- MODULE CameraSessions ---------------------------
(***************************************************************************)
(* The streaming sessions of a camera (camera.py): set up by a write of    *)
(* SetupEndpoints, started, reconfigured and stopped by writes of          *)
(* SelectedRTPStreamConfiguration, or of RTPStreamingControl for the       *)
(* multi-tier service, and all stopped with the accessory.                 *)
(*                                                                         *)
(* A write only queues a job (driver.add_job).  The event loop takes jobs  *)
(* in order; a job runs until it awaits the start or the end of an encoder *)
(* process, and goes on in any order after that.  Session dicts are        *)
(* objects: a job may hold one that "sessions" no longer names.  What is   *)
(* streamed, and where to, is left out.                                    *)
(***************************************************************************)
EXTENDS Naturals, Sequences, SequencesExt

CONSTANTS
  Ids,             \* session ids that controllers choose
  LegacyStreams,   \* indexes of the CameraRTPStreamManagement services
  TierStream,      \* _multi_tier_idx
  MaxSetups,       \* bound: writes of SetupEndpoints
  MaxEncoders,     \* bound: encoder processes
  MaxJobs          \* bound: jobs in the loop's queue when a write adds one

ASSUME StreamAssumption == TierStream \notin LegacyStreams

ASSUME BoundAssumption == {MaxSetups, MaxEncoders, MaxJobs} \subseteq Nat

VARIABLES
  sessions,   \* sessions: from ids to numbers of dicts
  dicts,      \* every session dict there ever was
  encoders,   \* every encoder process there ever was
  status,     \* _streaming_status of each stream
  queue,      \* jobs the loop has not begun
  tasks,      \* jobs that await an encoder
  listener,   \* the HDS listener is open
  phase,      \* "up", "stopping" in stop(), "stopped" after it, "failed" if it raised
  orderly     \* history: all writes, and the stop, came when nothing was under way

vars == <<sessions, dicts, encoders, status, queue, tasks, listener, phase, orderly>>

Streams == LegacyStreams \cup {TierStream}

\* The number of no dict and of no process.
None == 0

Starts == {"start", "reconfigure", "tier_start"}
Stops == {"stop", "tier_stop", "gathered_stop"}

Job(kind, id, dict) == [kind |-> kind, id |-> id, dict |-> dict]

Jobs == [kind : Starts \cup Stops, id : Ids, dict : Nat]

Dicts == [id : Ids, stream : Streams, tier : BOOLEAN, process : Nat]

Encoders == [state : {"spawning", "running", "terminated", "ended"}, dict : Nat]

\* Every variable has a value of its type.
TypeOK ==
  /\ DOMAIN sessions \subseteq Ids
  /\ \A id \in DOMAIN sessions : sessions[id] \in 1 .. Len(dicts)
  /\ dicts \in Seq(Dicts)
  /\ \A d \in 1 .. Len(dicts) : dicts[d].process \in 0 .. Len(encoders)
  /\ encoders \in Seq(Encoders)
  /\ status \in [Streams -> {"AVAILABLE", "STREAMING"}]
  /\ queue \in Seq(Jobs)
  /\ \A t \in tasks : /\ t.job \in Jobs
                      /\ t.dict \in 1 .. Len(dicts)
                      /\ t.encoder \in 1 .. Len(encoders)
  /\ listener \in BOOLEAN
  /\ phase \in {"up", "stopping", "stopped", "failed"}
  /\ orderly \in BOOLEAN

----------------------------------------------------------------------------
(* Sessions *)

\* self.sessions[id] = a new dict
Named(id, dict) == [i \in DOMAIN sessions \cup {id} |-> IF i = id THEN dict ELSE sessions[i]]

\* Mistake: the session is set to None where it is to be deleted.
WithNone(id) == [sessions EXCEPT ![id] = None]

\* del self.sessions[id]
Without(id) == [i \in DOMAIN sessions \ {id} |-> sessions[i]]

\* A job for the session is queued or awaits.
UnderWay(id) == (\E q \in ToSet(queue) : q.id = id) \/ (\E t \in tasks : t.job.id = id)

\* The session was set up on one of these streams, and has no encoder.
SetUpOn(id, streams) == id \in DOMAIN sessions /\ dicts[sessions[id]].stream \in streams

Idle(id) == dicts[sessions[id]].process = None

Init ==
  /\ sessions = [id \in {} |-> None]
  /\ dicts = <<>> /\ encoders = <<>>
  /\ status = [s \in Streams |-> "AVAILABLE"]
  /\ queue = <<>> /\ tasks = {}
  /\ listener = TRUE /\ phase = "up" /\ orderly = TRUE

----------------------------------------------------------------------------
(* Writes of controllers *)

\* Requests are served.  Bound: one write out of order is the last one.
Writing == phase = "up" /\ orderly

\* set_endpoints: always a new dict, and always SUCCESS.
SetEndpoints(id, stream) ==
  /\ Writing /\ Len(dicts) < MaxSetups
  /\ dicts' = Append(dicts, [id |-> id, stream |-> stream, tier |-> FALSE, process |-> None])
  /\ sessions' = Named(id, Len(dicts'))
  /\ orderly' = (orderly /\ id \notin DOMAIN sessions /\ ~UnderWay(id))
  /\ UNCHANGED <<encoders, status, queue, tasks, listener, phase>>

AddJob(job) ==
  /\ Writing /\ Len(queue) < MaxJobs
  /\ queue' = Append(queue, job)

\* set_selected_stream_configuration: request types 1, 0 and 4; the session is
\* looked up when the job runs.
SetSelectedStreamConfiguration(kind, id) ==
  /\ AddJob(Job(kind, id, None))
  /\ orderly' = (orderly /\ ~UnderWay(id) /\ SetUpOn(id, LegacyStreams)
                         /\ kind # "reconfigure" /\ (kind = "start" => Idle(id)))
  /\ UNCHANGED <<sessions, dicts, encoders, status, tasks, listener, phase>>

\* set_rtp_streaming_control, Start: a repetition is acknowledged and ignored.
StartTierStream(id) ==
  /\ id \in DOMAIN sessions /\ ~dicts[sessions[id]].tier
  /\ dicts' = [dicts EXCEPT ![sessions[id]].tier = TRUE]
  /\ AddJob(Job("tier_start", id, sessions[id]))
  /\ orderly' = (orderly /\ ~UnderWay(id) /\ SetUpOn(id, {TierStream}) /\ Idle(id))
  /\ UNCHANGED <<sessions, encoders, status, tasks, listener, phase>>

\* set_rtp_streaming_control, End.
EndTierStream(id) ==
  /\ id \in DOMAIN sessions /\ dicts[sessions[id]].tier
  /\ AddJob(Job("tier_stop", id, None))
  /\ orderly' = (orderly /\ ~UnderWay(id))
  /\ UNCHANGED <<sessions, dicts, encoders, status, tasks, listener, phase>>

\* set_streaming_available, which the accessory may call.
SetStreamingAvailable(stream) ==
  /\ status' = [status EXCEPT ![stream] = "AVAILABLE"]
  /\ UNCHANGED <<sessions, dicts, encoders, queue, tasks, listener, phase, orderly>>

----------------------------------------------------------------------------
(* Jobs: up to the await *)

Begun(job, changed) ==
  /\ queue # <<>> /\ job = Head(queue) /\ queue' = Tail(queue)
  /\ UNCHANGED changed

\* A job that finds no session logs it, returns, or ends with a KeyError.
FindsNothing(job) ==
  /\ job.kind \in {"start", "reconfigure", "stop", "tier_stop"}
  /\ job.id \notin DOMAIN sessions
  /\ Begun(job, <<sessions, dicts, encoders, status, tasks, listener, phase, orderly>>)

\* The dict a job works on: a tier start and the jobs of stop() were given one.
DictOf(job) == IF job.dict # None THEN job.dict ELSE sessions[job.id]

HasDict(job) == job.dict # None \/ job.id \in DOMAIN sessions

Awaiting(job, encoder) == [job |-> job, dict |-> DictOf(job), encoder |-> encoder]

\* _start_stream, _runner: start_stream awaits create_subprocess_exec.  The
\* default reconfigure_stream starts another stream.
BeginStart(job) ==
  /\ job.kind \in Starts /\ HasDict(job)
  /\ Len(encoders) < MaxEncoders
  /\ encoders' = Append(encoders, [state |-> "spawning", dict |-> DictOf(job)])
  /\ tasks' = tasks \cup {Awaiting(job, Len(encoders'))}
  /\ Begun(job, <<sessions, dicts, status, listener, phase, orderly>>)

\* What is left of "sessions" for a stop job to go on with.
SessionsFor(job) == IF job.kind = "tier_stop" THEN Without(job.id) ELSE sessions

\* stop_stream terminates the encoder and awaits its end.
BeginStop(job) ==
  LET p == dicts[DictOf(job)].process
  IN  /\ job.kind \in Stops /\ HasDict(job)
      /\ p # None /\ encoders[p].state # "ended"
      /\ \A t \in tasks : ~(t.job.kind \in Stops /\ t.encoder = p)
      /\ encoders' = [encoders EXCEPT ![p].state = "terminated"]
      /\ tasks' = tasks \cup {Awaiting(job, p)}
      /\ sessions' = SessionsFor(job)
      /\ Begun(job, <<dicts, status, listener, phase, orderly>>)

\* stop_stream raises: ProcessLookupError when the encoder has ended by itself,
\* RuntimeError when another task already reads what it says.  The job is over;
\* gather passes the first exception on, and stop() with it.
StopRaises(job) ==
  LET p == dicts[DictOf(job)].process
  IN  /\ job.kind \in Stops /\ HasDict(job) /\ p # None
      /\ \/ encoders[p].state = "ended"
         \/ \E t \in tasks : t.job.kind \in Stops /\ t.encoder = p
      /\ encoders' = [encoders EXCEPT ![p].state = IF @ = "ended" THEN @ ELSE "terminated"]
      /\ sessions' = SessionsFor(job)
      /\ phase' = IF job.kind = "gathered_stop" /\ phase = "stopping" THEN "failed" ELSE phase
      /\ Begun(job, <<dicts, status, tasks, listener, orderly>>)

----------------------------------------------------------------------------
(* Jobs: after the await *)

\* Mistake: the session is deleted and its stream stays in use.
DeleteOnly(id, stream) ==
  /\ sessions' = IF id \in DOMAIN sessions THEN Without(id) ELSE sessions
  /\ UNCHANGED status

\* del self.sessions[id], whatever dict is there by now, and the status; a
\* KeyError if nothing is there.
Delete(id, stream) ==
  IF id \in DOMAIN sessions
  THEN /\ sessions' = Without(id)
       /\ status' = [status EXCEPT ![stream] = "AVAILABLE"]
  ELSE UNCHANGED <<sessions, status>>

\* What follows stop_stream in _stop_stream, _stop_tier_stream and stop().
AfterStop(job, stream) ==
  CASE job.kind = "stop" -> Delete(job.id, stream)
    [] job.kind = "tier_stop" -> /\ sessions' = Without(job.id)
                                 /\ status' = [status EXCEPT ![stream] = "AVAILABLE"]
    [] job.kind = "gathered_stop" -> UNCHANGED <<sessions, status>>

\* stop_stream without an encoder returns at once.
StopsNothing(job) ==
  /\ job.kind \in Stops /\ HasDict(job)
  /\ dicts[DictOf(job)].process = None
  /\ AfterStop(job, dicts[DictOf(job)].stream)
  /\ Begun(job, <<dicts, encoders, tasks, listener, phase, orderly>>)

\* The encoder has ended, or was killed after two seconds.
FinishStop(t) ==
  /\ t \in tasks /\ t.job.kind \in Stops /\ encoders[t.encoder].state = "ended"
  /\ tasks' = tasks \ {t}
  /\ IF t.job.kind = "tier_stop"
     THEN /\ status' = [status EXCEPT ![dicts[t.dict].stream] = "AVAILABLE"]
          /\ UNCHANGED sessions
     ELSE AfterStop(t.job, dicts[t.dict].stream)
  /\ UNCHANGED <<dicts, encoders, queue, listener, phase, orderly>>

\* Mistake: the process is put into the stream's parameters, a copy of the dict.
StartIntoCopy(t) ==
  /\ t \in tasks /\ t.job.kind \in Starts
  /\ encoders' = [encoders EXCEPT ![t.encoder].state = "running"]
  /\ tasks' = tasks \ {t}
  /\ status' = [status EXCEPT ![dicts[t.dict].stream] = "STREAMING"]
  /\ UNCHANGED <<sessions, dicts, queue, listener, phase, orderly>>

\* The encoder is there: the dict gets it, the stream is in use.  To
\* _start_stream a reconfiguration has failed: reconfigure_stream returns None.
StartSucceeds(t) ==
  /\ t \in tasks /\ t.job.kind \in Starts
  /\ encoders' = [encoders EXCEPT ![t.encoder].state = "running"]
  /\ dicts' = [dicts EXCEPT ![t.dict].process = t.encoder]
  /\ tasks' = tasks \ {t}
  /\ IF t.job.kind = "reconfigure"
     THEN Delete(t.job.id, dicts[t.dict].stream)
     ELSE /\ status' = [status EXCEPT ![dicts[t.dict].stream] = "STREAMING"]
          /\ UNCHANGED sessions
  /\ UNCHANGED <<queue, listener, phase, orderly>>

\* There is no encoder: the session is deleted, on the multi-tier service kept.
StartFails(t) ==
  /\ t \in tasks /\ t.job.kind \in Starts
  /\ encoders' = [encoders EXCEPT ![t.encoder].state = "ended"]
  /\ tasks' = tasks \ {t}
  /\ IF t.job.kind = "tier_start"
     THEN /\ status' = [status EXCEPT ![dicts[t.dict].stream] = "AVAILABLE"]
          /\ UNCHANGED sessions
     ELSE Delete(t.job.id, dicts[t.dict].stream)
  /\ UNCHANGED <<dicts, queue, listener, phase, orderly>>

\* An encoder ends, by itself or because it was told to.
EncoderEnds(p) ==
  /\ p \in 1 .. Len(encoders) /\ encoders[p].state \in {"running", "terminated"}
  /\ encoders' = [encoders EXCEPT ![p].state = "ended"]
  /\ UNCHANGED <<sessions, dicts, status, queue, tasks, listener, phase, orderly>>

----------------------------------------------------------------------------
(* The end of the accessory *)

\* stop(): gather makes a task of stop_stream for every session.  No write
\* comes any more, the server has closed its connections.
Stop ==
  /\ phase = "up"
  /\ phase' = "stopping"
  /\ queue' = queue \o SetToSeq({Job("gathered_stop", id, sessions[id]) : id \in DOMAIN sessions})
  /\ orderly' = (orderly /\ queue = <<>> /\ \A t \in tasks : t.job.kind \notin Starts)
  /\ UNCHANGED <<sessions, dicts, encoders, status, tasks, listener>>

\* Mistake: gather is not awaited.
StopListenerAtOnce ==
  /\ phase = "stopping"
  /\ phase' = "stopped" /\ listener' = FALSE
  /\ UNCHANGED <<sessions, dicts, encoders, status, queue, tasks, orderly>>

\* All of gather's tasks are done: the listener is stopped.
StopListener ==
  /\ phase = "stopping"
  /\ \A q \in ToSet(queue) : q.kind # "gathered_stop"
  /\ \A t \in tasks : t.job.kind # "gathered_stop"
  /\ phase' = "stopped" /\ listener' = FALSE
  /\ UNCHANGED <<sessions, dicts, encoders, status, queue, tasks, orderly>>

Next ==
  \/ \E id \in Ids :
       \/ \E stream \in Streams : SetEndpoints(id, stream)
       \/ \E kind \in {"start", "stop", "reconfigure"} : SetSelectedStreamConfiguration(kind, id)
       \/ StartTierStream(id)
       \/ EndTierStream(id)
  \/ \E stream \in Streams : SetStreamingAvailable(stream)
  \/ \E job \in ToSet(queue) :
       \/ FindsNothing(job)
       \/ BeginStart(job)
       \/ BeginStop(job)
       \/ StopRaises(job)
       \/ StopsNothing(job)
  \/ \E t \in tasks : StartSucceeds(t) \/ StartFails(t) \/ FinishStop(t)
  \/ \E p \in 1 .. Len(encoders) : EncoderEnds(p)
  \/ Stop
  \/ StopListener

Spec == Init /\ [][Next]_vars

----------------------------------------------------------------------------
(* Properties *)

Running(p) == encoders[p].state = "running"

(* An encoder that runs can be stopped: a session that is still there names  *)
(* it (camera.py:1828, :1848).  It holds as long as controllers wait for     *)
(* each request's end, set up a session once and reconfigure none.  Starts   *)
(* that fail, encoders that die and stop() do not matter.                    *)
EncoderCanBeStopped ==
  orderly => \A p \in 1 .. Len(encoders) :
               Running(p) => \E id \in DOMAIN sessions : dicts[sessions[id]].process = p

(* A stream that controllers see in use can be made available: when nothing  *)
(* is under way, a session that is there has had an encoder on it, and its   *)
(* stop ends in the status (camera.py:1518, :1557).                          *)
BusyStreamHasSession ==
  orderly /\ queue = <<>> /\ tasks = {} =>
    \A s \in LegacyStreams : status[s] = "STREAMING" =>
      \E id \in DOMAIN sessions : /\ dicts[sessions[id]].stream = s
                                  /\ dicts[sessions[id]].process # None

(* After an orderly stop() that did not raise, every encoder has been told   *)
(* to end and the listener is stopped (camera.py:1741).                      *)
StopIsThorough ==
  orderly /\ phase = "stopped" =>
    /\ \A p \in 1 .. Len(encoders) : encoders[p].state \in {"terminated", "ended"}
    /\ ~listener

(* "Stop all streaming sessions and the HDS listener." (camera.py:1742): once *)
(* stop() is over, returned or raised, the listener is stopped.              *)
StopStopsEverything == orderly /\ phase \in {"stopped", "failed"} => ~listener
=============================================================================
