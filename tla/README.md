# HAP-python in TLA+

Specifications of the HomeKit accessory server in `src/pyhap`: how controllers
pair and administer pairings, how the pairings reach the disk, how accessories
get their identifiers, how values are written and how other controllers hear of
them, how cameras are streamed from and recorded, and the connections and
encodings under it all. Each module is translated from the source; TLC checks it
on small instances, and TLAPS proves the main results for instances of any size.

## The system

An `AccessoryDriver` owns everything: the asyncio event loop, a thread pool,
one `State` (identity, pairings, configuration version), a `HAPServer` with one
`HAPServerProtocol` per TCP connection, the mDNS advertiser, and the accessory
(or bridge) with its services and characteristics. Requests are handled in
callbacks of the loop. Threads enter in three places: the pool runs `persist`
and `finish_pair`, the application may set values from its own threads, and it
may call `config_changed` from them.

| component | source | state | operations | module |
|---|---|---|---|---|
| pairings | `state.py` | `paired_clients`, `client_properties`, `uuid_to_bytes` | add, remove, remember bytes | `HAPState` |
| pairing handlers | `hap_handler.py`, `hsrp.py` | the driver's SRP verifier; per connection `enc_context`, `client_uuid`, `is_encrypted` | pair-setup M1/M3/M5, pair-verify M1/M3, add/remove/list pairings | `HAPPairing` |
| advertisement | `accessory_driver.py`, zeroconf | `mdns_service_info` | `finish_pair`, `async_update_advertisement` | `HAPPairing` |
| state file | `encoder.py`, `accessory_driver.py` | temp files, `persist_file` | `async_persist`, `persist`, `config_changed`, load at start | `HAPPersist` |
| events | `hap_protocol.py`, `accessory_driver.py`, `characteristic.py` | `topics`, per connection `_event_queue`, `_event_timer` | subscribe, publish, `async_send_event`, `queue_event`, `_send_events`, `connection_lost` | `HAPEvents` |
| writes | `accessory_driver.py`, `hap_handler.py` | `prepared_writes`, values | `prepare`, `set_characteristics` | `HAPWrites` |
| session bytes | `hap_crypto.py` | `_crypt_in_buffer`, `_in_count` | `encrypt`, `receive_data`, `decrypt` | `HAPFraming` |
| TLV codec | `tlv.py` | none | `encode`, `decode` | `TLV8` |
| HTTP connection | `hap_protocol.py`, `hap_server.py` | h11's two states, `response`, the tasks of snapshots | `data_received`, `_process_events`, `_handle_response_ready`, `check_idle`, close | `HAPConnection` |
| accessories | `accessory.py`, `service.py`, `iid_manager.py` | AIDs, `counter`, `iids`, `objs`, services and characteristics | construct, `add_service`, `Bridge.add_accessory`, `assign`, `remove_obj`, `remove_iid`, look-ups | `HAPAccessories` |
| values and cache | `characteristic.py` | `_value`, `_properties`, the two cached representations | `set_value`, `client_update_value`, `override_properties`, `get_value`, `to_HAP` | `HAPCharacteristic` |
| camera streams | `camera.py` | `sessions` and their dicts, encoder processes, streaming status | `set_endpoints`, start, reconfigure, stop, tiers, `stop` | `CameraSessions` |
| camera controls | `camera.py`, `hksv_cmaf.py` | WebRTC sessions and their count, `_buffer_events`, ingest sessions | offer, answer, end; queue, query, acknowledge; start, push, stop | `CameraControls` |
| HomeKit Data Stream | `hds_server.py`, `hds_recording.py`, `camera.py` | `_pending`, `_connections`; per connection `_crypto`, `_stream_id`, `_task`, `_closed` | register, claim, open, send fragments, close, stop | `HDS` |
| HDS messages | `hds_protocol.py` | none | encode, decode | `HDSMessages` |
| camera messages | `hksv.py`, `hksv_recording.py` | none | encode and decode of every class | `HKSVMessages` |
| HDS frames | `hds.py` | frame counters | encrypt, decrypt | whole frames in `HDS` |
| loader, util, const | | none | | left out |

Components meet in four ways. Handlers call the driver in the same callback of
the loop (`HAPPairing`, `HAPWrites`). Calls cross to other threads and back
(`run_in_executor`, `call_soon_threadsafe`, `add_job`): `HAPPersist`, `HAPEvents`,
the advertisement in `HAPPairing`. State of one is keyed by something of another:
subscriptions and prepared writes by peer address, camera sessions by an id the
controller chooses, transports by keys. And the application's callbacks, which
may raise or call back, run in the middle of an operation (`HAPWrites`,
`HAPCharacteristic`, `CameraControls`).

What is hard about it, and what makes each part correct:

* *Pairing.* All connections share one SRP verifier, and a session outlives the
  permission it was opened with. Who is paired must only change by somebody
  entitled to it at that moment, the dictionaries must not come to disagree, and
  pairings must not be left without an admin by a removal.
* *State file.* It is written by several threads from dictionaries the loop is
  changing, and the process may die anywhere. It must always be loadable, and
  hold the state when the writing is done.
* *Events.* They are delayed, coalesced, and dropped for whoever unsubscribed or
  left. None must be stuck, none reach who left, and observers must end with the
  last value.
* *Writes.* Callbacks on three levels can fail; the status must be true.
  Prepared writes expire and belong to a connection.
* *Recordings.* A transport's keys must serve one connection only. Tasks of
  successive recordings share their connection's fields, a cancelled one may
  go on, and none may send as another or after a close.
* *Connections.* Requests may be pipelined behind one that is answered by a task;
  all must be answered in their order or the connection must end.
* *Accessories.* Controllers remember identifiers; two objects must never share
  one, nor may one be given again, whatever is added and removed.
* *Values.* Threads and the loop change a value and its properties while the loop
  fills the cache; what is served and stored must agree with them.
* *Streams.* Starts and stops await a process; an encoder must not be left running
  with nothing that names it, nor a stream in use without a session.
* *Bytes.* Any cut of the stream must give the same blocks, any value must come
  back from the TLV, the data stream and the camera encodings.

## Modules

**`HAPState`** has the pairing part of `State` as a record and its operations as
operators on it. A client is its UUID; keys and bytes are abstracted to whether
they are there. `RemovePairedClient` has the two subtle parts of
`remove_paired_client`: the `pop` that raises for a client without properties,
and the end of all pairings with the last admin (which leaves `uuid_to_bytes`
alone). `AddUntilPerms` is an addition that fails at its permissions, with the
client paired by then.

**`PairRegistry`** is what the pairing part promises: a register of members and
admins. An empty one is opened by somebody who is let in at that moment (an
input); afterwards only an admin enrols and revokes; with the last admin
everybody goes.

**`HAPPairing`** is the detailed one. One action is one request: dispatch,
handler, response and `_process_response` run in a single loop callback. The
driver's verifier is `srp_verifier` (none, or what its A is like), `srp_key` (who
shares its session key K) and `challenged` (who has got its challenge). M1 replaces
it for all connections; M3 calls `set_A` before the proof is looked at, so that K
stays when the proof is wrong; M5 needs the shared K, and no M3 that was right.
`set_A` takes any A (`hsrp.py:93`). With the one SRP prescribes, K is shared by a
controller that knows the setup code and answers the current challenge, and by
nobody else; of any other A the model lets anybody share the K, and nothing is
claimed of who is paired by it (`MayShareK`). `client_uuid` is a connection's
verified client; it is set together with `is_encrypted`. `finish_jobs`,
`updates` and `publishing` are the way of a pairing change to the network.
A request that is refused changes nothing and is a stuttering step; one that raises
halfway (`AddPairingRaises`, the `KeyError` in `Unpair`) leaves what it did. The
first state is any that a complete file may hold, the dictionaries in agreement or
not. It implements `PairRegistry` with members `state.paired`, admins
`MemberAdmins(state)` and, as who is let in, `MayShareK`.

**`HAPPersist`** has `persist` step by step: create the temp file, read three
dictionaries and the version, dump, replace. `raced` are the threads whose
dictionary changed size under the comprehension, which may then raise.
`async_persist` puts a call into the executor's queue (`queued`),
`config_changed` runs it in its caller's thread. `Crash` loses memory and
threads, `Restart` loads the file and may increment the version. `orderly` is a
history variable.

**`HAPEvents`** follows a value from where it is set to the controllers. `topics`
and `queue` are the code's dictionaries, `timer` and `soon` the two ways
`_send_events` gets called, `calls` the `call_soon_threadsafe` entries, `thread`
an application thread between setting, reading and publishing. `told` is what a
subscribed controller takes a value to be: what it read, wrote, or was sent. A
connection is open, closing (`close()` was called, `connection_lost` is to come)
or closed. Its queue and timer are those of its protocol object: they survive
`connection_lost`, and the next connection from that address has its own. *Immediate* characteristics are those of `IMMEDIATE_NOTIFY`; the one
of them that is always null is left out.

**`HAPWrites`** has a batch of writes as one step, with the callbacks that raise and
the values that callbacks set chosen freely, and the prepared writes with a clock.
`Taken` is `to_valid_value` and `valid_value_or_raise`, as a table: what each
characteristic makes of each value asked for, or that it refuses it; `AlwaysNull`
are those whose value is reset. A query of a batch is told by
its place in it, so that two for the same characteristic are two.

**`HAPConnection`** is one connection above the bytes: h11's states of the two
sides (`client`, `server`), the requests that were received and those that were
`taken`, whether a part of the next one has come (`partial`), the task and the one
`response` of snapshots. `data_received` is taken
event by event of h11 (`Paused`, `NextEventRaises`, `Answer`, `AnswerLater`), with
`processing` while it runs, since nothing else runs in the loop then.

**`HAPAccessories`** has a bridge and its accessories with an `IIDManager` each,
the services listed in an accessory and the characteristics in a service. An
accessory is constructed with an AID of its own, the bridge's or none; it is
bridged in any order; services are added, again too, and objects removed from the
manager. `Representation` and `GetCharacteristic` are what controllers see, with the
IID of `ListedIid`: a characteristic lists the one it had when its representation
was `cached`, until its value, name or properties change.

**`HAPCharacteristic`** has one numeric characteristic. `todo` is what each actor
has still to do of its call, step by step as the code does it: store, clear the
caches, call back, override the properties and the valid values, adjust, check;
and for `to_HAP`: represent, get, fill. A callback returns, raises, or sets the
value again. `raced` and `mixed` are history: a representation that was stored
after a thread had changed what it was made of, and properties that were
overridden during another call.

**`CameraSessions`** has the sessions by id and every session dict and encoder
process there ever was, since a job may go on with a dict that is no longer
named. A write queues a job; the loop begins jobs in order (`BeginStart`,
`BeginStop`), they await an encoder and go on in any order (`StartSucceeds`,
`StartFails`, `FinishStop`). `StopRaises` is `terminate()` on a process that has
ended. `orderly` is history: every write came when nothing was under way, each
session was set up once and none reconfigured.

**`CameraControls`** has the WebRTC sessions with their count; the event queue with
a controller that queries and acknowledges (`happened` and `heard` are history);
and ingest sessions with their two tasks, one that pushes and one that stops.

**`HAPFraming`** keeps the blocks of the stream, each with its length and where it
ends, and the number of bytes received; `DecryptLoop` relates the blocks decrypted
before and after.
**`TLV8`** numbers the bytes of each value, so that lost, repeated and misplaced
ones show. **`HDSMessages`** builds values of constants, integers, texts, data,
lists and dicts and serializes them with the code's widths; decoding is a recursive
function of how many turns are left (no more than there are bytes), how many values
are wanted and where. **`HKSVMessages`** has a table of fields for each class of
the camera messages, which its `encode` and `decode` amount to, and once the nested
TLV they share: joining, splitting with re-encoding, merging of fragments; bytes
are bytes here, for the sizes decide where values are cut. A class that is in
another one is named in its table. `Choose` says which message is wanted, with which
lengths, list sizes and optional fields; `Compose` is the call of the `encode` of a
class, which comes after those of the classes in it. `made` keeps every message with
its contents and its bytes, so that the property is about the inner ones as well.

**`HDS`** has the listener, the connections and the tasks that send recordings.
One action is one frame with its handler and response, or one step of a task. A
frame of a connection that has claimed nothing is tried with the pending
transports (`Readable`, `Bind`); its controller uses the keys of any transport it
ever got a salt for, or others. `job` is what a task does: ready, in its delegate
(`running`), done, and whether a cancellation is on its way to it; the delegate
may end on it or go on. `wanted` and `sent` are history: what the controller
asked last, and what was written since the last open. `Yield` is a packet of the
delegate, sent in its chunks or dropped by a transport that is closing.

**`HAPPairing_proofs`** and **`HAPPersist_proofs`** (each with what it needs of
`HAPState`), **`HAPEvents_proofs`**, **`HDS_proofs`**, **`HKSV_proofs`**
(`HKSVMessages`), **`Wire_proofs`** (`HAPFraming`, `HAPConnection`, `TLV8`,
`HDSMessages`; it extends `HKSV_proofs` for lemmas on bytes and on induction),
**`Camera_proofs`** (`CameraSessions`, `CameraControls`) and **`Database_proofs`**
(`HAPAccessories`, `HAPCharacteristic`, `HAPWrites`) hold the proofs. **`MCHAPPersist`** and **`MCHDS`** add a symmetry for TLC. **`Wire`**
(`HAPConnection`, `HAPFraming`, `TLV8`, `HKSVMessages`, `HDSMessages`) and **`Database`**
(`HAPAccessories`, `HAPCharacteristic`, `HAPWrites`) put together what is proved
about with open constants; **`MCWire`** chooses which of its five parts
a behaviour is of, **`MCDatabase`** adds values and a symmetry, **`MCWrites`** values that are taken as they are, and **`MCCamera`** has `CameraSessions` and
`CameraControls`. The modules put together share no state, so a behaviour is one of
a single module and nothing is lost.

Operators with a comment that begins with *Mistake:* are plausible slips of the
definition below them. They are used by no specification; with one of them in
place of that definition a property fails.

## Runs

| run | checks | shows |
|---|---|---|
| `pairing` | types, the dictionaries' agreement is kept, who changes what, `PairRegistry`, the advertisement catches up | two controllers, one with the setup code, on two connections from every complete file, all interleavings (512 000 states) |
| `persist` | types, always loadable, catches up when in order | two pool threads, a caller of `config_changed`, three changes, a crash (498 000 states) |
| `persist_overtaken` | `FileCatchesUp` | is violated: see findings |
| `persist_torn` | `RestartedConsistent` | is violated |
| `events` | types, subscriptions end, nothing stuck, nothing unwanted, observers converge, queues drain | two characteristics, an observer and a writer, a thread, two changes (138 000 states) |
| `wire` | `RoundTripWithRest`, `ConfigurationsComeBack`, `MessagesComeBack`, `BlocksAreWhole`, `RequestsAreAnsweredInOrder` | TLV messages of up to three items, all camera messages with lists of up to three, HDS values nested twice, every cut of three encrypted messages, up to three requests of a connection (71 129 states) |
| `tlv_round_trip` | `RoundTrip` | is violated |
| `hds` | types, one connection per transport, fragments belong and are whole, stop reaches who claimed, nothing after a close | two transports, two connections, two recordings of up to two fragments (205 000 states) |
| `camera` | types, encoders can be stopped, a busy stream has a session, stop is thorough, no event is missed, an ingest session ends once | two session ids on a legacy and on the tier stream, three set-ups and encoders; two WebRTC sessions; four events, two ingest sessions (2 310 000 states) |
| `camera_stop` | `StopStopsEverything` | is violated |
| `database` | types, what is listed is found, identifiers are not given again, the cache is current, the value is allowed, prepares end with the connection, success is true | a bridge and two accessories; a characteristic with a thread and three calls; all batches of two queries over two services (1 430 000 states) |
| `writes_expired` | `ExpiredWriteRefused` | is violated |

Bounds, and why they are enough:

* `pairing`: with two clients there is a last admin, an other one, and one to
  add, demote and remove; one knows the setup code and one does not, and both can be
  in the middle of pair-setup on the shared verifier. `MaxJobs` 1 lets one update be in each of
  the three stages, so three are on their way at a time. The safety
  properties are also proved for any number.
* `persist`: two pool threads and a caller are enough to overlap in any
  way, three changes to disturb each of two reads and be followed by one more;
  `MaxVersion` is 2, so that the version wraps. In the two runs with violations it
  is the code's 65535.
* `events`: two values and two changes let a queued event be replaced by an older
  value; one controller only observes, the other does everything else.
* `wire`: a block of at most 4 bytes with a length of 2 and a tag of 3 has every
  relation to the smallest block that 1024, 2 and 16 have. TLV fragments of 3
  instead of 255 bytes in `TLV8`; in the camera messages they are the code's, and
  the lengths (`TextLengths`: 0, 1, 16, 254, 255, 256, 510 and 600) are on both sides
  of one fragment and in the second and third; lists (`MaxListed`) are empty, of one
  item, or of two or three with separators between them. For
  HDS a byte has 4 values, so that the integers (the sizes 0 to 3, 7 to 9, 127 to
  129 and 300, and their negatives) lie on both sides of every width; at most three
  values are built and two lists or dicts made, so that one can hold the other, or
  be empty. Three requests let one be answered later, one be behind it, and one
  behind both.
* `hds`: two connections compete for a transport, or one comes after the other;
  two tasks on one connection are a recording and the one after it; fragments of 0,
  2 and 3 bytes with chunks of 2 are an empty one, an exact one and one with a rest.
* `camera`: two ids on two streams meet, follow and replace each other; three encoders
  are one that runs, one that is started beside it, and one after both; two jobs in
  the queue are a stop behind a start. Events are more than a controller's limit.
* `database`: two accessories besides the bridge can compete for an AID, with the
  one they were constructed with (3), the bridge's (1) or none; four IIDs and two
  services per accessory let one be removed and others follow; one thread beside
  the loop is enough to come between any two of its steps, and of three calls one
  can change the value, one the properties and one fill the caches; for writes one
  peer, one pid, two characteristics (one always null) in two services of one accessory,
  values that are taken, clamped and refused, one callback that raises or one value
  that is set (`MaxEffects`), and one response on its way at a time.

The properties of `events` (but for liveness), `hds`, `camera` and `database`, and
those of `wire` (of `RequestsAreAnsweredInOrder` the safety half) are also proved for
any sizes and numbers.

`CHECK_DEADLOCK FALSE` is set where the changes, messages or items are used up or
the server was stopped; `pairing` can always go on.

Fairness. In `HAPPairing` the thread pool runs its jobs and the loop its
callbacks and tasks; no request is owed. In `HAPEvents` timers fire, the loop
runs its callbacks, a transport that was closed ends in `connection_lost`, and a
thread that has set a value goes on to publish it. In `HAPConnection` a callback
of the loop runs to its end, and the task of a snapshot ends since it has a
timeout (`hap_handler.py:104`). No controller ever has to do anything, and no
other module states fairness.

## Findings

* **A state file can stay behind** (`persist_overtaken`; `accessory_driver.py:642`,
  `:670`). `async_persist` starts `persist` in an executor with several threads.
  Two of them can replace the file in the other order than they read the
  state in. The same happens between a thread of the pool and `config_changed`.
* **A state file can be torn** (`persist_torn`; `encoder.py:60`). A pairing that is
  added between the reads is in one dictionary and not in the other; if
  the process dies before the next persist, it starts like that, and removing
  the client raises `KeyError`.
* **An encoder that has ended keeps the camera from stopping** (`camera_stop`;
  `camera.py:1743`). `stop` gathers the stops of all sessions; `terminate()` raises
  `ProcessLookupError` for a process that is gone, and the HDS listener is not
  stopped, nor the rest of `AccessoryDriver.async_stop` run.
* **TLV values of 510, 765, ... bytes do not come back** (`tlv_round_trip`;
  `tlv.py:38`, `data[-0:]` is the whole value). `RoundTripWithRest` shows that all
  others do.
* **Expired timed writes are executed** (`writes_expired`; `accessory_driver.py:910`).
  Only queries without a value are refused.

What else the models show:

* A block with one byte of payload waits for the next byte (`hap_crypto.py:88` has
  `>` for `>=`); `BlocksAreWhole` says that nothing else does.
* A data stream connection that was accepted before `stop` and had not sent its
  first frame stays open and claims its transport later (`hds_server.py:229`);
  `StopReachesBound` speaks of those that had claimed one.
* A request that is pipelined behind a pending snapshot closes the connection,
  and neither is answered (`hap_protocol.py:254`). A delayed response to a request
  with `Connection: close` leaves the connection open (`hap_protocol.py:326`;
  only `_process_events` looks at `MUST_CLOSE`).
* Camera streams (`camera.py`), where writes do come while a job awaits, or a session
  is reconfigured: a second start or a new set-up of the same id loses the first
  encoder; a session that is deleted during its start has an encoder nothing
  names; a `reconfigure_stream` that returns `None` is taken as failed; the stop of a
  tier whose encoder is dead raises after the session was removed, with the
  status left; and a tier start that failed leaves `tier_streaming` set, so that the
  next one is acknowledged without a stream. `orderly` excludes the first three
  from `EncoderCanBeStopped` and `BusyStreamHasSession`.
* Two controllers share one event queue of the camera buffer, so one's
  acknowledgement takes the other's events (`camera.py:1079`); `NoEventIsMissed` is
  about one controller. An uploader whose `close` raises keeps the end of its
  session from being announced (`hksv_cmaf.py:127`), and a `webrtc_end_session` that
  raises leaves the count of sessions as it was (`camera.py:929`).
* `hsrp.py:93` (`set_A`) refuses no A, and M5 (`hap_handler.py:352`) does not ask for
  an M3 whose proof was right, so that what keeps others out of pair-setup is the K
  of an A that is the prescribed one; `ChangedByAdminOrSetup` and `RegistrySpec` say
  so and claim nothing for another.
* Permissions of an addition that are no single byte raise after the client was added
  to `paired_clients` and before it has properties (`state.py:93`);
  `remove_paired_client` then raises, too. `AgreementIsKept` says that nothing else
  makes the dictionaries disagree.
* A characteristic that was removed from the `IIDManager` is listed with its old IID
  as long as its representation is cached (`characteristic.py:433`), also when it has
  a new one; the old one is found nowhere. `ListedIsFound` says so.
* An ingest session that was never started can be stopped, or fail, and its end is
  announced (`hksv_cmaf.py:112`).
* An event that is sent while its connection is closing raises, and stays in the queue
  of a connection that is about to be lost (`hap_protocol.py:231`).
* A representation that `to_HAP` stores after a thread has changed the value is
  served until the next change (`characteristic.py:433`). With a maximum that is no
  multiple of the step, `to_valid_value` of an allowed value may be another one. An
  always-null characteristic keeps its value when its setter callback raises.
* Camera messages inherit the fault of the codec: a certificate, or a list, of 510 or
  765 bytes does not come back. Of several supported profiles and levels
  `hksv_recording.py:88` keeps the first.
* A setter that raises leaves its value in place, and nobody is told of it
  (`characteristic.py:399`); `ObserversConverge` leaves these characteristics out.
* Adding the only admin again as a user leaves pairings without an admin
  (`state.py:93`; a step of `HAPPairing`).
* An event that was queued for a controller before its own write is sent to it
  after the write (`hap_protocol.py:127`).
* A recording whose connection is lost goes on until its delegate ends
  (`hds_server.py:102`), and a transport nobody claims is pending for good.

## Proofs

All for any value of the constants under the named assumptions of the modules
(clients and threads may be infinite sets).

* `HAPPairing_proofs` and `HAPPersist_proofs` begin with lemmas on `HAPState`: the
  operations keep a state a state and the dictionaries in agreement, and what they
  do to the admins.
* `HAPPairing_proofs`: the inductive invariant is type correctness, *who shares K may*
  (`KeyOfPinHolder`: a holder of the setup code, unless the A of the last M3 was none
  that SRP prescribes), and that the client of a session that can administer is paired
  (`AdminSessionsArePaired`: it was verified as one, and whoever leaves
  `paired_clients` takes its properties along, or had none). The second is what M5
  rests on: nothing in its guard speaks of the setup code. From it
  follow `TypeCorrect`, `AgreementKept`, `UnpairedEnds`,
  `ChangedByAdminOrSetupHolds`, `RemovalKeepsAnAdminHolds` and `ImplementsRegistry`
  (initial states map to initial states; M5 to `Open`, additions, also those that
  fail halfway, to `Enrol`, remove to `Revoke`, the rest to stuttering).
* `HAPPersist_proofs`: `PersistTypeCorrect`; `FileIsLoadable`, from the invariant that
  what is about to replace the file is complete; and `FileCatchesUpWhenInOrder`.
  For the latter the invariant says of an orderly history that at most one
  persist runs, that one which was disturbed has another one queued behind it,
  and that with none queued what the running one has read so far is still the
  state's (`Current`).
* `HAPEvents_proofs`: `EventsTypeCorrect`, `SubscriptionsEnd`, `EventsAreSent` and
  `OnlySubscribersHear`. The invariant adds that a controller whose connection was lost
  starts from nothing (`ClosedForgets`).
  `ObserversAreUpToDate` (that is `ObserversConverge`) needs more, because nothing
  in it speaks of events under way. `InTouch` says that for an observer and a
  characteristic that is set in the loop either an event waits, carries the value
  of the moment and will not be dropped since the observer subscribes, or the
  observer is up to date; `OnlyThreadsCall`, that what waits in `calls` or in a
  thread is of other characteristics.
* `HDS_proofs`: all safety properties of `HDS`. `JobsOwned` says that a task that is
  not over is its connection's `_task` and has its `_stream_id`, which is what the
  refusal of an open rests on; `ClosedWhenUnwanted` that a closed recording is
  marked so; `FragmentsCounted` that a task's number is one more than what was
  sent while the transport is open; `ClaimersListed` that the listener's set
  misses no claimer. `ChunksReassemble` is about `_send_fragment` for every
  size.

* `Wire_proofs`: `AnswersInOrder`. The invariant says that in an open
  connection all that was dispatched is answered, but for the last request if
  its response is a task, and that this is the only task and has `self.response`.
  `StreamIsDecrypted` (that is `BlocksAreWhole`), for any sizes of the length, the
  tag and the largest block: the blocks follow each other without a gap, also when
  `Blocks` cuts a message, and `decrypt` took no byte that had not come and
  stopped because it had to. It assumes `Parameters`.
* `Wire_proofs`, on codecs: `PairingMessagesComeBack` (that is `RoundTripWithRest`)
  and `DataMessagesComeBack` (that is `MessagesComeBack`), for any number of items,
  any lengths of values and fragments, any base of a byte and any nesting. Both
  codecs are recursive functions, and the library's induction cannot be
  instantiated; so induction over numbers is had from the least element a set of
  numbers has (`NumbersFollow`), and that such a function satisfies its own
  equation, from one that does being constructed. For TLV8 it is shown that the
  turns of the decoder find one fragment each, that the fragments of an item join
  to its value, and that the end of an item is told from the next one; the
  hypothesis is the one of the property, that no value is two or more full
  fragments and nothing else. For data streams `ValuesOK` says that what was built
  belongs to a set of values that is `Closed`: each of them is a leaf, or a list or
  dict of values of the set. Induction over the turns of the decoder
  (`AlwaysRight`) shows for all values of such a set, at any place in any payload,
  that the decoder finds the value and stops behind it if the encoding lies there
  whole, and nothing if the payload ends before; that digits of a number add up to
  it (`DigitsBack`), with the sign of the widths, is a lemma.
* `HKSV_proofs`: `CameraMessagesComeBack` (that is
  `ConfigurationsComeBack`), for texts and keys of any length and lists of any size,
  with the code's fragments of 255 bytes; it assumes `Camera!Parameters`, that
  lengths and the bound of lists are numbers. The property is not inductive: that
  the bytes of a message decode to its contents says nothing of a list or a field
  they are put in. `CameraOK` adds what is needed of a message that is put in a list
  (`MessageFits`): that its bytes are those of items laid one behind the other, at
  least one, no two neighbours with the same tag, none with the separator's, and no
  value that `tlv.encode` spoils. From there the argument is on the codec. A value
  of any length is one fragment or a full one and a shorter value, so that
  `_iter_tlv` finds it by induction over its length (`ItemParsed`); it finds all
  items of such a list, by induction over the list (`ItemsBack`), since where two
  neighbours differ no merging goes on; `_split_items` gives back the joined lists,
  since encoding the items again gives the bytes they came from (`SplitBack`); hence
  a message comes back if those in it fit (`MessageBack`), and fits itself
  (`MessageComposed`). That each table has what this asks for (tags from 1 on that
  all differ, and a field that is always there in what goes into lists) is
  `TablesFit`.
* `Camera_proofs`, on streams: `TypeCorrect`, `EncodersCanBeStopped`,
  `BusyStreamsHaveSessions` and `StopIsThoroughAlways`. None of them is inductive.
  `TrackedInv` holds always: a session has a dict with its own id, a dict an
  encoder that exists, an encoder that is being started one task that awaits it,
  and one that a task is stopping was told to end. `InOrder` holds as long as writes
  are orderly: an id has at most one job, waiting or under way; a start is of a
  session that is there, a stop knows the dict it took; a running encoder is in
  the dict of a session, and a busy legacy stream has a session with an encoder;
  and once `Camera.stop` has begun nothing is started, and every encoder that is left
  is gathered.
* `Camera_proofs`, on controls: `ControlsTypeCorrect`; `EventsReachController`, since
  the queue is the end of what happened, from a point the controller has heard,
  and what it has heard is the beginning; `SessionsEndOnce`, since whoever closes
  an ingest session was the only one to find it open, and until the uploader is
  closed no end has been announced (`EndsOnce`). `AllTypesCorrect` composes.
* `Database_proofs`, on accessories: `ListedAreAlwaysFound` and
  `IdentifiersNeverReassigned`. `ManagersAgree` says that the two directions of
  an `IIDManager` are inverse and end at the counter; `Owned`, that what is listed
  in an accessory or a service has it as its broker, and nothing else does;
  `AidsApart`, that no two accessories of a bridge have the same AID, nor the
  bridge's; `CachesLead`, that a cached IID is one the manager gave to the
  characteristic, and leads to it or nowhere. Assigning IIDs to a whole service needs the lemmas that numbering the
  new objects in their order is one to one and reaches the new counter.
* `Database_proofs`, on values: `CachesAreCurrent` and `ValuesAreAllowed`. What an
  actor has still to do is one of a few shapes (`ProperInv`); a cache that
  disagrees has its clearing still ahead, in some actor, or was raced (`CacheInv`,
  `RepInv`); a value out of its range or not among the valid ones has an
  adjustment, a check or a store still ahead (`AllowedInv`). All of `ValueAssumption`
  is needed, above all that valid values lie within the limits.
* `Database_proofs`, on writes: `PreparesEnd`, since what is prepared is the peer's
  own and only losing the connection ends it; `SuccessesAreTrue`, for batches of
  any length and any table of conversions: the last query of a characteristic that was
  taken decides its value, unless a callback sets another, a status of success is
  that of the last one, and a failure on any of the three levels reaches every query
  it concerns. `AllTypesCorrect`
  composes the three.

Model-checked only: the liveness properties (`AdvertisementCatchesUp`, `QueuesDrain`,
and that requests are answered), which are beyond the prover.

## Not modelled

* Cryptography beyond who shares a key; the frames of `hds.py` arrive whole or not
  yet. How h11 parses a request.
* I/O errors of the file system while persisting.
* Events: always-null characteristics and getter callbacks; what the protocol object
  of an earlier connection from the same address still holds and sends to nobody. In
  `HAPPairing` and `HAPEvents` a connection's next user comes after `connection_lost`
  of the one before.
* `get_characteristics`, which reads and reports errors per characteristic.
* Accessories: linked and primary services, the set-up code and QR message, a
  manager of IIDs the application brings, the second cache of representations, which
  have no value and are only hashed. The conversion of a written value is a table in
  `HAPWrites`, what it computes is in `HAPCharacteristic`. Values that are no numbers.
* Cameras: the stream configuration messages of `camera.py`, supported video
  configurations with several profiles or levels, snapshots (their tasks are in
  `HAPConnection`), SRTP, re-offers and session updates, which only call a hook.
* `async_stop` of the driver beyond what it does to connections and the camera.
* JSON resources, tables, constants and logging.

## What could follow

The composition of `HAPPairing` with `HAPPersist`, to say which pairings a
restart may lose; frames of `hds.py` and reads of several characteristics.
