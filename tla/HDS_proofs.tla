----------------------------- MODULE HDS_proofs -----------------------------
(***************************************************************************)
(* Proofs about HDS, for any transports, connections, tasks, streams and   *)
(* fragments: who claims a transport, that stop finds every claimer, and   *)
(* that a recording arrives whole, for the stream it was opened as, and    *)
(* not after a close.                                                      *)
(***************************************************************************)
EXTENDS HDS, TLAPS

(* A task that is not over belongs to the connection whose _task it is, and *)
(* its delegate was called with the stream id the connection has.           *)
JobsOwned ==
  \A t \in Tasks : Live(t) =>
    /\ job[t].owner \in Conns /\ conn[job[t].owner] # "free"
    /\ task[job[t].owner] = t
    /\ stream_id[job[t].owner] \in Ids
    /\ job[t].status = "running" => job[t].of = stream_id[job[t].owner]

(* The listener knows the open connections that have claimed a transport,   *)
(* and a connection that is to come has claimed none.                       *)
ClaimersListed ==
  \A c \in Conns :
    /\ conn[c] = "free" => crypto[c] = None
    /\ conn[c] = "open" /\ crypto[c] # None => c \in connections
    /\ crypto[c] \in registered \cup {None}

(* A recording that the controller has closed is marked so.                 *)
ClosedWhenUnwanted ==
  \A c \in Conns : task[c] # None /\ ~wanted[c] => closed[c]

(* A task will send the fragment that comes after those its controller has. *)
FragmentsCounted ==
  \A t \in Tasks :
    /\ job[t].status = "new" => job[t].number = 1 /\ ~job[t].cancelled
    /\ Live(t) /\ conn[job[t].owner] = "open" =>
         /\ Len(sent[job[t].owner]) = job[t].number - 1
         /\ \A i \in 1 .. Len(sent[job[t].owner]) : ~sent[job[t].owner][i].end

HInv ==
  /\ TypeOK
  /\ JobsOwned
  /\ ClaimersListed
  /\ ClosedWhenUnwanted
  /\ FragmentsCounted
  /\ OneConnectionPerTransport
  /\ FragmentsBelong
  /\ RecordingIsWhole

----------------------------------------------------------------------------
(* Chunks *)

\* A fragment of any size has at least one event, and its last event is where
\* the loop of _send_fragment ends.
LEMMA NumChunksBounds ==
  ASSUME NEW total \in Nat
  PROVE  /\ NumChunks(total) \in Nat \ {0}
         /\ (NumChunks(total) - 1) * ChunkSize <= total
         /\ total <= NumChunks(total) * ChunkSize
         /\ total # 0 => (NumChunks(total) - 1) * ChunkSize < total
<1> DEFINE x == total + ChunkSize - 1
<1> DEFINE q == x \div ChunkSize
<1>1. ChunkSize \in Nat /\ ChunkSize >= 1
  BY ChunkSizeAssumption
<1>2. x \in Nat
  BY <1>1
<1>3. q \in Int /\ q * ChunkSize <= x /\ x < q * ChunkSize + ChunkSize
  BY <1>1, <1>2, SMTT(30)
<1>4. CASE total = 0
  BY <1>4, <1>1 DEF NumChunks
<1>5. CASE total # 0
  <2>1. x >= ChunkSize
    BY <1>5, <1>1
  <2>2. q >= 1
    BY <2>1, <1>1, <1>2, <1>3, SMTT(30)
  <2>3. (q - 1) * ChunkSize = q * ChunkSize - ChunkSize
    BY <1>1, <1>3, SMTT(30)
  <2>4. NumChunks(total) = q
    BY <1>5 DEF NumChunks
  <2> QED
    BY <2>2, <2>3, <2>4, <1>1, <1>3, <1>5
<1> QED
  BY <1>4, <1>5

\* The events of a fragment of any size put it together again.
LEMMA ChunksReassemble ==
  ASSUME NEW total \in Nat, NEW fragment,
         fragment.size = total, fragment.chunks = Chunks(total)
  PROVE  Chunks(total) \in Seq(Chunk) /\ Reassembles(fragment)
<1> DEFINE n == NumChunks(total)
<1>1. ChunkSize \in Nat /\ ChunkSize >= 1
  BY ChunkSizeAssumption
<1>2. n \in Nat \ {0} /\ (n - 1) * ChunkSize <= total /\ total <= n * ChunkSize
      /\ (total # 0 => (n - 1) * ChunkSize < total)
  BY NumChunksBounds
<1>3. n > 1 => total # 0
  BY DEF NumChunks
<1>4. (n - 1) * ChunkSize = n * ChunkSize - ChunkSize
  BY <1>1, <1>2, SMTT(30)
<1> HIDE DEF n
<1>5. ASSUME NEW i \in 1 .. n, i < n
      PROVE  i * ChunkSize < total
  <2>1. i * ChunkSize <= (n - 1) * ChunkSize
    BY <1>1, <1>2, <1>5, SMTT(30)
  <2> QED
    BY <1>1, <1>2, <1>3, <1>5, <2>1, SMTT(30)
<1>6. ASSUME NEW i \in 1 .. n
      PROVE  /\ Chunks(total)[i].number = i
             /\ Chunks(total)[i].isLast <=> i = n
             /\ i < n => Chunks(total)[i].length = ChunkSize
             /\ i = n => Chunks(total)[i].length = total - (n - 1) * ChunkSize
  <2>1. Chunks(total)[i] =
          [number |-> i,
           length |-> IF i * ChunkSize <= total THEN ChunkSize
                      ELSE total - (i - 1) * ChunkSize,
           isLast |-> i * ChunkSize >= total]
    BY DEF Chunks, n
  <2>2. Chunks(total)[i].number = i
    BY <2>1
  <2>3. Chunks(total)[i].isLast = (i * ChunkSize >= total)
    BY <2>1
  <2>4. Chunks(total)[i].length = IF i * ChunkSize <= total THEN ChunkSize
                                  ELSE total - (i - 1) * ChunkSize
    BY <2>1
  <2>5. i * ChunkSize \in Int /\ (n - 1) * ChunkSize \in Int
    BY <1>1, <1>2
  <2>6. /\ i < n => i * ChunkSize < total
        /\ i = n => i * ChunkSize >= total
    BY <1>2, <1>5
  <2>7. i * ChunkSize >= total <=> i = n
    BY <1>2, <2>5, <2>6
  <2>8. Chunks(total)[i].isLast <=> i = n
    BY <2>3, <2>7, Zenon
  <2>9. i < n => Chunks(total)[i].length = ChunkSize
    BY <2>4, <2>5, <2>6
  <2>10. i = n => Chunks(total)[i].length = total - (n - 1) * ChunkSize
    BY <1>1, <1>2, <1>4, <2>4, <2>5
  <2> QED
    BY <2>2, <2>8, <2>9, <2>10, Zenon
<1>7. Chunks(total) \in [1 .. n -> Chunk]
  <2>1. ASSUME NEW i \in 1 .. n
        PROVE  Chunks(total)[i] \in Chunk
    <3>1. Chunks(total)[i].length \in Nat
      BY <1>1, <1>2, <1>4, <1>6, SMTT(30)
    <3> QED
      BY <3>1 DEF Chunks, Chunk, n
  <2> QED
    BY <2>1 DEF Chunks, n
<1>8. Chunks(total) \in Seq(Chunk) /\ Len(Chunks(total)) = n
  BY <1>2, <1>7
<1>9. Reassembles(fragment)
  BY <1>1, <1>2, <1>6, <1>8 DEF Reassembles
<1> QED
  BY <1>8, <1>9

----------------------------------------------------------------------------
(* Types *)

Statuses == {"new", "ready", "running", "done"}

\* What the actions do to a job: one or two fields change, the others do not.
LEMMA JobChanges ==
  ASSUME NEW jobs \in [Tasks -> Job], NEW t \in Tasks
  PROVE  /\ \A s \in Statuses : [jobs EXCEPT ![t].status = s] \in [Tasks -> Job]
         /\ \A n \in Nat : [jobs EXCEPT ![t].number = n] \in [Tasks -> Job]
         /\ \A b \in BOOLEAN : [jobs EXCEPT ![t].cancelled = b] \in [Tasks -> Job]
         /\ \A s \in Statuses, c \in Conns :
              [jobs EXCEPT ![t].status = s, ![t].owner = c] \in [Tasks -> Job]
         /\ \A s \in Statuses, id \in Ids \cup {None} :
              [jobs EXCEPT ![t].status = s, ![t].of = id] \in [Tasks -> Job]
<1> DEFINE j == jobs[t]
<1>1. j \in Job
  OBVIOUS
<1> HIDE DEF j
<1>2. \A s \in Statuses : [j EXCEPT !.status = s] \in Job
  BY <1>1 DEF Job, Statuses
<1>3. \A n \in Nat : [j EXCEPT !.number = n] \in Job
  BY <1>1 DEF Job
<1>4. \A b \in BOOLEAN : [j EXCEPT !.cancelled = b] \in Job
  BY <1>1 DEF Job
<1>5. \A s \in Statuses, c \in Conns : [j EXCEPT !.status = s, !.owner = c] \in Job
  BY <1>1 DEF Job, Statuses
<1>6. \A s \in Statuses, id \in Ids \cup {None} :
        [j EXCEPT !.status = s, !.of = id] \in Job
  BY <1>1 DEF Job, Statuses
<1> QED
  BY <1>2, <1>3, <1>4, <1>5, <1>6 DEF j

\* What a frame does to the binding is well typed.
LEMMA BindTyped ==
  ASSUME TypeOK, NEW c \in Conns, Readable(c), Bind(c)
  PROVE  /\ crypto' \in [Conns -> Transports \cup {None}]
         /\ pending' \subseteq pending
         /\ connections' \subseteq Conns
BY DEF TypeOK, Readable, Bind, binding

\* A step of a recording's task leaves every job a job and every fragment that
\* was sent a fragment.
LEMMA TaskTyped ==
  ASSUME TypeOK, SizesAssumption, NEW t \in Tasks, JobsOwned,
         \/ Start(t) \/ Cancelled(t) \/ DelegateEnds(t)
         \/ \E size \in Sizes, is_last \in BOOLEAN : Yield(t, size, is_last)
  PROVE  TypeOK'
<1>1. /\ UNCHANGED recorder
      /\ job[t] \in Job
      /\ job[t].status \in {"ready", "running"}
  BY DEF TypeOK, Start, Cancelled, DelegateEnds, Yield
<1>2. /\ job[t].owner \in Conns
      /\ stream_id[job[t].owner] \in Ids
      /\ job[t].status = "running" => job[t].of = stream_id[job[t].owner]
  BY <1>1 DEF JobsOwned, Live
<1>3. job' \in [Tasks -> Job] /\ sent' \in [Conns -> Seq(Fragment)]
  <2>1. CASE Start(t) \/ Cancelled(t) \/ DelegateEnds(t)
    <3>1. \/ job' = [job EXCEPT ![t].status = "done"]
          \/ job' = [job EXCEPT ![t].cancelled = FALSE]
          \/ job' = [job EXCEPT ![t].status = "running",
                                ![t].of = stream_id[job[t].owner]]
      BY <2>1 DEF Start, Cancelled, DelegateEnds
    <3>2. UNCHANGED sent
      BY <2>1 DEF Start, Cancelled, DelegateEnds
    <3>3. /\ job \in [Tasks -> Job] /\ sent \in [Conns -> Seq(Fragment)]
          /\ stream_id[job[t].owner] \in Ids \cup {None}
      BY <1>2 DEF TypeOK
    <3>4. /\ [job EXCEPT ![t].status = "done"] \in [Tasks -> Job]
          /\ [job EXCEPT ![t].cancelled = FALSE] \in [Tasks -> Job]
          /\ [job EXCEPT ![t].status = "running",
                         ![t].of = stream_id[job[t].owner]] \in [Tasks -> Job]
      BY <3>3, JobChanges DEF Statuses
    <3> QED
      BY <3>1, <3>2, <3>3, <3>4, Zenon
  <2>2. ASSUME NEW size \in Sizes, NEW is_last \in BOOLEAN, Yield(t, size, is_last)
        PROVE  job' \in [Tasks -> Job] /\ sent' \in [Conns -> Seq(Fragment)]
    <3> DEFINE c == job[t].owner
    <3> DEFINE f == [stream |-> stream_id[c], of |-> job[t].of,
                     number |-> job[t].number, end |-> is_last,
                     size |-> size, chunks |-> Chunks(size)]
    <3>1. job[t].number \in Nat
      BY <1>1 DEF Job
    <3>2. Chunks(size) \in Seq(Chunk)
      BY <2>2, SizesAssumption, ChunksReassemble, f.size = size, f.chunks = Chunks(size)
    <3>3. f \in Fragment
      BY <1>2, <2>2, <3>1, <3>2, SizesAssumption DEF Fragment, Yield
    <3>4. sent' \in [Conns -> Seq(Fragment)]
      <4>1. sent' = sent \/ sent' = [sent EXCEPT ![c] = Append(@, f)]
        BY <2>2 DEF Yield, SendFragment
      <4>2. sent[c] \in Seq(Fragment)
        BY <1>2 DEF TypeOK
      <4>3. Append(sent[c], f) \in Seq(Fragment)
        BY <3>3, <4>2
      <4> HIDE DEF f, c
      <4> QED
        BY <4>1, <4>3 DEF TypeOK
    <3>5. job' \in [Tasks -> Job]
      <4>1. \/ job' = [job EXCEPT ![t].status = "done"]
            \/ job' = [job EXCEPT ![t].number = job[t].number + 1]
        BY <2>2 DEF Yield
      <4>2. job[t].number + 1 \in Nat
        BY <3>1
      <4>3. job \in [Tasks -> Job]
        BY DEF TypeOK
      <4>4. /\ [job EXCEPT ![t].status = "done"] \in [Tasks -> Job]
            /\ [job EXCEPT ![t].number = job[t].number + 1] \in [Tasks -> Job]
        BY <4>2, <4>3, JobChanges DEF Statuses
      <4> QED
        BY <4>1, <4>4, Zenon
    <3> QED
      BY <3>4, <3>5
  <2> QED
    BY <2>1, <2>2
<1> QED
  BY <1>1, <1>3 DEF TypeOK, recorder, listening, binding, manager

\* Every step keeps the types.
LEMMA TypeStep ==
  ASSUME HInv, [Next]_vars
  PROVE  TypeOK'
<1> USE DEF HInv
<1>1. ASSUME NEW t \in Transports, Register(t)
      PROVE  TypeOK'
  BY <1>1 DEF TypeOK, Register, manager
<1>2. ASSUME NEW c \in Conns, NEW t \in salts \cup {None}, Accept(c, t)
      PROVE  TypeOK'
  BY <1>2 DEF TypeOK, Accept, listening, binding, manager
<1>3. ASSUME NEW c \in Conns, Answer(c) \/ Fail(c)
      PROVE  TypeOK'
  <2>1. Readable(c) /\ Bind(c)
    BY <1>3 DEF Answer, Fail
  <2> QED
    BY <1>3, <2>1, BindTyped DEF TypeOK, Answer, Fail, listening, manager
<1>4. ASSUME NEW c \in Conns, Hangup(c) \/ ConnectionLost(c)
      PROVE  TypeOK'
  BY <1>4 DEF TypeOK, Hangup, ConnectionLost, listening, binding, manager
<1>5. ASSUME NEW c \in Conns, NEW id \in Ids, NEW t \in Tasks, Open(c, id, t)
      PROVE  TypeOK'
  <2>1. Readable(c) /\ Bind(c)
    BY <1>5 DEF Open
  <2>2. job \in [Tasks -> Job]
    BY DEF TypeOK
  <2>3. [job EXCEPT ![t].status = "ready", ![t].owner = c] \in [Tasks -> Job]
    BY <2>2, JobChanges DEF Statuses
  <2>4. job' \in [Tasks -> Job]
    BY <1>5, <2>3, Zenon DEF Open
  <2>5. sent' \in [Conns -> Seq(Fragment)]
    BY <1>5 DEF TypeOK, Open
  <2> QED
    BY <1>5, <2>1, <2>4, <2>5, BindTyped DEF TypeOK, Open, listening
<1>6. ASSUME NEW c \in Conns, Close(c)
      PROVE  TypeOK'
  <2>1. Readable(c) /\ Bind(c)
    BY <1>6 DEF Close
  <2>2. job \in [Tasks -> Job] /\ (Busy(c) => task[c] \in Tasks)
    BY DEF TypeOK, Busy
  <2>3. Busy(c) => [job EXCEPT ![task[c]].cancelled = TRUE] \in [Tasks -> Job]
    BY <2>2, JobChanges
  <2>4. job' \in [Tasks -> Job]
    BY <1>6, <2>2, <2>3, Zenon DEF Close
  <2> QED
    BY <1>6, <2>1, <2>4, BindTyped DEF TypeOK, Close, listening
<1>7. CASE Stop \/ Stopped
  BY <1>7 DEF TypeOK, Stop, Stopped, binding, manager
<1>8. ASSUME NEW t \in Tasks,
             \/ Start(t) \/ Cancelled(t) \/ DelegateEnds(t)
             \/ \E size \in Sizes, is_last \in BOOLEAN : Yield(t, size, is_last)
      PROVE  TypeOK'
  BY <1>8, TaskTyped, SizesAssumption
<1>9. CASE UNCHANGED vars
  BY <1>9 DEF TypeOK, vars
<1> QED
  BY <1>1, <1>2, <1>3, <1>4, <1>5, <1>6, <1>7, <1>8, <1>9 DEF Next

----------------------------------------------------------------------------
(* Transports and connections *)

\* Claiming a transport: it is pending, so nobody has claimed it before.
LEMMA BindClaims ==
  ASSUME TypeOK, ClaimersListed, OneConnectionPerTransport,
         NEW c \in Conns, Readable(c), Bind(c),
         UNCHANGED registered,
         \A d \in Conns : conn'[d] = "open" => conn[d] = "open",
         \A d \in Conns : conn'[d] = "free" => conn[d] = "free"
  PROVE  ClaimersListed' /\ OneConnectionPerTransport'
<1>1. CASE crypto[c] # None
  BY <1>1 DEF TypeOK, Bind, binding, ClaimersListed, OneConnectionPerTransport
<1>2. CASE crypto[c] = None
  <2>1. key[c] \in pending /\ conn[c] = "open"
    BY <1>2 DEF Readable
  <2>2. crypto' = [crypto EXCEPT ![c] = key[c]] /\ pending' = pending \ {key[c]}
        /\ connections' = connections \cup {c}
    BY <1>2 DEF Bind
  <2>3. \A d \in Conns : crypto[d] # key[c]
    BY <2>1, NoneAssumption DEF TypeOK, OneConnectionPerTransport
  <2>4. ClaimersListed'
    BY <2>1, <2>2 DEF TypeOK, ClaimersListed
  <2> QED
    BY <2>1, <2>2, <2>3, <2>4 DEF TypeOK, OneConnectionPerTransport
<1> QED
  BY <1>1, <1>2

\* Every step keeps the claims.
LEMMA ClaimStep ==
  ASSUME HInv, [Next]_vars
  PROVE  ClaimersListed' /\ OneConnectionPerTransport'
<1> USE DEF HInv
<1>1. ASSUME NEW t \in Transports, Register(t)
      PROVE  ClaimersListed' /\ OneConnectionPerTransport'
  BY <1>1, NoneAssumption
  DEF TypeOK, Register, ClaimersListed, OneConnectionPerTransport
<1>2. ASSUME NEW c \in Conns, NEW t \in salts \cup {None}, Accept(c, t)
      PROVE  ClaimersListed' /\ OneConnectionPerTransport'
  BY <1>2 DEF TypeOK, Accept, listening, binding, ClaimersListed, OneConnectionPerTransport
<1>3. ASSUME NEW c \in Conns,
             \/ Answer(c) \/ Fail(c) \/ Close(c)
             \/ \E id \in Ids, t \in Tasks : Open(c, id, t)
      PROVE  ClaimersListed' /\ OneConnectionPerTransport'
  <2>1. Readable(c) /\ Bind(c) /\ UNCHANGED registered
    BY <1>3 DEF Answer, Fail, Close, Open, listening
  <2>2. UNCHANGED conn \/ conn' = [conn EXCEPT ![c] = "closing"]
    BY <1>3 DEF Answer, Fail, Close, Open
  <2> QED
    BY <2>1, <2>2, BindClaims DEF TypeOK
<1>4. ASSUME NEW c \in Conns, Hangup(c) \/ ConnectionLost(c)
      PROVE  ClaimersListed' /\ OneConnectionPerTransport'
  BY <1>4 DEF TypeOK, Hangup, ConnectionLost, listening, binding, ClaimersListed,
              OneConnectionPerTransport
<1>5. CASE Stop \/ Stopped
  BY <1>5 DEF TypeOK, Stop, Stopped, binding, ClaimersListed, OneConnectionPerTransport
<1>6. ASSUME NEW t \in Tasks,
             \/ Start(t) \/ Cancelled(t) \/ DelegateEnds(t)
             \/ \E size \in Sizes, is_last \in BOOLEAN : Yield(t, size, is_last)
      PROVE  ClaimersListed' /\ OneConnectionPerTransport'
  <2>1. UNCHANGED recorder
    BY <1>6 DEF Start, Cancelled, DelegateEnds, Yield
  <2> QED
    BY <2>1 DEF recorder, listening, binding, ClaimersListed, OneConnectionPerTransport
<1>7. CASE UNCHANGED vars
  BY <1>7 DEF vars, ClaimersListed, OneConnectionPerTransport
<1> QED
  BY <1>1, <1>2, <1>3, <1>4, <1>5, <1>6, <1>7 DEF Next

----------------------------------------------------------------------------
(* Recordings *)

RInv ==
  /\ JobsOwned
  /\ ClosedWhenUnwanted
  /\ FragmentsCounted
  /\ FragmentsBelong
  /\ RecordingIsWhole

\* A step that has nothing to do with recordings keeps what is known of them.
LEMMA QuietStep ==
  ASSUME HInv, UNCHANGED <<stream_id, task, closed, wanted, job, sent>>,
         \A c \in Conns : conn'[c] = "open" => conn[c] \in {"open", "free"},
         \A c \in Conns : conn'[c] = "free" => conn[c] = "free"
  PROVE  RInv'
<1>1. JobsOwned' /\ ClosedWhenUnwanted'
  BY DEF HInv, JobsOwned, Live, ClosedWhenUnwanted
<1>2. FragmentsCounted'
  BY DEF HInv, JobsOwned, Live, FragmentsCounted
<1>3. FragmentsBelong' /\ RecordingIsWhole'
  BY DEF HInv, FragmentsBelong, RecordingIsWhole, Reassembles
<1> QED
  BY <1>1, <1>2, <1>3 DEF RInv

\* A recording that is opened has no other task that is not over, and nothing of
\* it was sent.
LEMMA OpenStep ==
  ASSUME HInv, NEW c \in Conns, NEW id \in Ids, NEW t \in Tasks, Open(c, id, t)
  PROVE  RInv'
<1> USE DEF HInv
<1>1. /\ conn[c] = "open" /\ UNCHANGED conn
      /\ job[t].status = "new" /\ ~Busy(c)
      /\ stream_id' = [stream_id EXCEPT ![c] = id]
      /\ closed' = [closed EXCEPT ![c] = FALSE]
      /\ task' = [task EXCEPT ![c] = t]
      /\ job' = [job EXCEPT ![t].status = "ready", ![t].owner = c]
      /\ wanted' = [wanted EXCEPT ![c] = TRUE]
      /\ sent' = [sent EXCEPT ![c] = <<>>]
  BY DEF Open, Readable
<1>2. /\ job'[t].status = "ready" /\ job'[t].owner = c
      /\ job'[t].number = job[t].number /\ job'[t].cancelled = job[t].cancelled
      /\ \A u \in Tasks \ {t} : job'[u] = job[u]
  BY <1>1 DEF TypeOK, Job
<1>3. \A u \in Tasks \ {t} : Live(u) => job[u].owner # c
  BY <1>1, NoneAssumption DEF JobsOwned, Busy
<1>4. JobsOwned'
  BY <1>1, <1>2, <1>3 DEF TypeOK, JobsOwned, Live
<1>5. ClosedWhenUnwanted'
  BY <1>1 DEF TypeOK, ClosedWhenUnwanted
<1>6. /\ sent'[c] = <<>> /\ Len(sent'[c]) = 0
      /\ \A d \in Conns \ {c} : sent'[d] = sent[d]
  BY <1>1 DEF TypeOK
<1>7. FragmentsCounted'
  <2>1. job[t].number = 1
    BY <1>1 DEF FragmentsCounted
  <2>2. ASSUME NEW u \in Tasks, Live(u)', conn[job'[u].owner] = "open"
        PROVE  /\ Len(sent'[job'[u].owner]) = job'[u].number - 1
               /\ \A i \in 1 .. Len(sent'[job'[u].owner]) : ~sent'[job'[u].owner][i].end
    BY <1>2, <1>3, <1>6, <2>1, <2>2 DEF FragmentsCounted, JobsOwned, Live
  <2>3. ASSUME NEW u \in Tasks, job'[u].status = "new"
        PROVE  job'[u].number = 1 /\ ~job'[u].cancelled
    BY <1>2, <2>3 DEF FragmentsCounted
  <2> QED
    BY <1>1, <2>2, <2>3 DEF FragmentsCounted, Live
<1>8. FragmentsBelong'
  BY <1>1, <1>6 DEF TypeOK, FragmentsBelong
<1>9. RecordingIsWhole'
  <2> SUFFICES ASSUME NEW d \in Conns, NEW i \in 1 .. Len(sent'[d])
               PROVE  /\ sent'[d][i].number = i
                      /\ sent'[d][i].end => i = Len(sent'[d])
                      /\ Reassembles(sent'[d][i])
    BY DEF RecordingIsWhole, Reassembles
  <2>1. d # c /\ sent'[d] = sent[d]
    BY <1>6
  <2> QED
    BY <2>1 DEF RecordingIsWhole
<1> QED
  BY <1>4, <1>5, <1>7, <1>8, <1>9 DEF RInv

\* A close marks the recording, whether or not its task is over.
LEMMA CloseStep ==
  ASSUME HInv, NEW c \in Conns, Close(c)
  PROVE  RInv'
<1> USE DEF HInv
<1>1. /\ UNCHANGED <<conn, stream_id, task, sent>>
      /\ closed' = [closed EXCEPT ![c] = TRUE]
      /\ wanted' = [wanted EXCEPT ![c] = FALSE]
      /\ job' = IF Busy(c) THEN [job EXCEPT ![task[c]].cancelled = TRUE] ELSE job
  BY DEF Close
<1>2. \A u \in Tasks :
        /\ job'[u].status = job[u].status /\ job'[u].owner = job[u].owner
        /\ job'[u].of = job[u].of /\ job'[u].number = job[u].number
        /\ ~Live(u) => job'[u] = job[u]
  BY <1>1 DEF TypeOK, Job, Busy
<1>3. JobsOwned'
  BY <1>1, <1>2 DEF JobsOwned, Live
<1>4. ClosedWhenUnwanted'
  BY <1>1 DEF TypeOK, ClosedWhenUnwanted
<1>5. FragmentsCounted'
  <2>1. ASSUME NEW u \in Tasks, job'[u].status = "new"
        PROVE  job'[u].number = 1 /\ ~job'[u].cancelled
    BY <1>2, <2>1 DEF FragmentsCounted, Live
  <2>2. ASSUME NEW u \in Tasks, Live(u)', conn[job'[u].owner] = "open"
        PROVE  /\ Len(sent[job'[u].owner]) = job'[u].number - 1
               /\ \A i \in 1 .. Len(sent[job'[u].owner]) : ~sent[job'[u].owner][i].end
    <3>1. Live(u) /\ conn[job[u].owner] = "open"
      BY <1>2, <2>2 DEF Live
    <3> QED
      BY <1>2, <3>1 DEF FragmentsCounted
  <2> QED
    BY <1>1, <2>1, <2>2 DEF FragmentsCounted, Live
<1>6. FragmentsBelong' /\ RecordingIsWhole'
  BY <1>1 DEF FragmentsBelong, RecordingIsWhole, Reassembles
<1> QED
  BY <1>3, <1>4, <1>5, <1>6 DEF RInv

\* A step of a task that sends nothing.
LEMMA SilentStep ==
  ASSUME HInv, NEW t \in Tasks, Live(t), UNCHANGED <<recorder, sent>>,
         \/ job' = [job EXCEPT ![t].status = "done"]
         \/ job' = [job EXCEPT ![t].cancelled = FALSE]
         \/ job' = [job EXCEPT ![t].status = "running",
                               ![t].of = stream_id[job[t].owner]]
  PROVE  RInv'
<1> USE DEF HInv
<1>1. UNCHANGED <<conn, stream_id, task, closed, wanted>>
  BY DEF recorder, manager
<1>2. /\ job'[t].owner = job[t].owner /\ job'[t].number = job[t].number
      /\ job'[t].status # "new"
      /\ job'[t].status = "running" =>
           \/ job'[t].of = job[t].of /\ job[t].status = "running"
           \/ job'[t].of = stream_id[job[t].owner]
      /\ \A u \in Tasks \ {t} : job'[u] = job[u]
  BY DEF TypeOK, Job, Live
<1>3. JobsOwned'
  BY <1>1, <1>2 DEF JobsOwned, Live
<1>4. ClosedWhenUnwanted'
  BY <1>1 DEF ClosedWhenUnwanted
<1>5. FragmentsCounted'
  BY <1>1, <1>2 DEF FragmentsCounted, Live
<1>6. FragmentsBelong' /\ RecordingIsWhole'
  BY <1>1 DEF FragmentsBelong, RecordingIsWhole, Reassembles
<1> QED
  BY <1>3, <1>4, <1>5, <1>6 DEF RInv

\* A step that sends a fragment sends the next one, unless the transport is
\* closing: then it is lost, and nothing will be sent after it.
LEMMA SendingStep ==
  ASSUME HInv, NEW t \in Tasks, NEW size \in Sizes, NEW is_last \in BOOLEAN,
         Yield(t, size, is_last), ~closed[job[t].owner]
  PROVE  RInv'
<1> DEFINE c == job[t].owner
<1> DEFINE f == [stream |-> stream_id[c], of |-> job[t].of,
                 number |-> job[t].number, end |-> is_last,
                 size |-> size, chunks |-> Chunks(size)]
<1>1. /\ job[t].status = "running" /\ Live(t)
      /\ UNCHANGED <<conn, stream_id, task, closed, wanted>>
      /\ SendFragment(c, f)
      /\ job' = IF is_last THEN [job EXCEPT ![t].status = "done"]
                ELSE [job EXCEPT ![t].number = job[t].number + 1]
  BY DEF Yield, Live, recorder, manager
<1>2. /\ c \in Conns /\ task[c] = t
      /\ job[t].of = stream_id[c]
      /\ job \in [Tasks -> Job] /\ job[t].number \in Nat
      /\ sent \in [Conns -> Seq(Fragment)] /\ sent[c] \in Seq(Fragment)
  BY <1>1 DEF HInv, TypeOK, JobsOwned, Job
<1>3. /\ job'[t].owner = c /\ job'[t].of = job[t].of
      /\ is_last => job'[t].status = "done"
      /\ ~is_last => job'[t].status = "running" /\ job'[t].number = job[t].number + 1
      /\ \A u \in Tasks \ {t} : job'[u] = job[u]
  BY <1>1, <1>2 DEF Job
<1>4. /\ conn[c] = "open" => sent'[c] = Append(sent[c], f)
      /\ conn[c] # "open" => sent'[c] = sent[c]
      /\ \A d \in Conns \ {c} : sent'[d] = sent[d]
  BY <1>1, <1>2 DEF SendFragment
<1>5. f.number = job[t].number /\ f.end = is_last /\ f.stream = stream_id[c]
      /\ f.of = stream_id[c] /\ Reassembles(f)
  BY <1>2, ChunksReassemble, SizesAssumption, f.size = size, f.chunks = Chunks(size)
<1> HIDE DEF f
<1>6. conn[c] = "open" =>
        /\ Len(sent[c]) = job[t].number - 1
        /\ \A i \in 1 .. Len(sent[c]) : ~sent[c][i].end
  BY <1>1 DEF HInv, FragmentsCounted
<1>7. conn[c] = "open" =>
        /\ Len(sent'[c]) = job[t].number
        /\ sent'[c][job[t].number] = f
        /\ \A i \in 1 .. Len(sent[c]) : sent'[c][i] = sent[c][i]
  BY <1>2, <1>4, <1>6
<1>8. JobsOwned'
  BY <1>1, <1>2, <1>3 DEF HInv, JobsOwned, Live
<1>9. ClosedWhenUnwanted'
  BY <1>1 DEF HInv, ClosedWhenUnwanted
<1>10. \A u \in Tasks \ {t} : Live(u) => job[u].owner # c
  BY <1>2 DEF HInv, JobsOwned
<1> HIDE DEF c
<1>11. FragmentsCounted'
  <2>1. ASSUME NEW u \in Tasks, job'[u].status = "new"
        PROVE  job'[u].number = 1 /\ ~job'[u].cancelled
    <3>1. u # t
      BY <1>3, <2>1
    <3> QED
      BY <1>3, <2>1, <3>1 DEF HInv, FragmentsCounted
  <2>2. ASSUME NEW u \in Tasks, Live(u)', conn[job'[u].owner] = "open"
        PROVE  /\ Len(sent'[job'[u].owner]) = job'[u].number - 1
               /\ \A i \in 1 .. Len(sent'[job'[u].owner]) : ~sent'[job'[u].owner][i].end
    <3>1. CASE u = t
      <4>1. ~is_last /\ conn[c] = "open" /\ job'[u].owner = c
            /\ job'[u].number = job[t].number + 1
        BY <1>3, <2>2, <3>1 DEF Live
      <4>2. Len(sent'[c]) = job'[u].number - 1
        BY <1>2, <1>7, <4>1
      <4>3. ASSUME NEW i \in 1 .. Len(sent'[c])
            PROVE  ~sent'[c][i].end
        <5>1. i \in 1 .. Len(sent[c]) \/ i = job[t].number
          BY <1>2, <1>6, <1>7, <4>1
        <5>2. CASE i \in 1 .. Len(sent[c])
          BY <1>6, <1>7, <4>1, <5>2, Zenon
        <5>3. CASE i = job[t].number
          BY <1>5, <1>7, <4>1, <5>3, Zenon
        <5> QED
          BY <5>1, <5>2, <5>3
      <4> QED
        BY <4>1, <4>2, <4>3, Zenon
    <3>2. CASE u # t
      <4>1. job'[u] = job[u] /\ Live(u) /\ job[u].owner \in Conns \ {c}
        BY <1>3, <1>10, <2>2, <3>2 DEF Live, HInv, JobsOwned
      <4> QED
        BY <1>4, <2>2, <4>1 DEF HInv, FragmentsCounted
    <3> QED
      BY <3>1, <3>2
  <2> QED
    BY <1>1, <2>1, <2>2 DEF FragmentsCounted, Live
<1>12. FragmentsBelong' /\ RecordingIsWhole'
  <2> SUFFICES ASSUME NEW d \in Conns, NEW i \in 1 .. Len(sent'[d])
               PROVE  /\ sent'[d][i].stream = stream_id[d]
                      /\ sent'[d][i].of = stream_id[d]
                      /\ sent'[d][i].number = i
                      /\ sent'[d][i].end => i = Len(sent'[d])
                      /\ Reassembles(sent'[d][i])
    BY <1>1 DEF FragmentsBelong, RecordingIsWhole, Reassembles
  <2>1. CASE sent'[d] = sent[d]
    BY <2>1 DEF HInv, FragmentsBelong, RecordingIsWhole
  <2>2. CASE sent'[d] # sent[d]
    <3>1. d = c /\ conn[c] = "open"
      BY <1>4, <2>2
    <3>2. CASE i \in 1 .. Len(sent[c])
      <4>1. sent'[d][i] = sent[c][i] /\ ~sent[c][i].end
        BY <1>6, <1>7, <3>1, <3>2, Zenon
      <4>2. /\ sent[c][i].stream = stream_id[c] /\ sent[c][i].of = stream_id[c]
            /\ sent[c][i].number = i /\ Reassembles(sent[c][i])
        BY <1>2, <3>2 DEF HInv, FragmentsBelong, RecordingIsWhole
      <4> QED
        BY <3>1, <4>1, <4>2, Zenon
    <3>3. CASE i = job[t].number
      BY <1>5, <1>7, <3>1, <3>3, Zenon
    <3> QED
      BY <1>2, <1>6, <1>7, <3>1, <3>2, <3>3
  <2> QED
    BY <2>1, <2>2
<1> QED
  BY <1>8, <1>9, <1>11, <1>12 DEF RInv

\* Every step keeps what is known of recordings.
LEMMA RecordingStep ==
  ASSUME HInv, [Next]_vars
  PROVE  RInv'
<1>1. ASSUME NEW c \in Conns,
             \/ \E t \in Transports : Register(t)
             \/ \E t \in salts \cup {None} : Accept(c, t)
             \/ Answer(c) \/ Fail(c) \/ Hangup(c) \/ ConnectionLost(c)
             \/ Stop \/ Stopped \/ UNCHANGED vars
      PROVE  RInv'
  <2>1. UNCHANGED <<stream_id, task, closed, wanted, job, sent>>
    BY <1>1 DEF Register, Accept, Answer, Fail, Hangup, ConnectionLost, Stop, Stopped,
                manager, vars
  <2>2. /\ \A d \in Conns : conn'[d] = "open" => conn[d] \in {"open", "free"}
        /\ \A d \in Conns : conn'[d] = "free" => conn[d] = "free"
    BY <1>1 DEF HInv, TypeOK, Register, Accept, Answer, Fail, Hangup, ConnectionLost,
                Stop, Stopped, vars
  <2> QED
    BY <2>1, <2>2, QuietStep
<1>2. ASSUME NEW c \in Conns, NEW id \in Ids, NEW t \in Tasks, Open(c, id, t)
      PROVE  RInv'
  BY <1>2, OpenStep
<1>3. ASSUME NEW c \in Conns, Close(c)
      PROVE  RInv'
  BY <1>3, CloseStep
<1>4. ASSUME NEW t \in Tasks, Start(t) \/ Cancelled(t) \/ DelegateEnds(t)
      PROVE  RInv'
  BY <1>4, SilentStep DEF Start, Cancelled, DelegateEnds, Live
<1>5. ASSUME NEW t \in Tasks, NEW size \in Sizes, NEW is_last \in BOOLEAN,
             Yield(t, size, is_last)
      PROVE  RInv'
  <2>1. CASE closed[job[t].owner]
    BY <1>5, <2>1, SilentStep DEF Yield, Live
  <2>2. CASE ~closed[job[t].owner]
    BY <1>5, <2>2, SendingStep
  <2> QED
    BY <2>1, <2>2
<1>6. CASE Conns = {}
  <2>1. RInv
    BY DEF HInv, RInv
  <2>2. \A t \in Tasks : ~Live(t)
    BY <1>6 DEF HInv, JobsOwned
  <2>3. UNCHANGED <<stream_id, task, closed, wanted, job, sent>>
    BY <1>6, <2>2 DEF Next, Register, Stop, Stopped, Start, Cancelled, DelegateEnds,
                      Yield, Live, manager, vars
  <2> QED
    BY <1>6, <2>3, QuietStep
<1> QED
  BY <1>1, <1>2, <1>3, <1>4, <1>5, <1>6 DEF Next

----------------------------------------------------------------------------
(* The theorems *)

LEMMA InitHInv == Init => HInv
<1> SUFFICES ASSUME Init PROVE HInv
  OBVIOUS
<1>1. NewJob \in Job
  BY DEF NewJob, Job
<1>2. TypeOK
  <2>1. sent \in [Conns -> Seq(Fragment)]
    BY DEF Init
  <2>2. job \in [Tasks -> Job]
    BY <1>1 DEF Init
  <2> QED
    BY <2>1, <2>2 DEF Init, TypeOK
<1>3. JobsOwned /\ FragmentsCounted
  BY DEF Init, NewJob, JobsOwned, FragmentsCounted, Live
<1>4. ClaimersListed /\ ClosedWhenUnwanted /\ OneConnectionPerTransport
  BY DEF Init, ClaimersListed, ClosedWhenUnwanted, OneConnectionPerTransport
<1>5. FragmentsBelong /\ RecordingIsWhole
  BY DEF Init, FragmentsBelong, RecordingIsWhole
<1> QED
  BY <1>2, <1>3, <1>4, <1>5 DEF HInv

\* The invariant is inductive.
THEOREM HDSInvariant == Spec => []HInv
<1>1. HInv /\ [Next]_vars => HInv'
  BY TypeStep, ClaimStep, RecordingStep DEF HInv, RInv
<1> QED
  BY InitHInv, <1>1, PTL DEF Spec

\* Type correctness of listener, connections, tasks and fragments.
THEOREM HDSTypeCorrect == Spec => []TypeOK
<1>1. HInv => TypeOK
  BY DEF HInv
<1> QED
  BY HDSInvariant, <1>1, PTL

\* No two connections ever encrypt with the keys of one transport (_bind).
THEOREM TransportsClaimedOnce == Spec => []OneConnectionPerTransport
<1>1. HInv => OneConnectionPerTransport
  BY DEF HInv
<1> QED
  BY HDSInvariant, <1>1, PTL

\* What is sent of a recording belongs to the stream that was opened
\* (_handle_open, _stream).
THEOREM FragmentsBelongToTheirStream == Spec => []FragmentsBelong
<1>1. HInv => FragmentsBelong
  BY DEF HInv
<1> QED
  BY HDSInvariant, <1>1, PTL

\* What a controller has of a recording is a beginning of it without gaps, for
\* fragments of any size and any chunk size (_send_fragment).
THEOREM RecordingsAreWhole == Spec => []RecordingIsWhole
<1>1. HInv => RecordingIsWhole
  BY DEF HInv
<1> QED
  BY HDSInvariant, <1>1, PTL

\* The listener's stop misses no connection that has claimed a transport.
THEOREM StopReachesClaimers == Spec => StopReachesBound
<1>1. HInv /\ [Next]_vars =>
        [listener = "on" /\ listener' # "on" =>
           \A c \in Conns : crypto[c] # None => conn'[c] # "open"]_vars
  <2> SUFFICES ASSUME HInv, [Next]_vars, listener = "on", listener' # "on",
                      NEW c \in Conns, crypto[c] # None
               PROVE  conn'[c] # "open"
    OBVIOUS
  <2>1. Stop
    BY DEF Next, Register, Accept, Answer, Fail, Hangup, ConnectionLost, Open, Close,
           Stopped, Start, Cancelled, DelegateEnds, Yield, recorder, listening, vars
  <2> QED
    BY <2>1 DEF Stop, HInv, TypeOK, ClaimersListed
<1> QED
  BY HDSInvariant, <1>1, PTL DEF Spec, StopReachesBound

\* No fragment is sent between the answer to a close and the next open (_stop).
THEOREM NothingSentAfterClose == Spec => NoDataAfterClose
<1>1. HInv /\ [Next]_vars =>
        [\A c \in Conns : Len(sent'[c]) > Len(sent[c]) => wanted[c]]_vars
  <2> SUFFICES ASSUME HInv, [Next]_vars, NEW c \in Conns,
                      Len(sent'[c]) > Len(sent[c])
               PROVE  wanted[c]
    OBVIOUS
  <2>1. Len(sent[c]) \in Nat /\ sent'[c] # sent[c] /\ sent'[c] # <<>>
    BY DEF HInv, TypeOK
  <2>2. PICK t \in Tasks, size \in Sizes, is_last \in BOOLEAN : Yield(t, size, is_last)
    <3>1. ~UNCHANGED sent
      BY <2>1
    <3>2. ~ \E d \in Conns, id \in Ids, t \in Tasks : Open(d, id, t)
      BY <2>1 DEF Open, HInv, TypeOK
    <3> QED
      BY <3>1, <3>2 DEF Next, Register, Accept, Answer, Fail, Hangup, ConnectionLost,
           Close, Stop, Stopped, Start, Cancelled, DelegateEnds, vars
  <2>3. /\ job[t].status = "running" /\ ~closed[job[t].owner]
        /\ SendFragment(job[t].owner,
             [stream |-> stream_id[job[t].owner], of |-> job[t].of,
              number |-> job[t].number, end |-> is_last,
              size |-> size, chunks |-> Chunks(size)])
    BY <2>1, <2>2 DEF Yield
  <2>4. job[t].owner = c
    BY <2>1, <2>3 DEF SendFragment, HInv, TypeOK
  <2>5. task[c] = t
    BY <2>3, <2>4 DEF HInv, JobsOwned, Live
  <2> QED
    BY <2>3, <2>4, <2>5, NoneAssumption DEF HInv, ClosedWhenUnwanted
<1> QED
  BY HDSInvariant, <1>1, PTL DEF Spec, NoDataAfterClose
=============================================================================
