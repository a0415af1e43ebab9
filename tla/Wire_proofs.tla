---------------------------- MODULE Wire_proofs ----------------------------
(***************************************************************************)
(* What holds of a session for any number of requests, messages and blocks *)
(* of any length.  Complete blocks are decrypted, whatever pieces the      *)
(* network makes of the stream (HAPFraming).  Responses go out in the      *)
(* order of the requests although those of snapshots share self.response   *)
(* (HAPConnection).  Messages of pairing come back from TLV8 with values   *)
(* of any length (TLV8), those of HomeKit Data Stream from their encoding, *)
(* however deep values are nested (HDSMessages).                           *)
(***************************************************************************)
EXTENDS HKSV_proofs

----------------------------------------------------------------------------
(* Requests and responses *)

(* While a connection is open, what was dispatched is answered, but for the *)
(* last request if its response is a task; that task is the only one, and   *)
(* self.response is its request's.                                          *)
OneIsDelayed ==
  IF server = "SEND_RESPONSE"
  THEN /\ taken > 0 /\ Len(answers) = taken - 1
       /\ response = taken /\ client # "IDLE"
       /\ \A n \in 1 .. MaxRequests : task[n] # "none" => n = taken
  ELSE /\ Len(answers) = taken
       /\ \A n \in 1 .. MaxRequests : task[n] = "none"

Pending == transport = "open" => OneIsDelayed

\* data_received does not go on when the connection was closed.
ProcessesOpen == processing => transport = "open"

Inv == TypeOK /\ ProcessesOpen /\ Pending /\ InOrder

(* The initial states have their types and the invariant. *)
LEMMA InitInv == ASSUME Parameters, Init PROVE Inv
<1>1. TypeOK
  <2>1. requests \in Seq(Request) /\ answers \in Seq(1 .. taken)
    BY DEF Init
  <2>2. received \in 0 .. Len(requests) /\ taken \in 0 .. received /\ response \in 0 .. taken
    BY DEF Init, None
  <2>3. task \in [1 .. MaxRequests -> {"none", "running", "over"}]
    BY DEF Init
  <2> QED  BY <2>1, <2>2, <2>3 DEF Init, TypeOK
<1>2. ProcessesOpen /\ Pending /\ InOrder
  BY DEF Init, ProcessesOpen, Pending, OneIsDelayed, InOrder
<1> QED  BY <1>1, <1>2 DEF Inv

(* A request that is dispatched has arrived. *)
LEMMA Dispatched ==
  ASSUME TypeOK, NEW is, Dispatch(is)
  PROVE  /\ taken' = taken + 1 /\ taken' \in 0 .. received
         /\ client = "IDLE" /\ client' \in {"DONE", "MUST_CLOSE"}
  BY DEF TypeOK, Dispatch, Finished, Buffered

(* Every action keeps the types; a delayed response is the last request's. *)
LEMMA TypeStep == ASSUME Parameters, Inv, [Next]_vars PROVE TypeOK'
<1> USE DEF TypeOK, http, delayed
<1> TypeOK  BY DEF Inv
<1>1. ASSUME NEW request \in Request, SendRequest(request) PROVE TypeOK'
  <2>1. requests' \in Seq(Request) /\ received \in 0 .. Len(requests')
    BY <1>1 DEF SendRequest
  <2> QED  BY <2>1, <1>1 DEF SendRequest
<1>2. ASSUME NEW n \in 0 .. MaxRequests, DataReceived(n) PROVE TypeOK'
  <2>1. received' = n /\ n \in received .. Len(requests)
    BY <1>2 DEF DataReceived
  <2>2. received' \in 0 .. Len(requests) /\ taken \in 0 .. received'
    BY <2>1
  <2>3. partial' \in BOOLEAN
    <3>1. (n < Len(requests)) \in BOOLEAN
      OBVIOUS
    <3>2. partial' \in {FALSE, n < Len(requests)}
      BY <1>2 DEF DataReceived
    <3> QED  BY <3>1, <3>2, Zenon
  <2>4. UNCHANGED <<requests, taken, client, server, task, response, transport, answers>>
    BY <1>2 DEF DataReceived
  <2>5. processing' \in BOOLEAN
    BY <1>2 DEF DataReceived
  <2> QED  BY <2>2, <2>3, <2>4, <2>5
<1>3. CASE ConnectionLost \/ CloseConnection
  BY <1>3 DEF ConnectionLost, CloseConnection
<1>4. CASE NeedData \/ Paused \/ NextEventRaises
  BY <1>4 DEF NeedData, Paused, NextEventRaises, Close
<1>5. ASSUME NEW is, Answer(is) PROVE TypeOK'
  <2>1. Dispatch(is)
    BY <1>5 DEF Answer
  <2>2. /\ taken' = taken + 1 /\ taken' \in 0 .. received
        /\ client' \in {"DONE", "MUST_CLOSE"}
    BY <2>1, Dispatched
  <2>3. answers' \in Seq(1 .. taken')
    <3>1. answers \in Seq(1 .. taken')
      BY <2>2
    <3> QED  BY <3>1, <2>2, <1>5 DEF Answer
  <2>4. processing' \in BOOLEAN /\ transport' \in {"open", "closing", "lost"}
    BY <1>5 DEF Answer, Close
  <2> QED  BY <2>2, <2>3, <2>4, <1>5 DEF Answer
<1>6. CASE AnswerLater
  <2>1. /\ taken' = taken + 1 /\ taken' \in 0 .. received
        /\ client' \in {"DONE", "MUST_CLOSE"}
    BY <1>6, Dispatched DEF AnswerLater
  <2>2. answers' \in Seq(1 .. taken')
    BY <2>1, <1>6 DEF AnswerLater
  <2>3. task' \in [1 .. MaxRequests -> {"none", "running", "over"}]
    BY <1>6 DEF AnswerLater
  <2> QED  BY <2>1, <2>2, <2>3, <1>6 DEF AnswerLater
<1>7. ASSUME NEW n \in 1 .. MaxRequests, TaskOver(n) PROVE TypeOK'
  BY <1>7 DEF TaskOver
<1>8. ASSUME NEW n \in 1 .. MaxRequests, HandleResponseReady(n) PROVE TypeOK'
  <2>1. transport = "open" => response \in 1 .. taken
    BY <1>8 DEF Inv, Pending, OneIsDelayed, HandleResponseReady
  <2>2. answers' \in Seq(1 .. taken)
    <3>1. CASE transport = "open"
      <4>1. answers' = Append(answers, response) /\ response \in 1 .. taken
        BY <2>1, <3>1, <1>8 DEF HandleResponseReady
      <4> QED  BY <4>1
    <3>2. CASE transport # "open"
      BY <3>2, <1>8 DEF HandleResponseReady
    <3> QED  BY <3>1, <3>2
  <2>3. task' \in [1 .. MaxRequests -> {"none", "running", "over"}]
    BY <1>8 DEF HandleResponseReady
  <2>4. server' \in {"IDLE", "SEND_RESPONSE", "DONE", "MUST_CLOSE"}
    BY <1>8 DEF HandleResponseReady, Finished
  <2> QED  BY <2>2, <2>3, <2>4, <1>8 DEF HandleResponseReady, None
<1>9. CASE UNCHANGED vars
  BY <1>9 DEF vars
<1> QED
  BY <1>1, <1>2, <1>3, <1>4, <1>5, <1>6, <1>7, <1>8, <1>9 DEF Next, Process, Tasks

(* Every action keeps one response at most delayed, and the order. *)
LEMMA OrderStep ==
  ASSUME Parameters, Inv, [Next]_vars PROVE ProcessesOpen' /\ Pending' /\ InOrder'
<1> USE DEF http, delayed, ProcessesOpen, Pending, InOrder
<1> TypeOK /\ ProcessesOpen /\ Pending /\ InOrder  BY DEF Inv
<1> Len(answers) \in Nat /\ taken \in Nat  BY DEF TypeOK
<1>1. ASSUME NEW request \in Request, SendRequest(request)
               PROVE ProcessesOpen' /\ Pending' /\ InOrder'
  BY <1>1 DEF SendRequest, OneIsDelayed
<1>2. ASSUME NEW n \in 0 .. MaxRequests, DataReceived(n)
               PROVE ProcessesOpen' /\ Pending' /\ InOrder'
  BY <1>2 DEF DataReceived, OneIsDelayed
<1>3. CASE ConnectionLost \/ CloseConnection \/ NeedData \/ NextEventRaises
  BY <1>3 DEF ConnectionLost, CloseConnection, NeedData, NextEventRaises, Close, OneIsDelayed
<1>4. CASE Paused
  BY <1>4 DEF Paused, Close, OneIsDelayed
<1>5. ASSUME NEW is, Answer(is) PROVE ProcessesOpen' /\ Pending' /\ InOrder'
  <2>1. Dispatch(is) /\ transport = "open"
    BY <1>5 DEF Answer, Dispatch
  <2>2. /\ taken' = taken + 1 /\ client = "IDLE" /\ client' \in {"DONE", "MUST_CLOSE"}
    BY <2>1, Dispatched
  <2>3. Len(answers) = taken /\ \A n \in 1 .. MaxRequests : task[n] = "none"
    BY <2>1, <2>2 DEF OneIsDelayed
  <2>4. answers' = Append(answers, taken + 1) /\ Len(answers') = taken + 1
    <3>1. answers' = Append(answers, taken + 1)
      BY <2>2, <1>5 DEF Answer
    <3> QED  BY <3>1, <2>3 DEF TypeOK
  <2>5. InOrder'
    BY <2>3, <2>4 DEF TypeOK
  <2>6. Pending'
    BY <2>2, <2>3, <2>4, <1>5 DEF Answer, OneIsDelayed
  <2> QED  BY <2>1, <2>5, <2>6, <1>5 DEF Answer, Close
<1>6. CASE AnswerLater
  <2>1. Dispatch("snapshot") /\ transport = "open"
    BY <1>6 DEF AnswerLater, Dispatch
  <2>2. /\ taken' = taken + 1 /\ client = "IDLE" /\ client' \in {"DONE", "MUST_CLOSE"}
    BY <2>1, Dispatched
  <2>3. Len(answers) = taken /\ \A n \in 1 .. MaxRequests : task[n] = "none"
    BY <2>1, <2>2 DEF OneIsDelayed
  <2>4. \A n \in 1 .. MaxRequests : task'[n] # "none" => n = taken'
    BY <2>3, <1>6 DEF AnswerLater, TypeOK
  <2> QED  BY <2>1, <2>2, <2>3, <2>4, <1>6 DEF AnswerLater, OneIsDelayed
<1>7. ASSUME NEW n \in 1 .. MaxRequests, TaskOver(n)
               PROVE ProcessesOpen' /\ Pending' /\ InOrder'
  <2>1. \A m \in 1 .. MaxRequests : task'[m] # "none" <=> task[m] # "none"
    BY <1>7 DEF TaskOver, TypeOK
  <2> QED  BY <2>1, <1>7 DEF TaskOver, OneIsDelayed
<1>8. ASSUME NEW n \in 1 .. MaxRequests, HandleResponseReady(n)
               PROVE ProcessesOpen' /\ Pending' /\ InOrder'
  <2>1. CASE transport = "open"
    <3>1. /\ server = "SEND_RESPONSE" /\ n = taken /\ response = taken
               /\ Len(answers) = taken - 1
          /\ \A m \in 1 .. MaxRequests : task[m] # "none" => m = n
      BY <2>1, <1>8 DEF OneIsDelayed, HandleResponseReady
    <3>2. \A m \in 1 .. MaxRequests : task'[m] = "none"
      BY <3>1, <1>8 DEF HandleResponseReady, TypeOK
    <3>3. answers' = Append(answers, taken) /\ Len(answers') = taken /\ taken' = taken
      BY <2>1, <3>1, <1>8 DEF HandleResponseReady, TypeOK
    <3>4. server' # "SEND_RESPONSE"
      BY <2>1, <1>8 DEF HandleResponseReady, Finished
    <3>5. InOrder'
      BY <3>1, <3>3 DEF TypeOK
    <3> QED  BY <3>2, <3>3, <3>4, <3>5, <1>8 DEF HandleResponseReady, OneIsDelayed
  <2>2. CASE transport # "open"
    BY <2>2, <1>8 DEF HandleResponseReady
  <2> QED  BY <2>1, <2>2
<1>9. CASE UNCHANGED vars
  BY <1>9 DEF vars, OneIsDelayed
<1> QED
  BY <1>1, <1>2, <1>3, <1>4, <1>5, <1>6, <1>7, <1>8, <1>9 DEF Next, Process, Tasks

(* Requests are answered in the order they came in, each at most once        *)
(* (hap_protocol.py:281, :305).                                              *)
THEOREM AnswersInOrder == ASSUME Parameters PROVE Spec => []InOrder
<1>1. Init => Inv
  BY InitInv
<1>2. Inv /\ [Next]_vars => Inv'
  BY TypeStep, OrderStep DEF Inv
<1>3. Inv => InOrder
  BY DEF Inv
<1> QED  BY <1>1, <1>2, <1>3, PTL DEF Spec

----------------------------------------------------------------------------
(* The stream *)

Block == [length : Nat, end : Nat]

Sent == Framing!EndOf(Len(stream))

(* The blocks follow each other without a gap. *)
Contiguous ==
  \A i \in 1 .. Len(stream) :
    /\ stream[i].length \in Nat \ {0}
    /\ Framing!EndOf(i) = Framing!EndOf(i - 1) + Framing!WireSize(stream[i].length)

(* decrypt stopped because it had to, and took no byte that is not there. *)
Decrypted ==
  /\ in_count \in 0 .. Len(stream)
  /\ Framing!EndOf(in_count) <= arrived
  /\ ~Framing!TakesBlock(arrived, in_count)

StreamInv ==
  /\ stream \in Seq(Block)
  /\ arrived \in Nat /\ arrived <= Sent
  /\ Contiguous
  /\ Decrypted

(* Positions in the stream are numbers. *)
LEMMA EndOfType ==
  ASSUME stream \in Seq(Block), NEW i \in 0 .. Len(stream)
  PROVE  Framing!EndOf(i) \in Nat
<1>1. CASE i # 0
  <2>1. i \in 1 .. Len(stream)
    BY <1>1
  <2>2. stream[i] \in Block
    BY <2>1
  <2> QED  BY <1>1, <2>2 DEF Framing!EndOf, Block
<1> QED  BY <1>1 DEF Framing!EndOf

LEMMA FullBlocks ==
  ASSUME NEW total \in Nat, NEW max \in Nat \ {0}, NEW count,
         count = (total + max - 1) \div max, NEW i \in 1 .. count
  PROVE  /\ count \in Nat
         /\ (i - 1) * max < total
         /\ i < count => max <= total - (i - 1) * max
<1>1. count \in Nat /\ max * count <= total + max - 1
  OBVIOUS
<1>2. (i - 1) * max + max = max * i
  OBVIOUS
<1>3. max * i <= max * count
  BY <1>1
<1>4. ASSUME i < count PROVE max * i <= total - 1
  <2>1. i + 1 \in Nat /\ i + 1 <= count
    BY <1>1, <1>4
  <2>2. max * (i + 1) <= max * count
    BY <1>1, <2>1
  <2>3. max * (i + 1) = max * i + max
    OBVIOUS
  <2> QED  BY <1>1, <2>2, <2>3
<1> QED  BY <1>1, <1>2, <1>3, <1>4

(* What encrypt appends follows what was there, without a gap. *)
LEMMA BlocksFollow ==
  ASSUME Framing!Parameters, StreamInv, NEW total \in Lengths,
         NEW blocks, blocks = Framing!Blocks(total)
  PROVE  /\ blocks \in Seq(Block)
         /\ \A i \in 1 .. Len(blocks) :
              /\ blocks[i].length \in Nat \ {0}
              /\ blocks[i].end >= Sent
              /\ blocks[i].end = (IF i = 1 THEN Sent ELSE blocks[i - 1].end)
                                   + Framing!WireSize(blocks[i].length)
<1> DEFINE max   == MAX_BLOCK_LENGTH
           full  == Framing!WireSize(max)
           count == (total + max - 1) \div max
           Length(i) == IF total - (i - 1) * max < max THEN total - (i - 1) * max ELSE max
<1>1. total \in Nat /\ max \in Nat \ {0} /\ LENGTH_LENGTH \in Nat /\ TAG_LENGTH \in Nat
  BY DEF Framing!Parameters
<1>2. Sent \in Nat
  BY EndOfType DEF StreamInv, Sent
<1>3. full \in Nat /\ count \in Nat
  BY <1>1 DEF Framing!WireSize
<1>4. blocks = [i \in 1 .. count |->
                  [length |-> Length(i),
                   end |-> Sent + (i - 1) * full + Framing!WireSize(Length(i))]]
  BY DEF Framing!Blocks, Sent
<1>5. ASSUME NEW i \in 1 .. count
      PROVE  Length(i) \in Nat \ {0} /\ (i < count => Length(i) = max)
  <2>1. (i - 1) * max < total /\ (i < count => max <= total - (i - 1) * max)
    BY <1>1, FullBlocks
  <2>2. (i - 1) * max \in Nat
    BY <1>1, <1>3
  <2> HIDE DEF max
  <2>3. PICK n \in Nat : n = (i - 1) * max
    BY <2>2
  <2> QED  BY <1>1, <2>1, <2>3
<1> HIDE DEF Length
<1>6. ASSUME NEW i \in 1 .. count
      PROVE  /\ Framing!WireSize(Length(i)) \in Nat
             /\ Sent + (i - 1) * full + Framing!WireSize(Length(i)) \in Nat
             /\ Sent + (i - 1) * full + Framing!WireSize(Length(i)) >= Sent
  <2>1. Framing!WireSize(Length(i)) \in Nat
    BY <1>1, <1>5 DEF Framing!WireSize
  <2>2. (i - 1) * full \in Nat
    BY <1>3
  <2> HIDE DEF full
  <2>3. PICK n \in Nat : n = (i - 1) * full
    BY <2>2
  <2> QED  BY <1>2, <2>1, <2>3
<1> HIDE DEF count, full, max
<1>7. blocks \in Seq(Block) /\ Len(blocks) = count
  <2>1. blocks \in [1 .. count -> Block]
    <3>1. \A i \in 1 .. count : [length |-> Length(i),
              end |-> Sent + (i - 1) * full + Framing!WireSize(Length(i))] \in Block
      BY <1>5, <1>6 DEF Block
    <3> QED  BY <1>4, <3>1
  <2> QED  BY <1>3, <2>1
<1>8. ASSUME NEW i \in 1 .. count
      PROVE  blocks[i].end = (IF i = 1 THEN Sent ELSE blocks[i - 1].end)
                               + Framing!WireSize(blocks[i].length)
  <2>1. /\ blocks[i].length = Length(i)
        /\ blocks[i].end = Sent + (i - 1) * full + Framing!WireSize(Length(i))
    BY <1>4
  <2>2. CASE i = 1
    <3>1. (i - 1) * full = 0
      BY <1>3, <2>2
    <3> QED  BY <1>2, <1>6, <2>1, <2>2, <3>1
  <2>3. CASE i # 1
    <3>1. i - 1 \in 1 .. count /\ i - 1 < count
      BY <1>3, <2>3
    <3>2. Length(i - 1) = max
      BY <1>5, <3>1
    <3>3. blocks[i - 1].end = Sent + (i - 1 - 1) * full + full
      BY <1>4, <3>1, <3>2 DEF full
    <3>4. (i - 1 - 1) * full + full = (i - 1) * full
      BY <1>3
    <3>5. (i - 1 - 1) * full \in Int /\ (i - 1) * full \in Int
      BY <1>3
    <3>6. blocks[i - 1].end = Sent + (i - 1) * full
      BY <1>2, <1>3, <3>3, <3>4, <3>5
    <3> QED  BY <2>1, <2>3, <3>6
  <2> QED  BY <2>2, <2>3
<1> QED
  <2>1. \A i \in 1 .. count : blocks[i].length \in Nat \ {0} /\ blocks[i].end >= Sent
    BY <1>4, <1>5, <1>6
  <2> QED  BY <1>7, <1>8, <2>1

LEMMA InitStream == ASSUME Framing!Parameters, Framing!Init PROVE StreamInv
BY DEF Framing!Init, StreamInv, Contiguous, Decrypted, Sent, Framing!EndOf, Framing!TakesBlock

(* A message: the blocks that were there stay where they are, and if the    *)
(* last of them was decrypted nothing of the next has arrived.              *)
LEMMA SendKeeps ==
  ASSUME Framing!Parameters, StreamInv, NEW total \in Lengths, Framing!Send(total)
  PROVE  StreamInv'
<1> DEFINE blocks == Framing!Blocks(total)
<1>1. /\ blocks \in Seq(Block)
      /\ \A i \in 1 .. Len(blocks) :
           /\ blocks[i].length \in Nat \ {0}
           /\ blocks[i].end >= Sent
           /\ blocks[i].end = (IF i = 1 THEN Sent ELSE blocks[i - 1].end)
                                + Framing!WireSize(blocks[i].length)
  BY BlocksFollow
<1>2. stream' = stream \o blocks /\ UNCHANGED <<arrived, in_count>>
  BY DEF Framing!Send
<1> HIDE DEF blocks
<1>3. stream \in Seq(Block) /\ arrived \in Nat /\ arrived <= Sent
  BY DEF StreamInv
<1>4. /\ stream' \in Seq(Block) /\ Len(stream') = Len(stream) + Len(blocks)
      /\ \A i \in 1 .. Len(stream) : stream'[i] = stream[i]
      /\ \A i \in 1 .. Len(blocks) : stream'[Len(stream) + i] = blocks[i]
      /\ Len(stream) \in Nat /\ Len(blocks) \in Nat
  BY <1>1, <1>2, <1>3
<1>5. \A i \in 0 .. Len(stream) : Framing!EndOf(i)' = Framing!EndOf(i)
  BY <1>4 DEF Framing!EndOf
<1>6. Contiguous'
  <2> SUFFICES ASSUME NEW i \in 1 .. Len(stream')
               PROVE  /\ stream'[i].length \in Nat \ {0}
                      /\ Framing!EndOf(i)' =
                           Framing!EndOf(i - 1)' + Framing!WireSize(stream'[i].length)
    BY DEF Contiguous, Framing!WireSize
  <2>1. CASE i <= Len(stream)
    <3>1. i \in 1 .. Len(stream) /\ i \in 0 .. Len(stream) /\ i - 1 \in 0 .. Len(stream)
      BY <1>4, <2>1
    <3>2. stream'[i] = stream[i]
      BY <1>4, <3>1
    <3> QED  BY <1>5, <3>1, <3>2 DEF StreamInv, Contiguous
  <2>2. CASE ~ (i <= Len(stream))
    <3>1. PICK k \in 1 .. Len(blocks) : i = Len(stream) + k
      <4>1. i - Len(stream) \in 1 .. Len(blocks)
        BY <1>4, <2>2
      <4>2. PICK k \in 1 .. Len(blocks) : k = i - Len(stream)
        BY <4>1
      <4>3. i = Len(stream) + k
        BY <1>4, <4>2
      <4> QED  BY <4>3
    <3>2. stream'[i] = blocks[k] /\ Framing!EndOf(i)' = blocks[k].end
      <4>1. stream'[i] = blocks[k] /\ i # 0
        BY <1>4, <3>1
      <4> QED  BY <4>1 DEF Framing!EndOf
    <3>3. CASE k = 1
      <4>1. i - 1 = Len(stream) /\ Len(stream) \in 0 .. Len(stream)
        BY <1>4, <3>1, <3>3
      <4>2. Framing!EndOf(i - 1)' = Sent
        BY <1>5, <4>1 DEF Sent
      <4> QED  BY <1>1, <3>2, <3>3, <4>2
    <3>4. CASE k # 1
      <4>1. k - 1 \in 1 .. Len(blocks) /\ i - 1 = Len(stream) + (k - 1) /\ i - 1 # 0
        BY <1>4, <3>1, <3>4
      <4>2. stream'[i - 1] = blocks[k - 1]
        BY <1>4, <4>1
      <4>3. Framing!EndOf(i - 1)' = blocks[k - 1].end
        BY <4>1, <4>2 DEF Framing!EndOf
      <4> QED  BY <1>1, <3>2, <3>4, <4>3
    <3> QED  BY <3>3, <3>4
  <2> QED  BY <2>1, <2>2
<1>7. arrived <= Sent'
  <2>1. CASE Len(blocks) = 0
    <3>1. Len(stream') = Len(stream) /\ Len(stream) \in 0 .. Len(stream)
      BY <1>4, <2>1
    <3>2. Sent' = Sent
      BY <1>5, <3>1 DEF Sent
    <3> QED  BY <1>3, <3>2
  <2>2. CASE Len(blocks) # 0
    <3>1. Len(blocks) \in 1 .. Len(blocks) /\ Len(stream') # 0
      BY <1>4, <2>2
    <3>2. stream'[Len(stream')] = blocks[Len(blocks)]
      BY <1>4, <3>1
    <3>3. Sent' = blocks[Len(blocks)].end
      BY <3>1, <3>2 DEF Sent, Framing!EndOf
    <3>4. blocks[Len(blocks)].end \in Nat /\ blocks[Len(blocks)].end >= Sent
      <4>1. blocks[Len(blocks)] \in Block
        BY <1>1, <3>1
      <4> QED  BY <1>1, <3>1, <4>1 DEF Block
    <3>5. Sent \in Nat
      BY EndOfType, <1>3 DEF Sent
    <3> QED  BY <1>3, <3>3, <3>4, <3>5
  <2> QED  BY <2>1, <2>2
<1>8. Decrypted'
  <2>1. /\ in_count \in 0 .. Len(stream)
        /\ Framing!EndOf(in_count) <= arrived
        /\ ~Framing!TakesBlock(arrived, in_count)
    BY DEF StreamInv, Decrypted
  <2>2. Framing!EndOf(in_count)' = Framing!EndOf(in_count)
    BY <1>2, <1>5, <2>1
  <2>3. ~Framing!TakesBlock(arrived, in_count)'
    <3>1. CASE in_count < Len(stream)
      <4>1. in_count + 1 \in 1 .. Len(stream)
        BY <1>4, <2>1, <3>1
      <4>2. stream'[in_count + 1] = stream[in_count + 1]
        BY <1>4, <4>1
      <4> QED
        BY <1>2, <2>1, <2>2, <3>1, <4>2
        DEF Framing!TakesBlock, Framing!Buffered, Framing!MIN_BLOCK_LENGTH, Framing!WireSize
    <3>2. CASE ~ (in_count < Len(stream))
      <4>1. in_count = Len(stream)
        BY <1>4, <2>1, <3>2
      <4>2. Framing!EndOf(in_count) \in Nat /\ arrived <= Framing!EndOf(in_count)
        BY <1>3, <2>1, <4>1, EndOfType DEF Sent
      <4>3. LENGTH_LENGTH \in Nat /\ TAG_LENGTH \in Nat
        BY DEF Framing!Parameters
      <4>4. ~ (arrived - Framing!EndOf(in_count) > LENGTH_LENGTH + TAG_LENGTH + 1)
        BY <1>3, <4>2, <4>3
      <4> QED
        BY <1>2, <2>2, <4>4
        DEF Framing!TakesBlock, Framing!Buffered, Framing!MIN_BLOCK_LENGTH,
            Framing!MIN_PAYLOAD_LENGTH
    <3> QED  BY <3>1, <3>2
  <2> QED  BY <1>2, <1>4, <2>1, <2>2, <2>3 DEF Decrypted
<1> QED  BY <1>2, <1>3, <1>4, <1>6, <1>7, <1>8 DEF StreamInv

(* Bytes that arrive: the last block decrypted was there. *)
LEMMA ReceiveKeeps ==
  ASSUME Framing!Parameters, StreamInv, NEW n \in 1 .. Sent - arrived, Framing!DataReceived(n)
  PROVE  StreamInv'
<1>1. /\ stream \in Seq(Block) /\ arrived \in Nat
      /\ in_count \in 0 .. Len(stream) /\ Framing!EndOf(in_count) <= arrived
  BY DEF StreamInv, Decrypted
<1>2. Sent \in Nat
  BY <1>1, EndOfType DEF Sent
<1>3. UNCHANGED stream /\ arrived' = arrived + n /\ Sent' = Sent
  BY DEF Framing!DataReceived, Sent, Framing!EndOf
<1>4. arrived' \in Nat /\ arrived < arrived' /\ arrived' <= Sent'
  BY <1>1, <1>2, <1>3
<1>5. Contiguous'
  BY <1>3 DEF StreamInv, Contiguous, Framing!EndOf, Framing!WireSize
<1>6. PICK j \in in_count .. Len(stream) :
        Framing!DecryptLoop(arrived + n, in_count, j) /\ in_count' = j
  BY DEF Framing!DataReceived
<1>7. j \in 0 .. Len(stream) /\ Len(stream) \in Nat
  BY <1>1, <1>6
<1>8. Framing!EndOf(j) <= arrived'
  <2>1. CASE j = in_count
    BY <1>1, <1>4, <2>1, EndOfType
  <2>2. CASE j # in_count
    <3>1. j - 1 \in in_count .. j - 1 /\ j - 1 \in 0 .. Len(stream) /\ j \in 1 .. Len(stream)
      BY <1>1, <1>6, <1>7, <2>2
    <3>2. Framing!TakesBlock(arrived', j - 1)
      BY <1>3, <1>6, <3>1 DEF Framing!DecryptLoop
    <3>3. j - 1 + 1 = j
      BY <3>1
    <3>4. arrived' - Framing!EndOf(j - 1) >= Framing!WireSize(stream[j].length)
      BY <3>2, <3>3 DEF Framing!TakesBlock, Framing!Buffered
    <3>5. Framing!EndOf(j) = Framing!EndOf(j - 1) + Framing!WireSize(stream[j].length)
      BY <3>1 DEF StreamInv, Contiguous
    <3>6. Framing!EndOf(j - 1) \in Nat /\ Framing!WireSize(stream[j].length) \in Nat
      <4>1. stream[j].length \in Nat
        BY <3>1 DEF StreamInv, Contiguous
      <4>2. Framing!EndOf(j - 1) \in Nat
        BY <1>1, <3>1, EndOfType
      <4>3. LENGTH_LENGTH \in Nat /\ TAG_LENGTH \in Nat
        BY DEF Framing!Parameters
      <4> QED  BY <4>1, <4>2, <4>3, SMTT(30) DEF Framing!WireSize
    <3> QED  BY <1>4, <3>4, <3>5, <3>6
  <2> QED  BY <2>1, <2>2
<1>9. Decrypted'
  <2>1. ~Framing!TakesBlock(arrived', j)
    BY <1>3, <1>6 DEF Framing!DecryptLoop
  <2>2. ~Framing!TakesBlock(arrived, in_count)'
    BY <1>3, <1>6, <2>1
    DEF Framing!TakesBlock, Framing!Buffered, Framing!EndOf, Framing!WireSize,
        Framing!MIN_BLOCK_LENGTH
  <2>3. Framing!EndOf(in_count)' <= arrived'
    BY <1>3, <1>6, <1>8 DEF Framing!EndOf
  <2> QED  BY <1>3, <1>6, <1>7, <2>2, <2>3 DEF Decrypted
<1> QED  BY <1>1, <1>3, <1>4, <1>5, <1>9 DEF StreamInv

(* Partial blocks are buffered and not decrypted, however the stream was    *)
(* cut into pieces; and a complete block that is left is the last of what   *)
(* has arrived and of the smallest size (hap_crypto.py:80, :88).            *)
THEOREM StreamIsDecrypted ==
  ASSUME Framing!Parameters PROVE Framing!Spec => []BlocksAreWhole
<1>1. Framing!Init => StreamInv
  BY InitStream
<1>2. StreamInv /\ [Framing!Next]_Framing!vars => StreamInv'
  <2> SUFFICES ASSUME StreamInv, [Framing!Next]_Framing!vars PROVE StreamInv'
    OBVIOUS
  <2>1. ASSUME NEW total \in Lengths, Framing!Send(total) PROVE StreamInv'
    BY <2>1, SendKeeps
  <2>2. ASSUME NEW n \in 1 .. Framing!EndOf(Len(stream)) - arrived, Framing!DataReceived(n)
        PROVE  StreamInv'
    BY <2>2, ReceiveKeeps DEF Sent
  <2>3. CASE UNCHANGED Framing!vars
    BY <2>3 DEF Framing!vars, StreamInv, Contiguous, Decrypted, Sent, Framing!EndOf,
                Framing!TakesBlock, Framing!Buffered, Framing!WireSize
  <2> QED  BY <2>1, <2>2, <2>3 DEF Framing!Next
<1>3. StreamInv => BlocksAreWhole
  <2> SUFFICES ASSUME StreamInv PROVE BlocksAreWhole
    OBVIOUS
  <2>1. /\ stream \in Seq(Block) /\ arrived \in Nat
        /\ in_count \in 0 .. Len(stream) /\ Framing!EndOf(in_count) <= arrived
        /\ ~Framing!TakesBlock(arrived, in_count)
    BY DEF StreamInv, Decrypted
  <2>2. ASSUME in_count < Len(stream), arrived >= Framing!EndOf(in_count + 1)
        PROVE  arrived = Framing!EndOf(in_count + 1) /\ stream[in_count + 1].length = 1
    <3> DEFINE length == stream[in_count + 1].length
               start  == Framing!EndOf(in_count)
    <3>1. in_count + 1 \in 1 .. Len(stream) /\ in_count + 1 - 1 = in_count
      BY <2>1, <2>2
    <3>2. length \in Nat \ {0} /\ start \in Nat
      BY <2>1, <3>1, EndOfType DEF StreamInv, Contiguous
    <3>3. Framing!EndOf(in_count + 1) = start + (LENGTH_LENGTH + length + TAG_LENGTH)
      <4>1. PICK k \in 1 .. Len(stream) : k = in_count + 1
        BY <3>1
      <4>2. Framing!EndOf(k) = Framing!EndOf(k - 1) + Framing!WireSize(stream[k].length)
        BY DEF StreamInv, Contiguous
      <4>3. k - 1 = in_count
        BY <2>1, <4>1
      <4> QED  BY <4>1, <4>2, <4>3 DEF Framing!WireSize
    <3>4. ~ (/\ arrived - start > LENGTH_LENGTH + TAG_LENGTH + 1
             /\ arrived - start >= LENGTH_LENGTH + length + TAG_LENGTH)
      BY <2>1, <2>2
      DEF Framing!TakesBlock, Framing!Buffered, Framing!WireSize, Framing!MIN_BLOCK_LENGTH,
          Framing!MIN_PAYLOAD_LENGTH
    <3>5. LENGTH_LENGTH \in Nat /\ TAG_LENGTH \in Nat
      BY DEF Framing!Parameters
    <3> HIDE DEF length, start
    <3>6. arrived = start + (LENGTH_LENGTH + length + TAG_LENGTH) /\ length = 1
      BY <2>1, <2>2, <3>2, <3>3, <3>4, <3>5
    <3> QED  BY <3>3, <3>6 DEF length
  <2> QED
    BY <2>1, <2>2 DEF BlocksAreWhole, Framing!BlocksAreWhole, Framing!MIN_PAYLOAD_LENGTH
<1> QED  BY <1>1, <1>2, <1>3, PTL DEF Framing!Spec

----------------------------------------------------------------------------
(* Messages of pairing.  encode appends, decode reads what was appended in   *)
(* a loop, and both are recursive functions here: what they compute is shown *)
(* by induction over the fragments.                                          *)

(* A fragment as encode makes it: its length is that of its bytes. *)
Piece(X) == {[tag |-> t, len |-> Len(b), bytes |-> b] : t \in Tags, b \in Seq(X)}

(* What is on the wire beside the bytes of values. *)
OnWire(X) == X \union {<<"tag", t>> : t \in Tags} \union {<<"len", n>> : n \in Nat}

TagAndLength(f) == <<<<"tag", f.tag>>, <<"len", f.len>>>>
Written(f) == TagAndLength(f) \o f.bytes
WrittenAll(fs) == [i \in 1 .. Len(fs) |-> Written(fs[i])]

(* What a fragment, and a message, has for a tag. *)
Part(t, f) == IF f.tag = t THEN f.bytes ELSE <<>>
Chosen(t, fs) == [i \in 1 .. Len(fs) |-> Part(t, fs[i])]
Of(t, fs) == Flat(Chosen(t, fs))

(* An encoded message is its blocks. *)
LEMMA WireIs == ASSUME NEW fs PROVE TLV!Wire(fs) = Flat(WrittenAll(fs))
  BY Zenon DEF TLV!Wire, Flat, WrittenAll, Written, TagAndLength

(* What the parts of a fragment are. *)
LEMMA PieceIs ==
  ASSUME NEW X, NEW f \in Piece(X)
  PROVE  f.tag \in Tags /\ f.len = Len(f.bytes) /\ f.len \in Nat /\ f.bytes \in Seq(X)
<1>1. PICK t \in Tags, b \in Seq(X) : f = [tag |-> t, len |-> Len(b), bytes |-> b]
  BY DEF Piece
<1>2. f.tag = t /\ f.len = Len(b) /\ f.bytes = b
  BY <1>1
<1>3. Len(b) \in Nat
  BY LenProperties
<1> QED  BY <1>2, <1>3

(* What the bytes of a fragment's block are. *)
LEMMA BlockIs ==
  ASSUME NEW X, NEW f \in Piece(X)
  PROVE  /\ Written(f) \in Seq(OnWire(X))
         /\ Len(Written(f)) = f.len + 2
         /\ Written(f)[1] = <<"tag", f.tag>> /\ Written(f)[2] = <<"len", f.len>>
         /\ \A i \in 1 .. f.len : Written(f)[i + 2] = f.bytes[i]
<1> DEFINE W == OnWire(X)
           a == <<"tag", f.tag>>
           b == <<"len", f.len>>
           h == TagAndLength(f)
           x == f.bytes
<1>1. f.tag \in Tags /\ f.len = Len(x) /\ f.len \in Nat /\ x \in Seq(X)
  BY PieceIs
<1>2. a \in W /\ b \in W /\ X \subseteq W
  BY <1>1 DEF OnWire
<1>3. h = <<a, b>>
  BY DEF TagAndLength
<1>4. x \in Seq(W)
  BY <1>1, <1>2, SeqMonotonic
<1> HIDE DEF W, a, b, h, x
<1>5. h \in Seq(W) /\ Len(h) = 2 /\ h[1] = a /\ h[2] = b
  BY <1>2, <1>3
<1>6. /\ h \o x \in Seq(W)
      /\ Len(h \o x) = 2 + Len(x)
      /\ \A i \in 1 .. 2 + Len(x) : (h \o x)[i] = IF i <= 2 THEN h[i] ELSE x[i - 2]
  <2>1. /\ h \o x \in Seq(W)
        /\ Len(h \o x) = Len(h) + Len(x)
        /\ \A i \in 1 .. Len(h) + Len(x) : (h \o x)[i] = IF i <= Len(h)
             THEN h[i] ELSE x[i - Len(h)]
    BY <1>4, <1>5, ConcatProperties
  <2> QED  BY <2>1, <1>5
<1>7. Written(f) = h \o x
  BY DEF Written, h, x
<1>8. (h \o x)[1] = a /\ (h \o x)[2] = b
  <2>1. 1 \in 1 .. 2 + Len(x) /\ 2 \in 1 .. 2 + Len(x)
    BY <1>1
  <2> QED  BY <2>1, <1>5, <1>6
<1>9. ASSUME NEW i \in 1 .. f.len PROVE (h \o x)[i + 2] = x[i]
  <2>1. i + 2 \in 1 .. 2 + Len(x) /\ ~ (i + 2 <= 2) /\ i + 2 - 2 = i
    BY <1>1
  <2> QED  BY <2>1, <1>6
<1>10. Len(h \o x) = f.len + 2
  BY <1>1, <1>6
<1> QED  BY <1>6, <1>7, <1>8, <1>9, <1>10 DEF W, a, b, x

(* A turn at the start of a block takes it. *)
LEMMA TurnTakes ==
  ASSUME NEW X, NEW f \in Piece(X), NEW p \in Seq(OnWire(X)), NEW r \in Seq(OnWire(X)),
         NEW found
  PROVE  TLV!Turn((p \o Written(f)) \o r, [pos |-> Len(p) + 1, found |-> found, ok |-> TRUE])
         = [pos |-> Len(p \o Written(f)) + 1,
            found |-> [found EXCEPT ![f.tag] = @ \o f.bytes], ok |-> TRUE]
<1> DEFINE W == OnWire(X)
           B == Written(f)
           q == p \o B
           d == q \o r
           n == Len(p)
           m == f.len
<1>1. /\ B \in Seq(W) /\ Len(B) = m + 2 /\ m \in Nat /\ m = Len(f.bytes)
      /\ B[1] = <<"tag", f.tag>> /\ B[2] = <<"len", m>>
      /\ \A i \in 1 .. m : B[i + 2] = f.bytes[i]
  BY BlockIs, PieceIs
<1>0. f.bytes \in Seq(X) /\ f.tag \in Tags
  BY PieceIs
<1> HIDE DEF W, B, m
<1>2. /\ q \in Seq(W) /\ Len(q) = n + Len(B) /\ n \in Nat
      /\ \A i \in 1 .. n + Len(B) : q[i] = IF i <= n THEN p[i] ELSE B[i - n]
  <2>1. p \in Seq(W)
    BY DEF W
  <2> QED  BY <1>1, <2>1, ConcatProperties, LenProperties
<1> HIDE DEF q, n
<1>3. /\ Len(d) = Len(q) + Len(r) /\ Len(r) \in Nat
      /\ \A i \in 1 .. Len(q) + Len(r) : d[i] = IF i <= Len(q) THEN q[i] ELSE r[i - Len(q)]
  <2>1. r \in Seq(W)
    BY DEF W
  <2> QED  BY <1>2, <2>1, ConcatProperties, LenProperties
<1> HIDE DEF d
<1>4. /\ n \in Nat /\ m \in Nat /\ Len(r) \in Nat
      /\ Len(q) = n + m + 2 /\ Len(d) = n + m + 2 + Len(r)
  <2>1. n \in Nat /\ m \in Nat /\ Len(r) \in Nat
    BY <1>1, <1>2, <1>3
  <2>2. Len(B) = m + 2
    BY <1>1
  <2>3. Len(q) = n + Len(B)
    BY <1>2
  <2>4. Len(d) = Len(q) + Len(r)
    BY <1>3
  <2> QED  BY <2>1, <2>2, <2>3, <2>4
<1>5. ASSUME NEW i \in 1 .. m + 2 PROVE d[n + i] = B[i]
  <2>0. Len(B) = m + 2
    BY <1>1
  <2>1. n + i \in 1 .. Len(q) + Len(r) /\ n + i <= Len(q) /\ n + i \in 1 .. n + Len(B)
        /\ ~ (n + i <= n) /\ n + i - n = i
    BY <1>4, <2>0
  <2>2. d[n + i] = q[n + i]
    BY <1>3, <2>1
  <2>3. q[n + i] = B[i]
    BY <1>2, <2>1
  <2> QED  BY <2>2, <2>3
<1>6. d[n + 1] = <<"tag", f.tag>> /\ d[n + 1 + 1] = <<"len", m>>
  <2>1. 1 \in 1 .. m + 2 /\ 2 \in 1 .. m + 2 /\ n + 1 + 1 = n + 2
    BY <1>4
  <2> QED  BY <1>1, <1>5, <2>1
<1> DEFINE s == [pos |-> n + 1, found |-> found, ok |-> TRUE]
           last == n + 1 + 1 + m
<1>7. last = Len(q) /\ last <= Len(d) /\ n + 1 + 2 = n + 3 /\ last \in Nat
  BY <1>4
<1>8. SubSeq(d, n + 1 + 2, last) = f.bytes
  <2> DEFINE v == SubSeq(d, n + 1 + 2, last)
  <2>1. n + 1 + 2 \in Int /\ last \in Int /\ last - (n + 1 + 2) + 1 = m
        /\ (n + 1 + 2 <= last <=> m # 0)
    BY <1>4
  <2>2. ASSUME NEW i \in 1 .. m PROVE d[n + 1 + 2 + i - 1] = f.bytes[i]
    <3>1. i + 2 \in 1 .. m + 2 /\ n + 1 + 2 + i - 1 = n + (i + 2)
      BY <1>4
    <3> QED  BY <1>1, <1>5, <3>1
  <2>3. ASSUME NEW j \in n + 1 + 2 .. last PROVE d[j] \in X
    <3> DEFINE i == j - (n + 1 + 2) + 1
    <3>1. i \in 1 .. m /\ n + 1 + 2 + i - 1 = j
      BY <1>4
    <3> HIDE DEF i
    <3>2. d[j] = f.bytes[i]
      BY <2>2, <3>1
    <3>3. f.bytes[i] \in X
      BY <1>0, <1>1, <3>1, ElementOfSeq
    <3> QED  BY <3>2, <3>3
  <2>4. /\ v \in Seq(X)
        /\ Len(v) = IF n + 1 + 2 <= last THEN last - (n + 1 + 2) + 1 ELSE 0
        /\ \A i \in 1 .. last - (n + 1 + 2) + 1 : v[i] = d[n + 1 + 2 + i - 1]
    BY <2>1, <2>3, SubSeqProperties
  <2> HIDE DEF v
  <2>5. Len(v) = m /\ \A i \in 1 .. m : v[i] = f.bytes[i]
    <3>1. Len(v) = m
      BY <2>1, <2>4, <1>1
    <3>2. ASSUME NEW i \in 1 .. m PROVE v[i] = f.bytes[i]
      BY <2>1, <2>2, <2>4
    <3> QED  BY <3>1, <3>2
  <2>6. v = f.bytes
    BY <1>0, <1>1, <2>4, <2>5, SeqEqual
  <2> QED  BY <2>6 DEF v
<1> HIDE DEF last
<1>9. s.pos = n + 1 /\ s.ok /\ s.found = found
  OBVIOUS
<1> HIDE DEF s
<1>10. d[s.pos][1] = "tag" /\ d[s.pos][2] = f.tag /\ d[s.pos + 1][1] = "len"
         /\ d[s.pos + 1][2] = m
  BY <1>6, <1>9
<1>11. ~ (s.pos > Len(d)) /\ s.pos # Len(d)
  BY <1>9, <1>4
<1>12. s.pos + 1 + m = last /\ s.pos + 2 = n + 1 + 2
  BY <1>9 DEF last
<1>13. SubSeq(d, s.pos + 2, IF last < Len(d) THEN last ELSE Len(d)) = f.bytes
  <2>1. (IF last < Len(d) THEN last ELSE Len(d)) = last
    BY <1>7, <1>4
  <2> QED  BY <2>1, <1>12, <1>8
<1>14. TLV!Turn(d, s) = [pos |-> last + 1,
         found |-> [s.found EXCEPT ![f.tag] = @ \o f.bytes], ok |-> TRUE]
  BY <1>9, <1>10, <1>11, <1>12, <1>13, Zenon DEF TLV!Turn
<1>15. TLV!Turn(d, s) = [pos |-> Len(q) + 1,
         found |-> [found EXCEPT ![f.tag] = @ \o f.bytes], ok |-> TRUE]
  BY <1>14, <1>7, <1>9
<1> QED  BY <1>15, Zenon DEF s, d, q, B, n

(* What a fragment has for a tag is bytes. *)
LEMMA PartType ==
  ASSUME NEW X, NEW t, NEW f \in Piece(X)
  PROVE  Part(t, f) \in Seq(X)
<1>1. f.bytes \in Seq(X) /\ <<>> \in Seq(X)
  BY PieceIs, EmptySeq
<1> QED  BY <1>1 DEF Part

(* What the fragments have for a tag, one by one ... *)
LEMMA ChosenIs ==
  ASSUME NEW X, NEW t, NEW fs \in Seq(Piece(X))
  PROVE  /\ Chosen(t, fs) \in Seq(Seq(X)) /\ Len(Chosen(t, fs)) = Len(fs)
         /\ \A i \in 1 .. Len(fs) : Chosen(t, fs)[i] = Part(t, fs[i])
<1>1. Len(fs) \in Nat
  BY LenProperties
<1>2. ASSUME NEW i \in 1 .. Len(fs) PROVE Part(t, fs[i]) \in Seq(X)
  <2>1. fs[i] \in Piece(X)
    BY ElementOfSeq
  <2> QED  BY <2>1, PartType
<1> QED  BY <1>1, <1>2 DEF Chosen

(* ... and together. *)
LEMMA OfType ==
  ASSUME NEW X, NEW t, NEW fs \in Seq(Piece(X))
  PROVE  Of(t, fs) \in Seq(X)
  BY ChosenIs, FlatType DEF Of

(* What a tag has of a message and another behind it. *)
LEMMA OfConcat ==
  ASSUME NEW X, NEW t, NEW fs \in Seq(Piece(X)), NEW gs \in Seq(Piece(X))
  PROVE  Of(t, fs \o gs) = Of(t, fs) \o Of(t, gs)
<1> DEFINE P == Piece(X)
           Y == Seq(X)
           fg == fs \o gs
           a == Chosen(t, fs)
           b == Chosen(t, gs)
           c == Chosen(t, fg)
           ab == a \o b
           n == Len(fs)
           m == Len(gs)
<1>1. /\ n \in Nat /\ m \in Nat /\ fg \in Seq(P) /\ Len(fg) = n + m
      /\ \A i \in 1 .. n + m : fg[i] = IF i <= n THEN fs[i] ELSE gs[i - n]
  <2> HIDE DEF P
  <2>1. fs \in Seq(P) /\ gs \in Seq(P)
    BY DEF P
  <2> QED  BY <2>1, ConcatProperties, LenProperties
<1>2. a \in Seq(Y) /\ Len(a) = n /\ \A i \in 1 .. n : a[i] = Part(t, fs[i])
  BY ChosenIs
<1>3. b \in Seq(Y) /\ Len(b) = m /\ \A i \in 1 .. m : b[i] = Part(t, gs[i])
  BY ChosenIs
<1>4. c \in Seq(Y) /\ Len(c) = n + m /\ \A i \in 1 .. n + m : c[i] = Part(t, fg[i])
  <2> HIDE DEF fg
  <2>1. c \in Seq(Y) /\ Len(c) = Len(fg) /\ \A i \in 1 .. Len(fg) : c[i] = Part(t, fg[i])
    BY <1>1, ChosenIs, ZenonT(30)
  <2> QED  BY <1>1, <2>1
<1> HIDE DEF a, b, c, Y, P, fg
<1>5. /\ ab \in Seq(Y) /\ Len(ab) = n + m
      /\ \A i \in 1 .. n + m : ab[i] = IF i <= n THEN a[i] ELSE b[i - n]
  <2>1. /\ ab \in Seq(Y) /\ Len(ab) = Len(a) + Len(b)
        /\ \A i \in 1 .. Len(a) + Len(b) : ab[i] = IF i <= Len(a) THEN a[i] ELSE b[i - Len(a)]
    <3>1. a \in Seq(Y) /\ b \in Seq(Y)
      BY <1>2, <1>3
    <3> QED  BY <3>1, ConcatProperties
  <2> HIDE DEF ab
  <2> QED  BY <2>1, <1>2, <1>3
<1> HIDE DEF ab
<1>6. ASSUME NEW i \in 1 .. n + m PROVE c[i] = ab[i]
  <2>0. c[i] = Part(t, fg[i])
    BY <1>4
  <2>1. CASE i <= n
    <3>1. i \in 1 .. n
      BY <2>1, <1>1
    <3>2. fg[i] = fs[i]
      BY <1>1, <2>1
    <3>3. ab[i] = a[i]
      BY <1>5, <2>1
    <3>4. a[i] = Part(t, fs[i])
      BY <1>2, <3>1
    <3> QED  BY <2>0, <3>2, <3>3, <3>4
  <2>2. CASE ~ (i <= n)
    <3>1. i - n \in 1 .. m
      BY <2>2, <1>1
    <3>2. fg[i] = gs[i - n]
      BY <1>1, <2>2
    <3>3. ab[i] = b[i - n]
      BY <1>5, <2>2
    <3>4. b[i - n] = Part(t, gs[i - n])
      BY <1>3, <3>1
    <3> QED  BY <2>0, <3>2, <3>3, <3>4
  <2> QED  BY <2>1, <2>2
<1>7. c = ab
  BY <1>4, <1>5, <1>6, SeqEqual
<1>8. Flat(ab) = Flat(a) \o Flat(b)
  BY <1>2, <1>3, FlatConcat DEF Y, ab
<1> QED  BY <1>7, <1>8 DEF Of, a, b, c, fg

(* What a tag has of one fragment ... *)
LEMMA OfOne ==
  ASSUME NEW X, NEW t, NEW f \in Piece(X)
  PROVE  <<f>> \in Seq(Piece(X)) /\ Of(t, <<f>>) = Part(t, f)
<1> DEFINE e == Part(t, f)
           none == <<>>
<1>1. <<f>> \in Seq(Piece(X)) /\ Len(<<f>>) = 1 /\ <<f>>[1] = f
  OBVIOUS
<1>2. e \in Seq(X)
  BY PartType
<1>3. Chosen(t, <<f>>) = [i \in 1 .. 1 |-> e]
  BY <1>1 DEF Chosen
<1> HIDE DEF e
<1>4. [i \in 1 .. 1 |-> e] = Append(<<>>, e)
  OBVIOUS
<1>5. none \in Seq(Seq(X))
  BY EmptySeq
<1>6. Flat(Append(none, e)) = Flat(none) \o e
  <2> HIDE DEF none
  <2> QED  BY <1>2, <1>5, FlatAppend
<1>7. Flat(none) \o e = e
  BY <1>2, FlatEmpty, ConcatEmptySeq
<1> QED  BY <1>1, <1>3, <1>4, <1>6, <1>7 DEF Of, e

(* ... of the next one of a message ... *)
LEMMA OfNext ==
  ASSUME NEW X, NEW t, NEW fs \in Seq(Piece(X)), NEW k \in 0 .. Len(fs), k < Len(fs)
  PROVE  Of(t, SubSeq(fs, 1, k + 1)) = Of(t, SubSeq(fs, 1, k)) \o Part(t, fs[k + 1])
<1> DEFINE f == fs[k + 1]
           one == <<f>>
           pre == SubSeq(fs, 1, k)
<1>1. pre \in Seq(Piece(X)) /\ f \in Piece(X) /\ SubSeq(fs, 1, k + 1) = Append(pre, f)
  BY Firsts
<1>2. SubSeq(fs, 1, k + 1) = pre \o one
  BY <1>1, AppendIsConcat
<1>3. one \in Seq(Piece(X)) /\ Of(t, one) = Part(t, f)
  BY <1>1, OfOne
<1> HIDE DEF one, pre, f
<1>4. Of(t, pre \o one) = Of(t, pre) \o Of(t, one)
  BY <1>1, <1>3, OfConcat
<1> QED  BY <1>2, <1>3, <1>4 DEF pre, f

(* ... and of none. *)
LEMMA OfEmpty == ASSUME NEW t PROVE Of(t, <<>>) = <<>>
<1>1. Chosen(t, <<>>) = <<>>
  BY DEF Chosen
<1> QED  BY <1>1, FlatEmpty DEF Of

(* Where decode's loop is after k fragments. *)
State(fs, k) ==
  [pos |-> Len(Flat(SubSeq(WrittenAll(fs), 1, k))) + 1,
   found |-> [t \in Tags |-> Of(t, SubSeq(fs, 1, k))], ok |-> TRUE]

(* The blocks of fragments, one by one. *)
LEMMA BlocksAre ==
  ASSUME NEW X, NEW fs \in Seq(Piece(X))
  PROVE  /\ WrittenAll(fs) \in Seq(Seq(OnWire(X))) /\ Len(WrittenAll(fs)) = Len(fs)
         /\ \A i \in 1 .. Len(fs) : WrittenAll(fs)[i] = Written(fs[i]) /\ fs[i] \in Piece(X)
<1>1. Len(fs) \in Nat /\ \A i \in 1 .. Len(fs) : fs[i] \in Piece(X)
  BY LenProperties, ElementOfSeq
<1>2. ASSUME NEW i \in 1 .. Len(fs) PROVE Written(fs[i]) \in Seq(OnWire(X))
  BY <1>1, BlockIs
<1> QED  BY <1>1, <1>2 DEF WrittenAll

(* A turn takes one fragment. *)
LEMMA TurnState ==
  ASSUME NEW X, NEW fs \in Seq(Piece(X)), NEW k \in 0 .. Len(fs), k < Len(fs)
  PROVE  TLV!Turn(TLV!Wire(fs), State(fs, k)) = State(fs, k + 1)
<1> DEFINE W == OnWire(X)
           Y == Seq(W)
           w == WrittenAll(fs)
           n == Len(fs)
           f == fs[k + 1]
           p == Flat(SubSeq(w, 1, k))
           r == Flat(SubSeq(w, k + 1 + 1, n))
           found == [t \in Tags |-> Of(t, SubSeq(fs, 1, k))]
<1>1. n \in Nat /\ k + 1 \in 1 .. n /\ k + 1 \in 0 .. n /\ k + 1 \in Nat
  BY LenProperties
<1>2. w \in Seq(Y) /\ Len(w) = n /\ w[k + 1] = Written(f) /\ f \in Piece(X)
  BY <1>1, BlocksAre
<1> HIDE DEF w
<1>3. SubSeq(w, 1, k) \in Seq(Y) /\ SubSeq(w, 1, k + 1) = Append(SubSeq(w, 1, k), Written(f))
      /\ Written(f) \in Y
  BY <1>2, Firsts
<1>4. Flat(SubSeq(w, 1, k + 1)) = p \o Written(f) /\ p \in Y
  BY <1>3, FlatAppend, FlatType
<1>5. SubSeq(w, k + 1 + 1, n) \in Seq(Y) /\ SubSeq(w, 1, k + 1) \in Seq(Y)
      /\ w = SubSeq(w, 1, k + 1) \o SubSeq(w, k + 1 + 1, n)
  <2> HIDE DEF Y
  <2>1. 1 \in 1 .. Len(w) + 1 /\ k + 1 \in 1 - 1 .. Len(w) /\ Len(w) \in k + 1 .. Len(w)
    BY <1>1, <1>2
  <2>2. SubSeq(w, 1, k + 1) \o SubSeq(w, k + 1 + 1, Len(w)) = SubSeq(w, 1, Len(w))
    BY <1>2, <2>1, ConcatAdjacentSubSeq
  <2>3. SubSeq(w, 1, Len(w)) = w
    BY <1>2, SubSeqFull
  <2>4. \A i \in k + 1 + 1 .. n : w[i] \in Y
    <3> SUFFICES ASSUME NEW i \in k + 1 + 1 .. n PROVE w[i] \in Y
      OBVIOUS
    <3>1. i \in 1 .. Len(w)
      BY <1>1, <1>2
    <3> QED  BY <3>1, <1>2, ElementOfSeq
  <2>5. k + 1 + 1 \in Int /\ n \in Int
    BY <1>1
  <2>6. SubSeq(w, k + 1 + 1, n) \in Seq(Y)
    BY <2>4, <2>5, SubSeqProperties
  <2>7. SubSeq(w, 1, k + 1) \in Seq(Y)
    BY <1>1, <1>2, Firsts
  <2> QED  BY <1>2, <2>2, <2>3, <2>6, <2>7
<1>6. Flat(w) = (p \o Written(f)) \o r /\ r \in Y
  BY <1>4, <1>5, FlatConcat, FlatType
<1>7. TLV!Wire(fs) = Flat(w)
  BY WireIs DEF w
<1>8. SubSeq(fs, 1, k) \in Seq(Piece(X))
  BY Firsts
<1> HIDE DEF p, r, f, w, found
<1>9. TLV!Turn((p \o Written(f)) \o r, [pos |-> Len(p) + 1, found |-> found, ok |-> TRUE])
      = [pos |-> Len(p \o Written(f)) + 1,
        found |-> [found EXCEPT ![f.tag] = @ \o f.bytes], ok |-> TRUE]
  BY <1>2, <1>4, <1>6, TurnTakes, ZenonT(30)
<1>10. [found EXCEPT ![f.tag] = @ \o f.bytes] = [t \in Tags |-> Of(t, SubSeq(fs, 1, k + 1))]
  <2>1. ASSUME NEW t \in Tags
        PROVE  Of(t, SubSeq(fs, 1, k + 1)) = IF t = f.tag THEN found[t] \o f.bytes ELSE found[t]
    <3>1. Of(t, SubSeq(fs, 1, k + 1)) = Of(t, SubSeq(fs, 1, k)) \o Part(t, f)
      BY OfNext DEF f
    <3>2. Part(t, f) = IF f.tag = t THEN f.bytes ELSE <<>>
      BY DEF Part
    <3>3. found[t] = Of(t, SubSeq(fs, 1, k))
      BY DEF found
    <3>4. Of(t, SubSeq(fs, 1, k)) \o <<>> = Of(t, SubSeq(fs, 1, k))
      BY <1>8, OfType, ConcatEmptySeq
    <3> QED  BY <3>1, <3>2, <3>3, <3>4
  <2>2. found \in [Tags -> Seq(X)]
    BY <1>8, OfType DEF found
  <2>3. [found EXCEPT ![f.tag] = @ \o f.bytes]
        = [t \in Tags |-> IF t = f.tag THEN found[t] \o f.bytes ELSE found[t]]
    BY <2>2
  <2> QED  BY <2>1, <2>3
<1>11. State(fs, k) = [pos |-> Len(p) + 1, found |-> found, ok |-> TRUE]
  BY DEF State, p, found, w
<1>12. State(fs, k + 1) = [pos |-> Len(p \o Written(f)) + 1,
                           found |-> [t \in Tags |-> Of(t, SubSeq(fs, 1, k + 1))], ok |-> TRUE]
  BY <1>4 DEF State, w
<1> QED  BY <1>6, <1>7, <1>9, <1>10, <1>11, <1>12

Start == [pos |-> 1, found |-> [t \in Tags |-> <<>>], ok |-> TRUE]

Loop(g, data, n) == g = [k \in 0 .. n |-> IF k = 0 THEN Start ELSE TLV!Turn(data, g[k - 1])]

(* The loop of decode can be followed as far as one likes. *)
LEMMA LoopExists == ASSUME NEW data PROVE \A n \in Nat : \E g : Loop(g, data, n)
<1> DEFINE T == {n \in Nat : \E g : Loop(g, data, n)}
<1>1. 0 \in T
  <2>1. Loop([k \in 0 .. 0 |-> Start], data, 0)
    <3> DEFINE g == [k \in 0 .. 0 |-> Start]
    <3>1. \A k \in 0 .. 0 : k = 0
      OBVIOUS
    <3>2. g = [k \in 0 .. 0 |-> IF k = 0 THEN Start ELSE TLV!Turn(data, g[k - 1])]
      BY <3>1
    <3> QED  BY <3>2 DEF Loop
  <2> QED  BY <2>1
<1>2. ASSUME NEW n \in Nat, n \in T PROVE n + 1 \in T
  <2>1. PICK g : Loop(g, data, n)
    BY <1>2
  <2> DEFINE h == [k \in 0 .. n + 1 |-> IF k = 0 THEN Start ELSE TLV!Turn(data, g[k - 1])]
  <2>2. \A k \in 0 .. n : h[k] = g[k]
    <3> SUFFICES ASSUME NEW k \in 0 .. n PROVE h[k] = g[k]
      OBVIOUS
    <3>1. h[k] = IF k = 0 THEN Start ELSE TLV!Turn(data, g[k - 1])
      OBVIOUS
    <3>2. g[k] = IF k = 0 THEN Start ELSE TLV!Turn(data, g[k - 1])
      BY <2>1, Zenon DEF Loop
    <3> QED  BY <3>1, <3>2
  <2>3. \A k \in 0 .. n + 1 : h[k] = IF k = 0 THEN Start ELSE TLV!Turn(data, h[k - 1])
    <3> SUFFICES ASSUME NEW k \in 0 .. n + 1
                 PROVE  h[k] = IF k = 0 THEN Start ELSE TLV!Turn(data, h[k - 1])
      OBVIOUS
    <3>1. h[k] = IF k = 0 THEN Start ELSE TLV!Turn(data, g[k - 1])
      OBVIOUS
    <3> HIDE DEF h
    <3>2. k # 0 => k - 1 \in 0 .. n
      OBVIOUS
    <3>3. k # 0 => h[k - 1] = g[k - 1]
      BY <2>2, <3>2
    <3> QED  BY <3>1, <3>3
  <2>4. h = [k \in 0 .. n + 1 |-> IF k = 0 THEN Start ELSE TLV!Turn(data, h[k - 1])]
    BY <2>3
  <2> HIDE DEF h
  <2> QED  BY <2>4 DEF Loop
<1> HIDE DEF T
<1>3. \A n \in Nat : n \in T
  BY <1>1, <1>2, NumbersFollow
<1> QED  BY <1>3 DEF T

(* decode's loop, from its CHOOSE, and its turns one by one. *)
LEMMA DecodeLoopIs ==
  ASSUME NEW data, Len(data) \in Nat
  PROVE  \E g : Loop(g, data, Len(data)) /\ TLV!DecodeLoop(data) = g[Len(data)]
<1> DEFINE f[k \in 0 .. Len(data)] == IF k = 0 THEN Start ELSE TLV!Turn(data, f[k - 1])
<1>1. \E g : g = [k \in 0 .. Len(data) |-> IF k = 0 THEN Start ELSE TLV!Turn(data, g[k - 1])]
  BY LoopExists DEF Loop
<1>2. f = [k \in 0 .. Len(data) |-> IF k = 0 THEN Start ELSE TLV!Turn(data, f[k - 1])]
  BY <1>1, Zenon DEF f
<1>3. TLV!DecodeLoop(data) = f[Len(data)]
  BY Zenon DEF TLV!DecodeLoop, Start, f
<1> QED  BY <1>2, <1>3, Zenon DEF Loop

LEMMA LoopValue ==
  ASSUME NEW data, NEW g, NEW n \in Nat, Loop(g, data, n), NEW k \in 0 .. n
  PROVE  g[k] = IF k = 0 THEN Start ELSE TLV!Turn(data, g[k - 1])
  BY Zenon DEF Loop

(* Each block has bytes. *)
LEMMA BlocksHaveBytes ==
  ASSUME NEW X, NEW fs \in Seq(Piece(X))
  PROVE  /\ Len(TLV!Wire(fs)) \in Nat /\ Len(fs) <= Len(TLV!Wire(fs))
<1> DEFINE Y == Seq(OnWire(X))
           w == WrittenAll(fs)
           n == Len(fs)
           T == {k \in 0 .. n : k <= Len(Flat(SubSeq(w, 1, k)))}
<1>1. /\ w \in Seq(Y) /\ Len(w) = n /\ n \in Nat
      /\ \A i \in 1 .. n : w[i] = Written(fs[i]) /\ fs[i] \in Piece(X)
  BY BlocksAre, LenProperties
<1>2. 0 \in T
  <2>1. SubSeq(w, 1, 0) = <<>>
    BY SubSeqEmpty
  <2>2. Len(Flat(SubSeq(w, 1, 0))) = 0
    BY <2>1, FlatEmptyLen, Zenon
  <2> QED  BY <1>1, <2>2
<1>3. ASSUME NEW k \in 0 .. n, k \in T /\ k < n PROVE k + 1 \in T
  <2> DEFINE p == SubSeq(w, 1, k)
             b == w[k + 1]
             OW == OnWire(X)
  <2>1. k + 1 \in 1 .. n /\ k + 1 \in 0 .. n
    BY <1>1, <1>3
  <2>2. p \in Seq(Y) /\ SubSeq(w, 1, k + 1) = Append(p, b) /\ b \in Y
    <3> HIDE DEF w, Y
    <3> QED  BY <1>1, <1>3, Firsts
  <2>3. Len(b) = fs[k + 1].len + 2 /\ fs[k + 1].len \in Nat
    BY <1>1, <2>1, BlockIs, PieceIs
  <2>4. k <= Len(Flat(p))
    BY <1>3
  <2> HIDE DEF p, b
  <2>5. Flat(Append(p, b)) = Flat(p) \o b /\ Flat(p) \in Y
    BY <2>2, FlatAppend, FlatType
  <2>6. Len(Flat(p) \o b) = Len(Flat(p)) + Len(b) /\ Len(Flat(p)) \in Nat
    <3> HIDE DEF OW
    <3>1. Flat(p) \in Seq(OW) /\ b \in Seq(OW)
      BY <2>2, <2>5 DEF OW
    <3> QED  BY <3>1, ConcatProperties, LenProperties
  <2>7. k + 1 <= Len(Flat(p)) + Len(b)
    <3>1. Len(b) \in Nat /\ Len(b) >= 2 /\ k \in Nat
      BY <2>3
    <3> QED  BY <3>1, <2>4, <2>6
  <2> QED  BY <2>1, <2>2, <2>5, <2>6, <2>7
<1> HIDE DEF T
<1>4. \A k \in 0 .. n : k \in T
  BY <1>1, <1>2, <1>3, NumbersUpTo
<1>5. n \in 0 .. n /\ SubSeq(w, 1, n) = w
  <2> HIDE DEF w
  <2> QED  BY <1>1, SubSeqFull
<1>6. n <= Len(Flat(w))
  BY <1>4, <1>5 DEF T
<1>7. Flat(w) \in Y
  BY <1>1, FlatType
<1>8. Len(Flat(w)) \in Nat
  BY <1>7, LenProperties
<1> QED  BY <1>6, <1>8, WireIs

(* decode finds, for each tag, what the fragments of the tag hold. *)
LEMMA DecodeWire ==
  ASSUME NEW X, NEW fs \in Seq(Piece(X))
  PROVE  /\ TLV!WellFormed(TLV!Wire(fs))
         /\ \A t \in Tags : TLV!Decode(TLV!Wire(fs))[t] = Of(t, fs)
<1> DEFINE d == TLV!Wire(fs)
           L == Len(d)
           n == Len(fs)
           St(k) == State(fs, IF k <= n THEN k ELSE n)
<1>1. L \in Nat /\ n \in Nat /\ n <= L
  BY BlocksHaveBytes, LenProperties
<1>2. PICK g : Loop(g, d, L) /\ TLV!DecodeLoop(d) = g[L]
  <2> HIDE DEF d
  <2> QED  BY <1>1, DecodeLoopIs
<1>3. State(fs, 0) = Start
  <2>1. SubSeq(WrittenAll(fs), 1, 0) = <<>> /\ SubSeq(fs, 1, 0) = <<>>
    BY SubSeqEmpty
  <2>2. Len(Flat(SubSeq(WrittenAll(fs), 1, 0))) + 1 = 1
    <3>1. Len(Flat(SubSeq(WrittenAll(fs), 1, 0))) = 0
      BY <2>1, FlatEmptyLen, Zenon
    <3> QED  BY <3>1
  <2>3. \A t \in Tags : Of(t, SubSeq(fs, 1, 0)) = <<>>
    BY <2>1, OfEmpty
  <2> QED  BY <2>2, <2>3 DEF State, Start
<1>4. TLV!Turn(d, State(fs, n)) = State(fs, n)
  <2>1. SubSeq(WrittenAll(fs), 1, n) = WrittenAll(fs)
    BY BlocksAre, SubSeqFull
  <2>2. State(fs, n).pos = L + 1
    BY <2>1, WireIs DEF State
  <2>3. State(fs, n).pos > L
    BY <2>2, <1>1
  <2> QED  BY <2>3, Zenon DEF TLV!Turn
<1>5. ASSUME NEW k \in 0 .. L, k < L PROVE TLV!Turn(d, St(k)) = St(k + 1)
  <2>1. CASE k < n
    <3>1. k \in 0 .. Len(fs) /\ k < Len(fs) /\ k <= n /\ k + 1 <= n
      BY <2>1, <1>1
    <3>2. TLV!Turn(d, State(fs, k)) = State(fs, k + 1)
      BY <3>1, TurnState
    <3> QED  BY <3>1, <3>2
  <2>2. CASE ~ (k < n)
    <3>1. (IF k <= n THEN k ELSE n) = n /\ (IF k + 1 <= n THEN k + 1 ELSE n) = n
      BY <2>2, <1>1
    <3> QED  BY <3>1, <1>4
  <2> QED  BY <2>1, <2>2
<1>6. St(0) = Start
  BY <1>1, <1>3
<1>7. St(L) = State(fs, n)
  BY <1>1
<1> DEFINE T == {k \in 0 .. L : g[k] = St(k)}
<1> HIDE DEF d, L, St
<1>8. 0 \in T
  <2>1. 0 \in 0 .. L
    BY <1>1
  <2>2. g[0] = Start
    <3>1. Loop(g, d, L) /\ L \in Nat
      BY <1>1, <1>2
    <3> QED  BY <3>1, <2>1, LoopValue
  <2> QED  BY <1>6, <2>1, <2>2
<1>9. ASSUME NEW k \in 0 .. L, k \in T /\ k < L PROVE k + 1 \in T
  <2>1. k + 1 \in 0 .. L /\ k + 1 # 0 /\ k + 1 - 1 = k
    BY <1>1, <1>9
  <2>2. Loop(g, d, L) /\ L \in Nat
    BY <1>1, <1>2
  <2>3. g[k + 1] = TLV!Turn(d, g[k])
    <3>1. g[k + 1] = IF k + 1 = 0 THEN Start ELSE TLV!Turn(d, g[k + 1 - 1])
      BY <2>1, <2>2, LoopValue
    <3> QED  BY <2>1, <3>1
  <2>4. g[k] = St(k)
    BY <1>9
  <2>5. TLV!Turn(d, St(k)) = St(k + 1)
    BY <1>5, <1>9
  <2> QED  BY <2>1, <2>3, <2>4, <2>5
<1> HIDE DEF T
<1>10. \A k \in 0 .. L : k \in T
  BY <1>1, <1>8, <1>9, NumbersUpTo
<1>11. L \in T
  BY <1>1, <1>10
<1>12. TLV!DecodeLoop(d) = State(fs, n)
  BY <1>2, <1>7, <1>11 DEF T
<1>13. SubSeq(fs, 1, n) = fs
  BY SubSeqFull
<1>14. State(fs, n).ok = TRUE /\ \A t \in Tags : State(fs, n).found[t] = Of(t, fs)
  <2> DEFINE found == [t \in Tags |-> Of(t, SubSeq(fs, 1, n))]
  <2>1. \A t \in Tags : found[t] = Of(t, fs)
    BY <1>13
  <2> HIDE DEF found
  <2>2. State(fs, n).ok = TRUE /\ State(fs, n).found = found
    BY DEF State, found
  <2> QED  BY <2>1, <2>2
<1>15. TLV!WellFormed(d) /\ TLV!Decode(d) = State(fs, n).found
  BY <1>12, <1>14 DEF TLV!WellFormed, TLV!Decode
<1> QED  BY <1>14, <1>15 DEF d

(* A value is in its fragments, in their order, if there is a rest. *)
LEMMA LongPieces ==
  ASSUME NEW X, NEW tag \in Tags, NEW data \in Seq(X), MaxFragment \in Nat \ {0},
         Len(data) % MaxFragment # 0
  PROVE  /\ TLV!EncodeLong(tag, data) \in Seq(Piece(X))
         /\ \A t \in Tags : Of(t, TLV!EncodeLong(tag, data)) = IF tag = t THEN data ELSE <<>>
<1> DEFINE M == MaxFragment
           n == Len(data)
           full == n \div M
           rest == n % M
           Between(i, j) == SubSeq(data, i * M + 1, j * M)
           Bytes(y) == Between(y - 1, y)
           F == [y \in 1 .. full |-> [tag |-> tag, len |-> M, bytes |-> Bytes(y)]]
           last == SubSeq(data, n - rest + 1, n)
           l == [tag |-> tag, len |-> rest, bytes |-> last]
           one == <<l>>
           Own(t, b) == IF tag = t THEN b ELSE <<>>
<1>1. n \in Nat /\ M \in Nat \ {0} /\ rest # 0
  BY LenProperties
<1> HIDE DEF M, n
<1>2. full \in Nat /\ rest \in Nat /\ rest < M /\ n = (full * M) + rest
  BY <1>1, FullAndRest
<1> HIDE DEF full, rest
<1>0. TLV!EncodeLong(tag, data) = F \o one
  <2>1. ASSUME NEW y \in 1 .. full
        PROVE  TLV!Fragment(tag, M, TLV!Slice(data, (y - 1) * M, y * M))
               = [tag |-> tag, len |-> M, bytes |-> Bytes(y)]
    BY Zenon DEF TLV!Fragment, TLV!Slice
  <2>2. [y \in 1 .. full |-> TLV!Fragment(tag, M, TLV!Slice(data, (y - 1) * M, y * M))] = F
    BY <2>1, Zenon
  <2>3. TLV!Fragment(tag, rest, TLV!LastBytes(data, rest)) = l
    BY <1>1, Zenon DEF TLV!Fragment, TLV!LastBytes, TLV!Slice, n
  <2>4. TLV!EncodeLong(tag, data)
        = [y \in 1 .. full |-> TLV!Fragment(tag, M, TLV!Slice(data, (y - 1) * M, y * M))]
          \o <<TLV!Fragment(tag, rest, TLV!LastBytes(data, rest))>>
    BY Zenon DEF TLV!EncodeLong, full, rest, n, M
  <2> QED  BY <2>2, <2>3, <2>4, Zenon
<1>3. ASSUME NEW k \in Nat, k < full
      PROVE  /\ k * M \in Nat /\ (k + 1) * M \in Nat /\ k * M <= (k + 1) * M
             /\ (k + 1) * M - k * M = M /\ (k + 1) * M <= n
  <2>1. k * M \in Nat /\ (k + 1) * M = k * M + M /\ (k + 1) * M <= full * M
    BY <1>1, <1>2, <1>3, StartOfNext
  <2>2. full * M \in Nat
    BY <1>1, <1>2
  <2> QED  BY <1>1, <1>2, <2>1, <2>2
<1>4. ASSUME NEW k \in Nat, k < full
      PROVE  /\ Bytes(k + 1) \in Seq(X) /\ Len(Bytes(k + 1)) = M
             /\ SubSeq(data, 1, k * M) \o Bytes(k + 1) = SubSeq(data, 1, (k + 1) * M)
  <2>1. k + 1 - 1 = k
    OBVIOUS
  <2>2. /\ SubSeq(data, k * M + 1, (k + 1) * M) \in Seq(X)
        /\ Len(SubSeq(data, k * M + 1, (k + 1) * M)) = (k + 1) * M - k * M
        /\ SubSeq(data, 1, k * M) \o SubSeq(data, k * M + 1, (k + 1) * M)
           = SubSeq(data, 1, (k + 1) * M)
    BY <1>3, <1>4, SliceIs DEF n
  <2>3. Bytes(k + 1) = SubSeq(data, k * M + 1, (k + 1) * M)
    <3>1. Between(k, k + 1) = SubSeq(data, k * M + 1, (k + 1) * M)
      OBVIOUS
    <3> HIDE DEF Between
    <3>2. Between(k + 1 - 1, k + 1) = Between(k, k + 1)
      BY <2>1
    <3>3. Bytes(k + 1) = Between(k + 1 - 1, k + 1)
      OBVIOUS
    <3> HIDE DEF Bytes
    <3> QED  BY <3>1, <3>2, <3>3
  <2>4. (k + 1) * M - k * M = M
    BY <1>3, <1>4
  <2> HIDE DEF Bytes
  <2> QED  BY <2>2, <2>3, <2>4, Zenon
<1> HIDE DEF Bytes
<1>5. ASSUME NEW y \in 1 .. full
      PROVE  [tag |-> tag, len |-> M, bytes |-> Bytes(y)] \in Piece(X)
  <2>1. y - 1 \in Nat /\ y - 1 < full /\ y - 1 + 1 = y
    BY <1>2
  <2>2. Bytes(y) \in Seq(X) /\ Len(Bytes(y)) = M
    BY <2>1, <1>4
  <2> QED  BY <2>2 DEF Piece
<1>6. F \in Seq(Piece(X)) /\ Len(F) = full
      /\ \A y \in 1 .. full : F[y] = [tag |-> tag, len |-> M, bytes |-> Bytes(y)]
  BY <1>2, <1>5
<1> HIDE DEF F
<1>7. full * M \in Nat /\ full * M <= n /\ n - full * M = rest /\ n - rest = full * M
  BY <1>1, <1>2
<1>8. /\ last \in Seq(X) /\ Len(last) = rest
      /\ SubSeq(data, 1, full * M) \o last = data
  <2>1. /\ SubSeq(data, full * M + 1, n) \in Seq(X)
        /\ Len(SubSeq(data, full * M + 1, n)) = n - full * M
        /\ SubSeq(data, 1, full * M) \o SubSeq(data, full * M + 1, n) = SubSeq(data, 1, n)
    <3> DEFINE fm == full * M
    <3>1. n \in Nat /\ n <= Len(data)
      BY <1>1 DEF n
    <3>2. fm \in Nat /\ fm <= n
      BY <1>7
    <3> HIDE DEF fm
    <3>3. /\ SubSeq(data, fm + 1, n) \in Seq(X)
          /\ Len(SubSeq(data, fm + 1, n)) = n - fm
          /\ SubSeq(data, 1, fm) \o SubSeq(data, fm + 1, n) = SubSeq(data, 1, n)
      BY <3>1, <3>2, SliceIs
    <3> QED  BY <3>3 DEF fm
  <2>2. SubSeq(data, 1, n) = data
    BY SubSeqFull DEF n
  <2> QED  BY <1>7, <2>1, <2>2
<1> HIDE DEF last
<1>9. l \in Piece(X) /\ one \in Seq(Piece(X))
  <2>1. l \in Piece(X)
    BY <1>8 DEF Piece
  <2> HIDE DEF l
  <2> QED  BY <2>1, OfOne
<1>10. ASSUME NEW t \in Tags PROVE Of(t, F \o one) = Own(t, data)
  <2> DEFINE T == {k \in 0 .. full : Of(t, SubSeq(F, 1, k)) = Own(t, SubSeq(data, 1, k * M))}
  <2>1. 0 \in T
    <3>1. SubSeq(F, 1, 0) = <<>> /\ SubSeq(data, 1, 0) = <<>> /\ 0 * M = 0
      BY <1>1, SubSeqEmpty
    <3>2. Of(t, SubSeq(F, 1, 0)) = <<>>
      BY <3>1, OfEmpty, Zenon
    <3>3. Own(t, SubSeq(data, 1, 0 * M)) = <<>>
      BY <3>1, Zenon
    <3>4. Of(t, SubSeq(F, 1, 0)) = Own(t, SubSeq(data, 1, 0 * M))
      BY <3>2, <3>3, Zenon
    <3>5. 0 \in 0 .. full
      BY <1>2
    <3> QED  BY <3>4, <3>5, Zenon
  <2>2. ASSUME NEW k \in 0 .. full, k \in T /\ k < full PROVE k + 1 \in T
    <3>1. k \in Nat /\ k < full /\ k + 1 \in 1 .. full /\ k + 1 \in 0 .. full
      BY <1>2, <2>2
    <3>2. Of(t, SubSeq(F, 1, k + 1)) = Of(t, SubSeq(F, 1, k)) \o Part(t, F[k + 1])
      BY <1>6, <3>1, OfNext
    <3>3. Part(t, F[k + 1]) = Own(t, Bytes(k + 1))
      <4>1. F[k + 1] = [tag |-> tag, len |-> M, bytes |-> Bytes(k + 1)]
        BY <1>6, <3>1
      <4>2. F[k + 1].tag = tag /\ F[k + 1].bytes = Bytes(k + 1)
        BY <4>1
      <4> QED  BY <4>2, Zenon DEF Part
    <3>4. Of(t, SubSeq(F, 1, k)) = Own(t, SubSeq(data, 1, k * M))
      BY <2>2
    <3>5. SubSeq(data, 1, k * M) \o Bytes(k + 1) = SubSeq(data, 1, (k + 1) * M)
      BY <1>4, <3>1
    <3>6. <<>> \o <<>> = <<>>
      OBVIOUS
    <3>7. Of(t, SubSeq(F, 1, k + 1)) = Own(t, SubSeq(data, 1, (k + 1) * M))
      BY <3>2, <3>3, <3>4, <3>5, <3>6, Zenon
    <3> QED  BY <3>1, <3>7
  <2> HIDE DEF T
  <2>3. \A k \in 0 .. full : k \in T
    BY <1>2, <2>1, <2>2, NumbersUpTo
  <2>4. full \in 0 .. full
    BY <1>2
  <2>5. Of(t, SubSeq(F, 1, full)) = Own(t, SubSeq(data, 1, full * M))
    BY <2>3, <2>4 DEF T
  <2>6. SubSeq(F, 1, full) = F
    BY <1>6, SubSeqFull
  <2>7. Of(t, one) = Own(t, last)
    <3>1. Of(t, one) = Part(t, l)
      <4> HIDE DEF l
      <4> QED  BY <1>9, OfOne
    <3>2. l.tag = tag /\ l.bytes = last
      OBVIOUS
    <3> QED  BY <3>1, <3>2, Zenon DEF Part
  <2>8. Of(t, F \o one) = Of(t, F) \o Of(t, one)
    <3> HIDE DEF one
    <3> QED  BY <1>6, <1>9, OfConcat
  <2>9. <<>> \o <<>> = <<>>
    OBVIOUS
  <2> QED  BY <1>8, <2>5, <2>6, <2>7, <2>8, <2>9, Zenon
<1>11. F \o one \in Seq(Piece(X))
  <2> HIDE DEF one
  <2> QED  BY <1>6, <1>9, ConcatProperties
<1> QED  BY <1>0, <1>10, <1>11, Zenon

(* An item of a message: a tag and a value. *)
Item(X) == [tag : Tags, data : Seq(X)]

\* What encode makes of an item, what decode is to find in it for a tag.
Encoded(item) == TLV!EncodeItem(item.tag, item.data)
Value(t, item) == IF item.tag = t THEN item.data ELSE <<>>

(* The fragments of one item hold its value and nothing for other tags. *)
LEMMA ItemPieces ==
  ASSUME NEW X, NEW item \in Item(X), MaxFragment \in Nat \ {0}, ~ TLV!LongMultiple(item)
  PROVE  /\ Encoded(item) \in Seq(Piece(X))
         /\ \A t \in Tags : Of(t, Encoded(item)) = Value(t, item) /\ Value(t, item) \in Seq(X)
<1> DEFINE tag == item.tag
           data == item.data
<1>1. tag \in Tags /\ data \in Seq(X) /\ Len(data) \in Nat /\ <<>> \in Seq(X)
  BY LenProperties, EmptySeq DEF Item
<1>2. ~ (Len(data) > MaxFragment /\ Len(data) % MaxFragment = 0)
  BY DEF TLV!LongMultiple
<1>3. \A t \in Tags : Value(t, item) = IF tag = t THEN data ELSE <<>>
  BY Zenon DEF Value
<1>4. Encoded(item) = TLV!EncodeItem(tag, data)
  BY Zenon DEF Encoded
<1> HIDE DEF tag, data
<1>5. CASE Len(data) <= MaxFragment
  <2> DEFINE f == [tag |-> tag, len |-> Len(data), bytes |-> data]
             one == <<f>>
  <2>1. f \in Piece(X)
    BY <1>1 DEF Piece
  <2>2. TLV!EncodeItem(tag, data) = one
    BY <1>5, Zenon DEF TLV!EncodeItem, TLV!Fragment
  <2>3. f.tag = tag /\ f.bytes = data
    OBVIOUS
  <2>4. \A t \in Tags : Part(t, f) = IF tag = t THEN data ELSE <<>>
    BY <2>3, Zenon DEF Part
  <2> HIDE DEF f
  <2>5. one \in Seq(Piece(X)) /\ \A t \in Tags : Of(t, one) = Part(t, f)
    BY <2>1, OfOne
  <2> HIDE DEF one
  <2> QED  BY <1>1, <1>3, <1>4, <2>2, <2>4, <2>5
<1>6. CASE ~ (Len(data) <= MaxFragment)
  <2>1. Len(data) % MaxFragment # 0
    BY <1>1, <1>2, <1>6
  <2>2. TLV!EncodeItem(tag, data) = TLV!EncodeLong(tag, data)
    BY <1>6, Zenon DEF TLV!EncodeItem
  <2>3. /\ TLV!EncodeLong(tag, data) \in Seq(Piece(X))
        /\ \A t \in Tags : Of(t, TLV!EncodeLong(tag, data)) = IF tag = t THEN data ELSE <<>>
    BY <1>1, <2>1, LongPieces
  <2> QED  BY <1>1, <1>3, <1>4, <2>2, <2>3
<1> QED  BY <1>5, <1>6

(* The fragments of a message hold, for each tag, its values in their order. *)
LEMMA MessagePieces ==
  ASSUME NEW X, NEW msg \in Seq(Item(X)), MaxFragment \in Nat \ {0},
         \A i \in 1 .. Len(msg) : ~ TLV!LongMultiple(msg[i])
  PROVE  /\ TLV!Encode(msg) \in Seq(Piece(X))
         /\ \A t \in Tags :
              Of(t, TLV!Encode(msg)) = Flat([i \in 1 .. Len(msg) |-> Value(t, msg[i])])
<1> DEFINE P == Piece(X)
           Y == Seq(P)
           n == Len(msg)
           enc == [i \in 1 .. n |-> Encoded(msg[i])]
<1>1. n \in Nat /\ \A i \in 1 .. n : msg[i] \in Item(X)
  BY LenProperties, ElementOfSeq
<1>2. ASSUME NEW i \in 1 .. n
      PROVE  /\ Encoded(msg[i]) \in Y
             /\ \A t \in Tags : Of(t, Encoded(msg[i])) = Value(t, msg[i])
                  /\ Value(t, msg[i]) \in Seq(X)
  BY <1>1, ItemPieces
<1>3. TLV!Encode(msg) = Flat(enc)
  BY Zenon DEF TLV!Encode, Flat, Encoded
<1> HIDE DEF n
<1>4. enc \in Seq(Y) /\ Len(enc) = n /\ \A i \in 1 .. n : enc[i] = Encoded(msg[i])
  <2> HIDE DEF Y
  <2> QED  BY <1>1, <1>2
<1> HIDE DEF enc
<1>5. Flat(enc) \in Seq(P)
  BY <1>4, FlatType
<1>6. ASSUME NEW t \in Tags
      PROVE  Of(t, Flat(enc)) = Flat([i \in 1 .. n |-> Value(t, msg[i])])
  <2> DEFINE Z == Seq(X)
             vals == [i \in 1 .. n |-> Value(t, msg[i])]
             T == {k \in 0 .. n : Of(t, Flat(SubSeq(enc, 1, k))) = Flat(SubSeq(vals, 1, k))}
  <2>1. vals \in Seq(Z) /\ Len(vals) = n /\ \A i \in 1 .. n : vals[i] = Value(t, msg[i])
    <3>1. \A i \in 1 .. n : Value(t, msg[i]) \in Z
      BY <1>2
    <3> HIDE DEF Z
    <3> QED  BY <1>1, <3>1
  <2> HIDE DEF vals
  <2>2. 0 \in T
    <3>1. SubSeq(enc, 1, 0) = <<>> /\ SubSeq(vals, 1, 0) = <<>>
      BY SubSeqEmpty
    <3>2. Of(t, Flat(SubSeq(enc, 1, 0))) = Flat(SubSeq(vals, 1, 0))
      BY <3>1, FlatEmpty, OfEmpty, Zenon
    <3>3. 0 \in 0 .. n
      BY <1>1
    <3> QED  BY <3>2, <3>3, Zenon
  <2>3. ASSUME NEW k \in 0 .. n, k \in T /\ k < n PROVE k + 1 \in T
    <3> DEFINE p == SubSeq(enc, 1, k)
               e == Encoded(msg[k + 1])
               q == SubSeq(vals, 1, k)
               v == Value(t, msg[k + 1])
    <3>1. k + 1 \in 1 .. n /\ k + 1 \in 0 .. n
      BY <1>1, <2>3
    <3>2. enc[k + 1] = e /\ vals[k + 1] = v /\ Of(t, e) = v /\ e \in Y /\ v \in Z
      BY <1>2, <1>4, <2>1, <3>1
    <3>3. Of(t, Flat(p)) = Flat(q)
      BY <2>3
    <3> HIDE DEF e, v
    <3>4. p \in Seq(Y) /\ SubSeq(enc, 1, k + 1) = Append(p, e)
      <4> HIDE DEF Y
      <4> QED  BY <1>4, <2>3, <3>2, Firsts
    <3>5. q \in Seq(Z) /\ SubSeq(vals, 1, k + 1) = Append(q, v)
      <4> HIDE DEF Z
      <4> QED  BY <2>1, <2>3, <3>2, Firsts
    <3> HIDE DEF p, q
    <3>6. Flat(Append(p, e)) = Flat(p) \o e /\ Flat(p) \in Y
      <4> HIDE DEF P
      <4> QED  BY <3>2, <3>4, FlatAppend, FlatType
    <3>7. Flat(Append(q, v)) = Flat(q) \o v
      BY <3>2, <3>5, FlatAppend
    <3>8. Of(t, Flat(p) \o e) = Of(t, Flat(p)) \o Of(t, e)
      <4> DEFINE fp == Flat(p)
      <4>1. fp \in Seq(Piece(X)) /\ e \in Seq(Piece(X))
        BY <3>2, <3>6
      <4> HIDE DEF fp
      <4>2. Of(t, fp \o e) = Of(t, fp) \o Of(t, e)
        BY <4>1, OfConcat
      <4> QED  BY <4>2 DEF fp
    <3>9. Of(t, Flat(SubSeq(enc, 1, k + 1))) = Flat(SubSeq(vals, 1, k + 1))
      BY <3>2, <3>3, <3>4, <3>5, <3>6, <3>7, <3>8, Zenon
    <3> QED  BY <3>1, <3>9, Zenon
  <2> HIDE DEF T
  <2>4. \A k \in 0 .. n : k \in T
    BY <1>1, <2>2, <2>3, NumbersUpTo
  <2>5. n \in 0 .. n
    BY <1>1
  <2>6. Of(t, Flat(SubSeq(enc, 1, n))) = Flat(SubSeq(vals, 1, n))
    BY <2>4, <2>5 DEF T
  <2>7. SubSeq(enc, 1, n) = enc
    <3> HIDE DEF Y
    <3> QED  BY <1>4, SubSeqFull
  <2>8. SubSeq(vals, 1, n) = vals
    <3> HIDE DEF Z
    <3> QED  BY <2>1, SubSeqFull
  <2> QED  BY <2>6, <2>7, <2>8, Zenon DEF vals
<1> QED  BY <1>3, <1>5, <1>6, Zenon DEF n

(* The bytes that are numbered, and the state of TLV8. *)
NumberedBytes == {<<"byte", i, b>> : i \in Nat, b \in Nat}
MessageOK == items \in Seq(Item(NumberedBytes))

(* Messages keep their form. *)
LEMMA MessageInit == TLV!Init => MessageOK
  BY DEF TLV!Init, MessageOK

LEMMA MessageStep == ASSUME TLV!Parameters, MessageOK, [TLV!Next]_items PROVE MessageOK'
<1>1. CASE UNCHANGED items
  BY <1>1 DEF MessageOK
<1>2. ASSUME NEW tag \in Tags, NEW len \in ValueLengths, TLV!AddItem(tag, len) PROVE MessageOK'
  <2> DEFINE n == Len(items) + 1
             data == TLV!Bytes(n, len)
             I == Item(NumberedBytes)
             item == [tag |-> tag, data |-> data]
  <2>1. len \in Nat /\ n \in Nat
    BY LenProperties DEF TLV!Parameters, MessageOK
  <2> HIDE DEF n
  <2>2. data \in Seq(NumberedBytes)
    <3>1. \A b \in 1 .. len : <<"byte", n, b>> \in NumberedBytes
      BY <2>1 DEF NumberedBytes
    <3>2. data = [b \in 1 .. len |-> <<"byte", n, b>>]
      BY Zenon DEF TLV!Bytes
    <3> HIDE DEF data
    <3> QED  BY <2>1, <3>1, <3>2
  <2> HIDE DEF data
  <2>3. item \in I
    BY <2>2 DEF Item
  <2>4. items' = Append(items, item)
    BY <1>2 DEF TLV!AddItem, n, data
  <2> HIDE DEF I, item
  <2>5. items \in Seq(I)
    BY DEF MessageOK, I
  <2>6. Append(items, item) \in Seq(I)
    BY <2>3, <2>5, AppendProperties
  <2> QED  BY <2>4, <2>6 DEF MessageOK, I
<1> QED  BY <1>1, <1>2 DEF TLV!Next

(* Every message of that form without a value of several full fragments comes back. *)
LEMMA MessageComesBack == ASSUME TLV!Parameters, MessageOK PROVE RoundTripWithRest
<1> SUFFICES ASSUME \A i \in 1 .. Len(items) : ~ TLV!LongMultiple(items[i])
             PROVE  TLV!ComesBack
  BY DEF RoundTripWithRest, TLV!RoundTripWithRest
<1> DEFINE X == NumberedBytes
           fs == TLV!Encode(items)
<1>1. MaxFragment \in Nat \ {0} /\ items \in Seq(Item(X))
  BY DEF TLV!Parameters, MessageOK
<1> HIDE DEF X
<1>2. fs \in Seq(Piece(X))
      /\ \A t \in Tags : Of(t, fs) = Flat([i \in 1 .. Len(items) |-> Value(t, items[i])])
  BY <1>1, MessagePieces
<1> HIDE DEF fs
<1>3. /\ TLV!WellFormed(TLV!Wire(fs))
      /\ \A t \in Tags : TLV!Decode(TLV!Wire(fs))[t] = Of(t, fs)
  BY <1>2, DecodeWire
<1>4. \A t \in Tags : TLV!ValuesOf(t) = Flat([i \in 1 .. Len(items) |-> Value(t, items[i])])
  BY Zenon DEF TLV!ValuesOf, Flat, Value
<1> QED  BY <1>2, <1>3, <1>4, Zenon DEF TLV!ComesBack, fs

(* RoundTripWithRest (tlv.py encode, decode): for any tags, any length of a *)
(* fragment and any items with values of any lengths, decode finds in the   *)
(* encoded message what was encoded, unless a value is several full         *)
(* fragments long.                                                          *)
THEOREM PairingMessagesComeBack ==
  ASSUME TLV!Parameters PROVE TLV!Spec => []RoundTripWithRest
<1>1. TLV!Init => MessageOK
  BY MessageInit
<1>2. MessageOK /\ [TLV!Next]_items => MessageOK'
  BY MessageStep
<1>3. MessageOK => RoundTripWithRest
  BY MessageComesBack
<1> QED  BY <1>1, <1>2, <1>3, PTL DEF TLV!Spec

----------------------------------------------------------------------------
(* Messages of HomeKit Data Stream.  A function defined by recursion is     *)
(* known once there is one of that kind, and there is: Power and Unsigned   *)
(* of any width, and DecodeItems, turn by turn.                             *)

Powers(g, n) == g = [w \in 0 .. n |-> IF w = 0 THEN 1 ELSE Byte * g[w - 1]]

LEMMA PowersExist == \A n \in Nat : \E g : Powers(g, n)
<1> DEFINE T == {n \in Nat : \E g : Powers(g, n)}
<1>1. 0 \in T
  <2> DEFINE g == [w \in 0 .. 0 |-> 1]
  <2>1. \A w \in 0 .. 0 : w = 0
    OBVIOUS
  <2>2. g = [w \in 0 .. 0 |-> IF w = 0 THEN 1 ELSE Byte * g[w - 1]]
    BY <2>1
  <2> QED  BY <2>2 DEF Powers
<1>2. ASSUME NEW n \in Nat, n \in T PROVE n + 1 \in T
  <2>1. PICK g : Powers(g, n)
    BY <1>2
  <2> DEFINE h == [w \in 0 .. n + 1 |-> IF w = 0 THEN 1 ELSE Byte * g[w - 1]]
  <2>2. \A w \in 0 .. n : h[w] = g[w]
    <3> SUFFICES ASSUME NEW w \in 0 .. n PROVE h[w] = g[w]
      OBVIOUS
    <3>1. h[w] = IF w = 0 THEN 1 ELSE Byte * g[w - 1]
      OBVIOUS
    <3>2. g[w] = IF w = 0 THEN 1 ELSE Byte * g[w - 1]
      BY <2>1, Zenon DEF Powers
    <3> QED  BY <3>1, <3>2
  <2>3. \A w \in 0 .. n + 1 : h[w] = IF w = 0 THEN 1 ELSE Byte * h[w - 1]
    <3> SUFFICES ASSUME NEW w \in 0 .. n + 1
                 PROVE  h[w] = IF w = 0 THEN 1 ELSE Byte * h[w - 1]
      OBVIOUS
    <3>1. h[w] = IF w = 0 THEN 1 ELSE Byte * g[w - 1]
      OBVIOUS
    <3> HIDE DEF h
    <3>2. w # 0 => w - 1 \in 0 .. n
      OBVIOUS
    <3>3. w # 0 => h[w - 1] = g[w - 1]
      BY <2>2, <3>2
    <3> QED  BY <3>1, <3>3
  <2>4. h = [w \in 0 .. n + 1 |-> IF w = 0 THEN 1 ELSE Byte * h[w - 1]]
    BY <2>3
  <2> HIDE DEF h
  <2> QED  BY <2>4 DEF Powers
<1> HIDE DEF T
<1>3. \A n \in Nat : n \in T
  BY <1>1, <1>2, NumbersFollow
<1> QED  BY <1>3 DEF T

(* Each width has Byte times the numbers of the one before it. *)
LEMMA PowerIs ==
  ASSUME Byte \in Nat \ {0, 1}
  PROVE  /\ Data!Power[0] = 1
         /\ \A w \in 0 .. 8 : Data!Power[w] \in Nat \ {0}
         /\ \A w \in 0 .. 7 : Data!Power[w + 1] = Byte * Data!Power[w]
<1>1. \E g : g = [w \in 0 .. 8 |-> IF w = 0 THEN 1 ELSE Byte * g[w - 1]]
  BY PowersExist DEF Powers
<1>2. Data!Power = [w \in 0 .. 8 |-> IF w = 0 THEN 1 ELSE Byte * Data!Power[w - 1]]
  BY <1>1, Zenon DEF Data!Power
<1>3. \A w \in 0 .. 8 : Data!Power[w] = IF w = 0 THEN 1 ELSE Byte * Data!Power[w - 1]
  BY <1>2, Zenon
<1>4. Data!Power[0] = 1
  BY <1>3
<1>5. \A w \in 0 .. 7 : Data!Power[w + 1] = Byte * Data!Power[w]
  <2> SUFFICES ASSUME NEW w \in 0 .. 7 PROVE Data!Power[w + 1] = Byte * Data!Power[w]
    OBVIOUS
  <2>1. w + 1 \in 0 .. 8 /\ w + 1 # 0 /\ w + 1 - 1 = w
    OBVIOUS
  <2> QED  BY <1>3, <2>1
<1> DEFINE T == {w \in 0 .. 8 : Data!Power[w] \in Nat \ {0}}
<1>6. 0 \in T
  BY <1>4
<1>7. ASSUME NEW w \in 0 .. 8, w \in T /\ w < 8 PROVE w + 1 \in T
  <2>1. w \in 0 .. 7 /\ w + 1 \in 0 .. 8 /\ Data!Power[w] \in Nat \ {0}
    BY <1>7
  <2>2. Data!Power[w + 1] = Byte * Data!Power[w]
    BY <1>5, <2>1
  <2>3. ASSUME NEW x \in Nat \ {0}, NEW y \in Nat \ {0} PROVE x * y \in Nat \ {0}
    OBVIOUS
  <2>4. Byte * Data!Power[w] \in Nat \ {0}
    BY <2>1, <2>3
  <2> QED  BY <2>1, <2>2, <2>4
<1> HIDE DEF T
<1>8. \A w \in 0 .. 8 : w \in T
  <2>1. 8 \in Nat
    OBVIOUS
  <2> QED  BY <2>1, <1>6, <1>7, NumbersUpTo
<1> QED  BY <1>4, <1>5, <1>8 DEF T

(* A digit more is the remainder of one width more. *)
LEMMA DigitMore ==
  ASSUME NEW n \in Int, NEW a \in Nat \ {0}, NEW b \in Nat \ {0}
  PROVE  n % (b * a) = (n % a) + (((n \div a) % b) * a)
<1> DEFINE q == n \div a
           r == n % a
           q2 == q \div b
           r2 == q % b
<1>1. q \in Int /\ r \in 0 .. a - 1 /\ n = (a * q) + r
  OBVIOUS
<1>2. q2 \in Int /\ r2 \in 0 .. b - 1 /\ q = (b * q2) + r2
  BY <1>1
<1> HIDE DEF q, r, q2, r2
<1>3. n = ((b * a) * q2) + (r + (r2 * a))
  <2>1. a * q = (a * (b * q2)) + (a * r2)
    BY <1>1, <1>2
  <2>2. a * (b * q2) = (b * a) * q2 /\ a * r2 = r2 * a
    BY <1>2
  <2>3. (b * a) * q2 \in Int /\ r2 * a \in Int
    BY <1>2
  <2> QED  BY <1>1, <1>2, <2>1, <2>2, <2>3
<1>4. r + (r2 * a) \in 0 .. (b * a) - 1 /\ b * a \in Nat \ {0}
  <2>1. r2 * a <= (b - 1) * a /\ r2 * a \in Nat /\ (b - 1) * a = (b * a) - a
          /\ b * a \in Nat \ {0}
    <3>1. r2 * a \in Nat /\ (b - 1) * a = (b * a) - a
      BY <1>2
    <3>2. (b - 1 - r2) * a \in Nat
      <4>1. b - 1 - r2 \in Nat
        BY <1>2
      <4> QED  BY <4>1
    <3>3. (b - 1) * a = (r2 * a) + ((b - 1 - r2) * a)
      BY <1>2
    <3>4. (b - 1) * a \in Nat /\ r2 * a <= (b - 1) * a
      BY <3>1, <3>2, <3>3
    <3>5. b * a \in Nat \ {0}
      OBVIOUS
    <3> QED  BY <3>1, <3>4, <3>5
  <2> QED  BY <1>1, <2>1
<1>5. n % (b * a) = r + (r2 * a)
  <2> DEFINE m == b * a
             x == r + (r2 * a)
  <2>1. n = (m * q2) + x /\ x \in 0 .. m - 1 /\ m \in Nat \ {0} /\ q2 \in Int
    BY <1>2, <1>3, <1>4
  <2> HIDE DEF m, x
  <2>2. n % m = x
    BY <2>1, DivUnique
  <2> QED  BY <2>2 DEF m, x
<1> QED  BY <1>5 DEF r, r2, q

Sums(g, b, n) == g = [i \in 0 .. n |-> IF i = 0
  THEN 0 ELSE g[i - 1] + b[i][2] * Data!Power[i - 1]]

LEMMA SumsExist == ASSUME NEW b PROVE \A n \in Nat : \E g : Sums(g, b, n)
<1> DEFINE T == {n \in Nat : \E g : Sums(g, b, n)}
<1>1. 0 \in T
  <2> DEFINE g == [i \in 0 .. 0 |-> 0]
  <2>1. \A i \in 0 .. 0 : i = 0
    OBVIOUS
  <2>2. g = [i \in 0 .. 0 |-> IF i = 0 THEN 0 ELSE g[i - 1] + b[i][2] * Data!Power[i - 1]]
    BY <2>1
  <2> QED  BY <2>2 DEF Sums
<1>2. ASSUME NEW n \in Nat, n \in T PROVE n + 1 \in T
  <2>1. PICK g : Sums(g, b, n)
    BY <1>2
  <2> DEFINE h == [i \in 0 .. n + 1 |-> IF i = 0
               THEN 0 ELSE g[i - 1] + b[i][2] * Data!Power[i - 1]]
  <2>2. \A i \in 0 .. n : h[i] = g[i]
    <3> SUFFICES ASSUME NEW i \in 0 .. n PROVE h[i] = g[i]
      OBVIOUS
    <3>1. h[i] = IF i = 0 THEN 0 ELSE g[i - 1] + b[i][2] * Data!Power[i - 1]
      OBVIOUS
    <3>2. g[i] = IF i = 0 THEN 0 ELSE g[i - 1] + b[i][2] * Data!Power[i - 1]
      BY <2>1, Zenon DEF Sums
    <3> QED  BY <3>1, <3>2
  <2>3. \A i \in 0 .. n + 1 : h[i] = IF i = 0 THEN 0 ELSE h[i - 1] + b[i][2] * Data!Power[i - 1]
    <3> SUFFICES ASSUME NEW i \in 0 .. n + 1
                 PROVE  h[i] = IF i = 0 THEN 0 ELSE h[i - 1] + b[i][2] * Data!Power[i - 1]
      OBVIOUS
    <3>1. h[i] = IF i = 0 THEN 0 ELSE g[i - 1] + b[i][2] * Data!Power[i - 1]
      OBVIOUS
    <3> HIDE DEF h
    <3>2. i # 0 => i - 1 \in 0 .. n
      OBVIOUS
    <3>3. i # 0 => h[i - 1] = g[i - 1]
      BY <2>2, <3>2
    <3> QED  BY <3>1, <3>3
  <2>4. h = [i \in 0 .. n + 1 |-> IF i = 0 THEN 0 ELSE h[i - 1] + b[i][2] * Data!Power[i - 1]]
    BY <2>3
  <2> HIDE DEF h
  <2> QED  BY <2>4 DEF Sums
<1> HIDE DEF T
<1>3. \A n \in Nat : n \in T
  BY <1>1, <1>2, NumbersFollow
<1> QED  BY <1>3 DEF T

LEMMA UnsignedIs ==
  ASSUME NEW b, Len(b) \in Nat
  PROVE  \E g : Sums(g, b, Len(b)) /\ Data!Unsigned(b) = g[Len(b)]
<1> DEFINE f[i \in 0 .. Len(b)] == IF i = 0 THEN 0 ELSE f[i - 1] + b[i][2] * Data!Power[i - 1]
<1>1. \E g : g = [i \in 0 .. Len(b) |-> IF i = 0
        THEN 0 ELSE g[i - 1] + b[i][2] * Data!Power[i - 1]]
  BY SumsExist DEF Sums
<1>2. f = [i \in 0 .. Len(b) |-> IF i = 0 THEN 0 ELSE f[i - 1] + b[i][2] * Data!Power[i - 1]]
  BY <1>1, Zenon DEF f
<1>3. Data!Unsigned(b) = f[Len(b)]
  BY Zenon DEF Data!Unsigned, f
<1> QED  BY <1>2, <1>3, Zenon DEF Sums

(* The bytes of an integer. *)
IntByte == {<<"byte", n>> : n \in Nat}

LEMMA DigitsAre ==
  ASSUME Byte \in Nat \ {0, 1}, NEW n \in Int, NEW w \in 0 .. 8
  PROVE  /\ Data!Digits(n, w) \in Seq(IntByte) /\ Len(Data!Digits(n, w)) = w
         /\ \A i \in 1 .. w : Data!Digits(n, w)[i][2] = (n \div Data!Power[i - 1]) % Byte
<1>1. ASSUME NEW i \in 1 .. w PROVE <<"byte", (n \div Data!Power[i - 1]) % Byte>> \in IntByte
  <2> DEFINE p == Data!Power[i - 1]
  <2>1. p \in Nat \ {0}
    <3>1. i - 1 \in 0 .. 8
      OBVIOUS
    <3> QED  BY <3>1, PowerIs
  <2> HIDE DEF p
  <2>2. n \div p \in Int
    BY <2>1
  <2> DEFINE q == n \div p
  <2> HIDE DEF q
  <2>3. q % Byte \in Nat
    BY <2>2 DEF q
  <2> QED  BY <2>3 DEF IntByte, q, p
<1> DEFINE D(i) == <<"byte", (n \div Data!Power[i - 1]) % Byte>>
<1>2. Data!Digits(n, w) = [i \in 1 .. w |-> D(i)]
  BY Zenon DEF Data!Digits
<1>3. \A i \in 1 .. w : D(i)[2] = (n \div Data!Power[i - 1]) % Byte
  OBVIOUS
<1>4. \A i \in 1 .. w : D(i) \in IntByte
  BY <1>1
<1> HIDE DEF D
<1>5. [i \in 1 .. w |-> D(i)] \in Seq(IntByte) /\ Len([i \in 1 .. w |-> D(i)]) = w
  BY <1>4
<1>6. \A i \in 1 .. w : Data!Digits(n, w)[i] = D(i)
  BY <1>2
<1> QED  BY <1>2, <1>3, <1>5, <1>6

(* What was packed is read, as far as the width goes. *)
LEMMA DigitsBack ==
  ASSUME Byte \in Nat \ {0, 1}, NEW n \in Int, NEW w \in 0 .. 8
  PROVE  Data!Unsigned(Data!Digits(n, w)) = n % Data!Power[w]
<1> DEFINE b == Data!Digits(n, w)
<1>1. Len(b) = w /\ \A i \in 1 .. w : b[i][2] = (n \div Data!Power[i - 1]) % Byte
  BY DigitsAre
<1> HIDE DEF b
<1>2. PICK g : Sums(g, b, w) /\ Data!Unsigned(b) = g[w]
  <2>1. PICK g : Sums(g, b, Len(b)) /\ Data!Unsigned(b) = g[Len(b)]
    BY <1>1, UnsignedIs
  <2> QED  BY <1>1, <2>1
<1>3. \A i \in 0 .. w : g[i] = IF i = 0 THEN 0 ELSE g[i - 1] + b[i][2] * Data!Power[i - 1]
  BY <1>2, Zenon DEF Sums
<1> DEFINE T == {i \in 0 .. w : g[i] = n % Data!Power[i]}
<1>4. 0 \in T
  <2>1. g[0] = 0 /\ Data!Power[0] = 1
    BY <1>3, PowerIs
  <2>2. n % 1 = 0
    OBVIOUS
  <2> QED  BY <2>1, <2>2
<1>5. ASSUME NEW i \in 0 .. w, i \in T /\ i < w PROVE i + 1 \in T
  <2> DEFINE p == Data!Power[i]
  <2>1. i \in 0 .. 7 /\ i \in 0 .. 8 /\ i + 1 \in 0 .. w /\ i + 1 \in 1 .. w /\ i + 1 # 0
          /\ i + 1 - 1 = i
    BY <1>5
  <2>2. p \in Nat \ {0} /\ Data!Power[i + 1] = Byte * p
    BY <2>1, PowerIs
  <2>3. g[i] = n % p
    BY <1>5
  <2>4. g[i + 1] = g[i] + b[i + 1][2] * p
    <3>1. g[i + 1] = IF i + 1 = 0 THEN 0 ELSE g[i + 1 - 1] + b[i + 1][2] * Data!Power[i + 1 - 1]
      BY <1>3, <2>1
    <3> QED  BY <2>1, <3>1
  <2>5. b[i + 1][2] = (n \div p) % Byte
    <3>1. b[i + 1][2] = (n \div Data!Power[i + 1 - 1]) % Byte
      BY <1>1, <2>1
    <3> QED  BY <2>1, <3>1
  <2> HIDE DEF p
  <2>6. n % (Byte * p) = (n % p) + (((n \div p) % Byte) * p)
    <3>1. Byte \in Nat \ {0}
      OBVIOUS
    <3> QED  BY <2>2, <3>1, DigitMore
  <2>7. g[i + 1] = n % Data!Power[i + 1]
    BY <2>2, <2>3, <2>4, <2>5, <2>6
  <2> QED  BY <2>1, <2>7
<1> HIDE DEF T
<1>6. \A i \in 0 .. w : i \in T
  <2>1. w \in Nat
    OBVIOUS
  <2> QED  BY <2>1, <1>4, <1>5, NumbersUpTo
<1>7. w \in 0 .. w
  OBVIOUS
<1>8. g[w] = n % Data!Power[w]
  BY <1>6, <1>7 DEF T
<1> QED  BY <1>2, <1>8 DEF b

LEMMA UnsignedBack ==
  ASSUME Byte \in Nat \ {0, 1}, NEW n \in Nat, NEW w \in 0 .. 8, n < Data!Power[w]
  PROVE  Data!Unsigned(Data!Digits(n, w)) = n
<1> DEFINE p == Data!Power[w]
<1>1. Data!Unsigned(Data!Digits(n, w)) = n % p
  BY DigitsBack
<1>2. p \in Nat \ {0} /\ n < p
  BY PowerIs
<1> HIDE DEF p
<1>3. n % p = n
  BY <1>2
<1> QED  BY <1>1, <1>3

LEMMA SignedBack ==
  ASSUME Byte \in Nat \ {0, 1}, NEW n \in Int, NEW w \in 0 .. 8, Data!Fits(n, w)
  PROVE  Data!Signed(Data!Digits(n, w)) = n
<1> DEFINE p == Data!Power[w]
           m == Data!Unsigned(Data!Digits(n, w))
<1>1. m = n % p /\ Len(Data!Digits(n, w)) = w
  BY DigitsBack, DigitsAre
<1>2. p \in Nat \ {0}
  BY PowerIs
<1>3. -p <= 2 * n /\ 2 * n < p
  BY DEF Data!Fits
<1>4. Data!Signed(Data!Digits(n, w)) = IF 2 * m < p THEN m ELSE m - p
  BY <1>1, Zenon DEF Data!Signed
<1> HIDE DEF p, m
<1>5. CASE n >= 0
  <2>1. n = (p * 0) + n /\ n \in 0 .. p - 1 /\ 0 \in Int
    BY <1>2, <1>3, <1>5
  <2>2. n % p = n
    BY <1>2, <2>1, DivUnique
  <2> QED  BY <1>1, <1>3, <1>4, <2>2
<1>6. CASE n < 0
  <2>1. n = (p * (-1)) + (n + p) /\ n + p \in 0 .. p - 1 /\ -1 \in Int
    BY <1>2, <1>3, <1>6
  <2>2. n % p = n + p
    BY <1>2, <2>1, DivUnique
  <2>3. ~ (2 * (n + p) < p)
    BY <1>2, <1>3, <1>6
  <2> QED  BY <1>1, <1>2, <1>4, <2>2, <2>3
<1> QED  BY <1>5, <1>6

(* What _Decoder.decode does, by the tag it finds. *)
LEMMA DecodeByTag ==
  ASSUME NEW data, NEW from, NEW inside
  PROVE  /\ data[from][1] = "constant" =>
              Data!DecodeValue(data, from, inside) =
                Data!Found(Data!Value("constant", data[from][2]), from + 1)
         /\ data[from][1] = "minus_one" =>
              Data!DecodeValue(data, from, inside) = Data!Found(Data!Value("int", -1), from + 1)
         /\ data[from][1] = "inline_int" =>
              Data!DecodeValue(data, from, inside) =
                Data!Found(Data!Value("int", data[from][2]), from + 1)
         /\ data[from][1] = "int" =>
              Data!DecodeValue(data, from, inside) = Data!TakeInt(data, from + 1, data[from][2])
         /\ data[from][1] = "inline" /\ data[from][2] \in {"text", "data"} =>
              Data!DecodeValue(data, from, inside)
              = Data!TakeBytes(data, from + 1, data[from][2], data[from][3])
         /\ data[from][1] = "inline" /\ data[from][2] \in {"list", "dict"} =>
              Data!DecodeValue(data, from, inside) = Data!Contained(data[from][2], inside)
         /\ data[from][1] \in {"text", "data"} =>
              Data!DecodeValue(data, from, inside)
              = Data!TakePrefixed(data, from + 1, data[from][1], data[from][2])
         /\ data[from][1] = "terminated" =>
              Data!DecodeValue(data, from, inside) = Data!Contained(data[from][2], inside)
<1> DEFINE form == data[from][1]
           kind == data[from][2]
           V == Data!DecodeValue(data, from, inside)
           a == Data!Found(Data!Value("constant", data[from][2]), from + 1)
           b == Data!Found(Data!Value("int", -1), from + 1)
           c == Data!Found(Data!Value("int", data[from][2]), from + 1)
           d == Data!TakeInt(data, from + 1, data[from][2])
           e == Data!TakeBytes(data, from + 1, data[from][2], data[from][3])
           f == Data!Contained(data[from][2], inside)
           g == Data!TakePrefixed(data, from + 1, data[from][1], data[from][2])
<1>1. V = CASE form = "constant" -> a
            [] form = "minus_one" -> b
            [] form = "inline_int" -> c
            [] form = "int" -> d
            [] form = "inline" /\ kind \in {"text", "data"} -> e
            [] form = "inline" /\ kind \in {"list", "dict"} -> f
            [] form \in {"text", "data"} -> g
            [] form = "terminated" -> f
            [] OTHER -> Data!Nothing
  BY Zenon DEF Data!DecodeValue
<1> HIDE DEF V, a, b, c, d, e, f, g, form, kind
<1>2. form = "constant" => V = a
  BY <1>1
<1>3. form = "minus_one" => V = b
  BY <1>1
<1>4. form = "inline_int" => V = c
  BY <1>1
<1>5. form = "int" => V = d
  BY <1>1
<1>6. form = "inline" /\ kind \in {"text", "data"} => V = e
  BY <1>1
<1>7. form = "inline" /\ kind \in {"list", "dict"} => V = f
  BY <1>1
<1>8. form \in {"text", "data"} => V = g
  BY <1>1
<1>9. form = "terminated" => V = f
  BY <1>1
<1> QED  BY <1>2, <1>3, <1>4, <1>5, <1>6, <1>7, <1>8, <1>9, Zenon DEF V, a, b, c, d, e, f,
            g, form, kind

(* Bytes that would be there, were the payload not cut short. *)
Cut(data, from, b) ==
  /\ from <= Len(data) + 1 /\ Len(data) < from + Len(b) - 1
  /\ \A i \in 1 .. Len(b) : from + i - 1 <= Len(data) => data[from + i - 1] = b[i]

(* If two sequences are cut short, the first one or the second one is. *)
LEMMA CutConcat ==
  ASSUME NEW X, NEW data \in Seq(X), NEW from \in Nat, NEW a \in Seq(X), NEW b \in Seq(X),
         Cut(data, from, a \o b)
  PROVE  Cut(data, from, a) \/ (Lies(data, from, a) /\ Cut(data, from + Len(a), b))
<1> DEFINE c == a \o b
           n == Len(a)
           m == Len(b)
           L == Len(data)
<1>1. n \in Nat /\ m \in Nat /\ L \in Nat
  BY LenProperties
<1>2. Len(c) = n + m /\ \A i \in 1 .. n + m : c[i] = IF i <= n THEN a[i] ELSE b[i - n]
  BY ConcatProperties
<1> HIDE DEF n, m, L, c
<1>3. from <= L + 1 /\ L < from + (n + m) - 1
  BY <1>2 DEF Cut, c, L
<1>0. \A i \in 1 .. n + m : from + i - 1 <= L => data[from + i - 1] = c[i]
  BY <1>2 DEF Cut, c, L
<1>4. ASSUME NEW i \in 1 .. n, from + i - 1 <= L PROVE data[from + i - 1] = a[i]
  <2>1. i \in 1 .. n + m /\ i <= n
    BY <1>1
  <2> QED  BY <2>1, <1>2, <1>0, <1>4
<1>5. ASSUME NEW i \in 1 .. m, from + n + i - 1 <= L PROVE data[from + n + i - 1] = b[i]
  <2>1. n + i \in 1 .. n + m /\ ~ (n + i <= n) /\ (n + i) - n = i
          /\ from + (n + i) - 1 = from + n + i - 1
    BY <1>1
  <2>2. c[n + i] = b[i]
    <3> DEFINE j == n + i
    <3>1. j \in 1 .. n + m /\ ~ (j <= n) /\ j - n = i
      BY <2>1
    <3>2. c[n + i] = c[j]
      OBVIOUS
    <3> HIDE DEF j
    <3>3. c[j] = IF j <= n THEN a[j] ELSE b[j - n]
      BY <3>1, <1>2
    <3>4. c[j] = b[j - n]
      BY <3>1, <3>3
    <3> QED  BY <3>1, <3>2, <3>4
  <2>3. data[from + (n + i) - 1] = c[n + i]
    BY <2>1, <1>0, <1>5
  <2> QED  BY <2>1, <2>2, <2>3
<1>6. CASE from + n - 1 > L
  <2>1. L < from + n - 1
    BY <1>1, <1>6
  <2> QED  BY <1>3, <1>4, <2>1 DEF Cut, n, L
<1>7. CASE from + n - 1 <= L
  <2>1. ASSUME NEW i \in 1 .. n PROVE data[from + i - 1] = a[i]
    <3>1. from + i - 1 <= L
      BY <1>1, <1>7
    <3> QED  BY <3>1, <1>4
  <2>2. Lies(data, from, a)
    BY <1>7, <2>1 DEF Lies, n, L
  <2>3. from + n <= L + 1 /\ L < from + n + m - 1
    BY <1>1, <1>3, <1>7
  <2>4. Cut(data, from + n, b)
    BY <1>5, <2>3 DEF Cut, m, L
  <2> QED  BY <2>2, <2>4 DEF n
<1>8. from + n - 1 > L \/ from + n - 1 <= L
  BY <1>1
<1> QED  BY <1>6, <1>7, <1>8

LEMMA CutNotTaken ==
  ASSUME NEW X, NEW data \in Seq(X), NEW from \in Nat, NEW b \in Seq(X), Cut(data, from, b)
  PROVE  ~ Data!HasBytes(data, from, Len(b))
<1>1. Len(data) \in Nat /\ Len(b) \in Nat
  BY LenProperties
<1>2. Len(data) < from + Len(b) - 1
  BY DEF Cut
<1> QED  BY <1>1, <1>2 DEF Data!HasBytes

(* A byte that is there, and bytes behind it. *)
LEMMA LiesOne ==
  ASSUME NEW data, NEW from \in Nat, NEW x, Lies(data, from, <<x>>)
  PROVE  data[from] = x
<1>1. Len(<<x>>) = 1 /\ <<x>>[1] = x /\ 1 \in 1 .. 1 /\ from + 1 - 1 = from
  OBVIOUS
<1> QED  BY <1>1 DEF Lies

LEMMA CutFirst ==
  ASSUME NEW data, NEW from \in Nat,
         NEW b, Cut(data, from, b), from <= Len(data), Len(data) \in Nat,
         Len(b) \in Nat
  PROVE  data[from] = b[1] /\ Len(b) # 1
<1>1. Len(data) < from + Len(b) - 1
  BY DEF Cut
<1>2. 1 \in 1 .. Len(b) /\ from + 1 - 1 = from /\ Len(b) # 1
  BY <1>1, SMTT(30)
<1>3. \A i \in 1 .. Len(b) : from + i - 1 <= Len(data) => data[from + i - 1] = b[i]
  BY DEF Cut
<1>4. from + 1 - 1 <= Len(data) => data[from + 1 - 1] = b[1]
  BY <1>2, <1>3
<1> QED  BY <1>2, <1>4

(* The bytes of the format, and what is a tag in them. *)
Names == {"byte", "opaque", "constant", "minus_one", "inline_int", "int", "text", "data",
  "terminated", "terminator"}
Contents == Nat \cup {"true", "false", "null", "list", "dict"}
Kinds == {"text", "data", "list", "dict"}

DataByte == {<<form, x>> : form \in Names, x \in Contents}
  \cup {<<"inline", kind, n>> : kind \in Kinds, n \in Nat}

LEMMA HoldsInt == \A b \in DataByte : Data!Holds(b) \in Int
<1> SUFFICES ASSUME NEW b \in DataByte PROVE Data!Holds(b) \in Int
  OBVIOUS
<1>1. CASE b \in {<<form, x>> : form \in Names, x \in Contents}
  <2>1. b[1] \in Names
    BY <1>1
  <2>2. b[1] # "inline"
    BY <2>1 DEF Names
  <2>3. Data!Holds(b) = IF b[1] = "terminated" THEN Data!Until ELSE 0
    BY <2>2 DEF Data!Holds
  <2> QED  BY <2>3 DEF Data!Until
<1>2. CASE b \in {<<"inline", kind, n>> : kind \in Kinds, n \in Nat}
  <2>1. b[1] = "inline" /\ b[3] \in Nat
    BY <1>2
  <2>2. Data!Holds(b) \in {0, 2 * b[3], b[3]}
    BY <2>1 DEF Data!Holds
  <2> QED  BY <2>1, <2>2
<1> QED  BY <1>1, <1>2 DEF DataByte

(* One step of the decoder, given what it does in fewer turns. *)
First(data, g, d, f) == Data!DecodeValue(data, f, g[<<d - 1, Data!Holds(data[f]), f + 1>>])

Behind(g, d, c, x) == g[<<d - 1, IF c = Data!Until THEN Data!Until ELSE c - 1, x.next>>]

Step(data, g, d, c, f) ==
  IF c = 0 THEN Data!Found(<<>>, f)
  ELSE IF d = 0 \/ f > Len(data) THEN Data!Nothing
  ELSE IF c = Data!Until /\ data[f][1] = "terminator" THEN Data!Found(<<>>, f + 1)
  ELSE IF First(data, g, d, f).next \notin 1 .. Len(data) + 1 THEN Data!Nothing
  ELSE IF Behind(g, d, c, First(data, g, d, f)).next = 0 THEN Data!Nothing
  ELSE Data!Found(<<First(data, g, d, f).value>> \o Behind(g, d, c, First(data, g, d, f)).value,
                  Behind(g, d, c, First(data, g, d, f)).next)

Steps(g, data, n) ==
  g = [p \in (0 .. n) \X Int \X (1 .. Len(data) + 1) |-> Step(data, g, p[1], p[2], p[3])]

Agree(data, g, h, d) ==
  \A e \in Int, x \in 1 .. Len(data) + 1 : d # 0 => g[<<d - 1, e, x>>] = h[<<d - 1, e, x>>]

(* A step looks only at steps with a turn less. *)
LEMMA StepsAgree ==
  ASSUME NEW data \in Seq(DataByte), NEW g, NEW h, NEW d \in Nat, NEW c \in Int,
         NEW f \in 1 .. Len(data) + 1,
         Agree(data, g, h, d)
  PROVE  Step(data, g, d, c, f) = Step(data, h, d, c, f)
<1> DEFINE G == First(data, g, d, f)
           H == First(data, h, d, f)
           e == IF c = Data!Until THEN Data!Until ELSE c - 1
<1>0. Len(data) \in Nat
  BY LenProperties
<1>1. ASSUME d # 0, f <= Len(data) PROVE G = H
  <2>1. f \in 1 .. Len(data) /\ f + 1 \in 1 .. Len(data) + 1
    BY <1>0, <1>1
  <2>2. data[f] \in DataByte
    BY <2>1, ElementOfSeq
  <2>3. Data!Holds(data[f]) \in Int
    BY <2>2, HoldsInt
  <2>4. g[<<d - 1, Data!Holds(data[f]), f + 1>>] = h[<<d - 1, Data!Holds(data[f]), f + 1>>]
    BY <1>1, <2>1, <2>3 DEF Agree
  <2> QED  BY <2>4, Zenon DEF First
<1>2. e \in Int
  BY DEF Data!Until
<1>3. ASSUME d # 0, G = H, G.next \in 1 .. Len(data) + 1
      PROVE  Behind(g, d, c, G) = Behind(h, d, c, H)
  <2>1. g[<<d - 1, e, G.next>>] = h[<<d - 1, e, G.next>>]
    BY <1>2, <1>3 DEF Agree
  <2> QED  BY <1>3, <2>1, Zenon DEF Behind
<1> DEFINE A == Step(data, g, d, c, f)
           B == Step(data, h, d, c, f)
           gb == Behind(g, d, c, G)
           hb == Behind(h, d, c, H)
           fits == f > Len(data)
           none == Data!Nothing
           empty == Data!Found(<<>>, f)
           over == Data!Found(<<>>, f + 1)
           end == c = Data!Until /\ data[f][1] = "terminator"
           P(x, y) == Data!Found(<<x.value>> \o y.value, y.next)
<1>4. A = IF c = 0 THEN empty ELSE IF d = 0 \/ fits THEN none ELSE IF end THEN over
          ELSE IF G.next \notin 1 .. Len(data) + 1 THEN none
          ELSE IF gb.next = 0 THEN none ELSE P(G, gb)
  BY Zenon DEF Step
<1>5. B = IF c = 0 THEN empty ELSE IF d = 0 \/ fits THEN none ELSE IF end THEN over
          ELSE IF H.next \notin 1 .. Len(data) + 1 THEN none
          ELSE IF hb.next = 0 THEN none ELSE P(H, hb)
  BY Zenon DEF Step
<1>6. ~ fits => f <= Len(data)
  BY <1>0
<1> HIDE DEF G, H, A, B, gb, hb, fits, none, empty, over, end, P
<1>7. ASSUME c = 0 \/ d = 0 \/ fits \/ end PROVE A = B
  BY <1>4, <1>5, <1>7, Zenon
<1>8. ASSUME ~ (c = 0 \/ d = 0 \/ fits \/ end) PROVE A = B
  <2>1. G = H
    BY <1>1, <1>6, <1>8 DEF G, H
  <2>2. CASE G.next \notin 1 .. Len(data) + 1
    BY <1>4, <1>5, <1>8, <2>1, <2>2, Zenon
  <2>3. CASE G.next \in 1 .. Len(data) + 1
    <3>1. gb = hb
      BY <1>3, <1>8, <2>1, <2>3 DEF gb, hb
    <3> QED  BY <1>4, <1>5, <1>8, <2>1, <2>3, <3>1, Zenon
  <2> QED  BY <2>2, <2>3
<1> QED  BY <1>7, <1>8 DEF A, B

LEMMA StepsExist == ASSUME NEW data \in Seq(DataByte)
                      PROVE \A n \in Nat : \E g : Steps(g, data, n)
<1> DEFINE T == {n \in Nat : \E g : Steps(g, data, n)}
           O == 1 .. Len(data) + 1
<1>1. 0 \in T
  <2> DEFINE g == [p \in (0 .. 0) \X Int \X O |-> Step(data, <<>>, p[1], p[2], p[3])]
  <2>1. ASSUME NEW p \in (0 .. 0) \X Int \X O
        PROVE  Step(data, <<>>, p[1], p[2], p[3]) = Step(data, g, p[1], p[2], p[3])
    <3>1. p[1] = 0 /\ p[2] \in Int /\ p[3] \in O
      OBVIOUS
    <3> HIDE DEF g
    <3>2. Agree(data, <<>>, g, 0)
      BY DEF Agree
    <3>3. Step(data, <<>>, 0, p[2], p[3]) = Step(data, g, 0, p[2], p[3])
      BY <3>1, <3>2, StepsAgree
    <3> QED  BY <3>1, <3>3
  <2>2. g = [p \in (0 .. 0) \X Int \X O |-> Step(data, g, p[1], p[2], p[3])]
    <3> DEFINE F(p) == Step(data, <<>>, p[1], p[2], p[3])
               K(p) == Step(data, g, p[1], p[2], p[3])
               D == (0 .. 0) \X Int \X O
    <3>1. \A p \in D : F(p) = K(p)
      BY <2>1
    <3>2. g = [p \in D |-> F(p)]
      OBVIOUS
    <3> HIDE DEF F, K, D, g
    <3>3. g = [p \in D |-> K(p)]
      BY <3>1, <3>2
    <3> QED  BY <3>3 DEF K, D
  <2> HIDE DEF g
  <2> QED  BY <2>2 DEF Steps
<1>2. ASSUME NEW n \in Nat, n \in T PROVE n + 1 \in T
  <2>1. PICK g : Steps(g, data, n)
    BY <1>2
  <2> DEFINE D == (0 .. n + 1) \X Int \X O
             F(p) == Step(data, g, p[1], p[2], p[3])
             h == [p \in D |-> F(p)]
             K(p) == Step(data, h, p[1], p[2], p[3])
  <2>2. \A d \in 0 .. n, e \in Int, x \in O : h[<<d, e, x>>] = g[<<d, e, x>>]
    <3> SUFFICES ASSUME NEW d \in 0 .. n, NEW e \in Int, NEW x \in O
                   PROVE h[<<d, e, x>>] = g[<<d, e, x>>]
      OBVIOUS
    <3> DEFINE p == <<d, e, x>>
    <3>1. p \in D /\ p \in (0 .. n) \X Int \X O
      OBVIOUS
    <3> HIDE DEF p
    <3>2. h[p] = F(p)
      BY <3>1
    <3>3. g[p] = F(p)
      BY <2>1, <3>1, Zenon DEF Steps
    <3>4. h[p] = g[p]
      BY <3>2, <3>3
    <3> QED  BY <3>4 DEF p
  <2>3. ASSUME NEW p \in D PROVE F(p) = K(p)
    <3>1. p[1] \in Nat /\ p[2] \in Int /\ p[3] \in O /\ p[1] <= n + 1
      OBVIOUS
    <3> HIDE DEF h
    <3> DEFINE d == p[1]
    <3>2. d # 0 => d - 1 \in 0 .. n
      BY <3>1
    <3>3. Agree(data, g, h, d)
      <4> SUFFICES ASSUME NEW e \in Int, NEW x \in O, d # 0
                     PROVE g[<<d - 1, e, x>>] = h[<<d - 1, e, x>>]
        BY DEF Agree
      <4> QED  BY <2>2, <3>2
    <3>4. d \in Nat
      BY <3>1
    <3> HIDE DEF d
    <3>5. Step(data, g, d, p[2], p[3]) = Step(data, h, d, p[2], p[3])
      BY <3>1, <3>3, <3>4, StepsAgree
    <3> QED  BY <3>5 DEF d
  <2>4. h = [p \in D |-> F(p)]
    OBVIOUS
  <2> HIDE DEF F, K, D, h
  <2>5. h = [p \in D |-> K(p)]
    BY <2>3, <2>4
  <2> QED  BY <2>5 DEF Steps, K, D
<1> HIDE DEF T
<1>3. \A n \in Nat : n \in T
  BY <1>1, <1>2, NumbersFollow
<1> QED  BY <1>3 DEF T

(* What _Decoder.decode does for so many values at an offset. *)
LEMMA DecodeIs ==
  ASSUME NEW data \in Seq(DataByte)
  PROVE  \A d \in 0 .. Len(data) + 1, c \in Int, f \in 1 .. Len(data) + 1 :
            Data!DecodeItems(data)[<<d, c, f>>] = Step(data, Data!DecodeItems(data), d, c, f)
<1> DEFINE n == Len(data) + 1
           g == Data!DecodeItems(data)
<1>1. n \in Nat
  BY LenProperties
<1>2. \E a : Steps(a, data, n)
  BY <1>1, StepsExist
<1>3. g = CHOOSE a : a = [p \in (0 .. Len(data) + 1) \X Int \X (1 .. Len(data) + 1) |->
                            Step(data, a, p[1], p[2], p[3])]
  BY Zenon DEF Data!DecodeItems, Step, First, Behind
<1>4. Steps(g, data, n)
  BY <1>2, <1>3, Zenon DEF Steps
<1> HIDE DEF g
<1> SUFFICES ASSUME NEW d \in 0 .. n, NEW c \in Int, NEW f \in 1 .. n
               PROVE g[<<d, c, f>>] = Step(data, g, d, c, f)
  BY DEF g
<1> DEFINE p == <<d, c, f>>
<1>5. p \in (0 .. n) \X Int \X (1 .. Len(data) + 1) /\ p[1] = d /\ p[2] = c /\ p[3] = f
  OBVIOUS
<1> HIDE DEF p
<1>6. g[p] = Step(data, g, p[1], p[2], p[3])
  BY <1>4, <1>5, Zenon DEF Steps
<1> QED  BY <1>5, <1>6, Zenon DEF p

LEMMA IntBytesAre ==
  /\ \A b \in Seq(IntByte) : b \in Seq(DataByte)
  /\ IntByte \subseteq DataByte
<1>1. IntByte \subseteq DataByte
  <2> SUFFICES ASSUME NEW n \in Nat PROVE <<"byte", n>> \in DataByte
    BY DEF IntByte
  <2>1. "byte" \in Names /\ n \in Contents
    BY DEF Names, Contents
  <2> QED  BY <2>1 DEF DataByte
<1>2. ASSUME NEW b \in Seq(IntByte) PROVE b \in Seq(DataByte)
  <2> DEFINE n == Len(b)
  <2>1. b = [i \in 1 .. n |-> b[i]] /\ n \in Nat
    BY LenProperties
  <2>2. \A i \in 1 .. n : b[i] \in DataByte
    BY <1>1, ElementOfSeq
  <2> HIDE DEF n
  <2> QED  BY <2>1, <2>2, IsASeq
<1> QED  BY <1>1, <1>2

(* The first byte, and those behind it. *)
LEMMA LiesFirst ==
  ASSUME NEW X, NEW data \in Seq(X), NEW from \in Nat, NEW x \in X, NEW r \in Seq(X),
         Lies(data, from, <<x>> \o r)
  PROVE  data[from] = x /\ Lies(data, from + 1, r) /\ from <= Len(data)
           /\ Len(<<x>> \o r) = 1 + Len(r)
<1> DEFINE one == <<x>>
<1>1. one \in Seq(X) /\ Len(one) = 1
  OBVIOUS
<1>2. Len(one \o r) = 1 + Len(r)
  BY <1>1, ConcatProperties
<1>3. Lies(data, from, one \o r)
  OBVIOUS
<1> HIDE DEF one
<1>4. Lies(data, from, one) /\ Lies(data, from + Len(one), r)
  BY <1>1, <1>3, LiesConcat
<1>5. data[from] = x
  BY <1>4, LiesOne DEF one
<1>6. from <= Len(data)
  <2>1. from + Len(one) - 1 <= Len(data) /\ from + 1 - 1 = from
    BY <1>4 DEF Lies
  <2> QED  BY <1>1, <2>1
<1>7. Lies(data, from + 1, r)
  BY <1>1, <1>4
<1> QED  BY <1>2, <1>5, <1>6, <1>7 DEF one

LEMMA CutFirstOf ==
  ASSUME NEW X, NEW data \in Seq(X), NEW from \in Nat, NEW x \in X, NEW r \in Seq(X),
         Cut(data, from, <<x>> \o r), from <= Len(data)
  PROVE  data[from] = x /\ Cut(data, from + 1, r)
<1> DEFINE one == <<x>>
<1>1. one \in Seq(X) /\ Len(one) = 1 /\ Len(data) \in Nat
  BY LenProperties
<1>2. Cut(data, from, one \o r)
  OBVIOUS
<1> HIDE DEF one
<1>3. ~ Cut(data, from, one)
  BY <1>1 DEF Cut
<1>4. Lies(data, from, one) /\ Cut(data, from + Len(one), r)
  BY <1>1, <1>2, <1>3, CutConcat
<1>5. data[from] = x
  BY <1>4, LiesOne DEF one
<1>6. Cut(data, from + 1, r)
  BY <1>1, <1>4
<1> QED  BY <1>5, <1>6

LEMMA TakeIntBack ==
  ASSUME Byte \in Nat \ {0, 1}, NEW data \in Seq(DataByte), NEW f \in Nat \ {0},
         NEW n \in Int, NEW w \in 0 .. 8,
         Data!Fits(n, w)
  PROVE  /\ Lies(data, f, Data!Digits(n, w)) =>
              Data!TakeInt(data, f, w) = Data!Found(Data!Value("int", n), f + w)
         /\ Cut(data, f, Data!Digits(n, w)) => Data!TakeInt(data, f, w) = Data!Nothing
<1> DEFINE b == Data!Digits(n, w)
<1>1. b \in Seq(DataByte) /\ Len(b) = w
  BY DigitsAre, IntBytesAre
<1>2. Data!Signed(b) = n
  BY SignedBack
<1> HIDE DEF b
<1>3. ASSUME Lies(data, f, b) PROVE Data!TakeInt(data, f, w) =
               Data!Found(Data!Value("int", n), f + w)
  <2>1. Data!HasBytes(data, f, w) /\ Data!Taken(data, f, w) = b
    BY <1>1, <1>3, LiesTaken
  <2> QED  BY <1>2, <2>1, Zenon DEF Data!TakeInt
<1>4. ASSUME Cut(data, f, b) PROVE Data!TakeInt(data, f, w) = Data!Nothing
  <2>1. ~ Data!HasBytes(data, f, w)
    BY <1>1, <1>4, CutNotTaken
  <2> QED  BY <2>1, Zenon DEF Data!TakeInt
<1> QED  BY <1>3, <1>4 DEF b

LEMMA TakeBytesBack ==
  ASSUME NEW data \in Seq(DataByte), NEW f \in Nat \ {0}, NEW kind, NEW b \in Seq(DataByte)
  PROVE  /\ Lies(data, f, b) =>
              Data!TakeBytes(data, f, kind, Len(b)) =
                Data!Found(Data!Value(kind, b), f + Len(b))
         /\ Cut(data, f, b) => Data!TakeBytes(data, f, kind, Len(b)) = Data!Nothing
<1>1. ASSUME Lies(data, f, b)
      PROVE  Data!TakeBytes(data, f, kind, Len(b)) = Data!Found(Data!Value(kind, b), f + Len(b))
  <2>1. Data!HasBytes(data, f, Len(b)) /\ Data!Taken(data, f, Len(b)) = b
    BY <1>1, LiesTaken
  <2> QED  BY <2>1, Zenon DEF Data!TakeBytes
<1>2. ASSUME Cut(data, f, b) PROVE Data!TakeBytes(data, f, kind, Len(b)) = Data!Nothing
  <2>1. ~ Data!HasBytes(data, f, Len(b))
    BY <1>2, CutNotTaken
  <2> QED  BY <2>1, Zenon DEF Data!TakeBytes
<1> QED  BY <1>1, <1>2

LEMMA TakePrefixedBack ==
  ASSUME Byte \in Nat \ {0, 1}, NEW data \in Seq(DataByte), NEW f \in Nat \ {0}, NEW kind,
         NEW b \in Seq(DataByte),
         NEW w \in 0 .. 8, Len(b) < Data!Power[w]
  PROVE  /\ Lies(data, f, Data!Digits(Len(b), w) \o b) =>
              Data!TakePrefixed(data, f, kind, w) =
                Data!Found(Data!Value(kind, b), f + w + Len(b))
         /\ Cut(data, f, Data!Digits(Len(b), w) \o b) =>
              Data!TakePrefixed(data, f, kind, w) = Data!Nothing
<1> DEFINE p == Data!Digits(Len(b), w)
<1>0. Len(b) \in Nat
  BY LenProperties
<1>1. p \in Seq(DataByte) /\ Len(p) = w
  <2>1. Len(b) \in Int
    BY <1>0
  <2>2. p \in Seq(IntByte) /\ Len(p) = w
    BY <2>1, DigitsAre
  <2> QED  BY <2>2, IntBytesAre
<1>2. Data!Unsigned(p) = Len(b)
  BY <1>0, UnsignedBack
<1>3. f + w \in Nat \ {0}
  OBVIOUS
<1> HIDE DEF p
<1>4. ASSUME Lies(data, f, p)
      PROVE  Data!TakePrefixed(data, f, kind, w) = Data!TakeBytes(data, f + w, kind, Len(b))
  <2>1. Data!HasBytes(data, f, w) /\ Data!Taken(data, f, w) = p
    BY <1>1, <1>4, LiesTaken
  <2> QED  BY <1>2, <2>1, Zenon DEF Data!TakePrefixed
<1>5. ASSUME Cut(data, f, p) PROVE Data!TakePrefixed(data, f, kind, w) = Data!Nothing
  <2>1. ~ Data!HasBytes(data, f, w)
    BY <1>1, <1>5, CutNotTaken
  <2> QED  BY <2>1, Zenon DEF Data!TakePrefixed
<1>6. ASSUME Lies(data, f, p \o b)
      PROVE  Data!TakePrefixed(data, f, kind, w) =
               Data!Found(Data!Value(kind, b), f + w + Len(b))
  <2>1. Lies(data, f, p) /\ Lies(data, f + w, b)
    BY <1>1, <1>6, LiesConcat
  <2>2. Data!TakeBytes(data, f + w, kind, Len(b)) =
          Data!Found(Data!Value(kind, b), f + w + Len(b))
    BY <1>3, <2>1, TakeBytesBack
  <2> QED  BY <1>4, <2>1, <2>2
<1>7. ASSUME Cut(data, f, p \o b) PROVE Data!TakePrefixed(data, f, kind, w) = Data!Nothing
  <2>1. Cut(data, f, p) \/ (Lies(data, f, p) /\ Cut(data, f + w, b))
    BY <1>1, <1>7, CutConcat
  <2>2. Cut(data, f + w, b) => Data!TakeBytes(data, f + w, kind, Len(b)) = Data!Nothing
    BY <1>3, TakeBytesBack
  <2> QED  BY <1>4, <1>5, <2>1, <2>2
<1> QED  BY <1>6, <1>7 DEF p

(* Values that contain no others. *)
Leaf(kind, content) ==
  \/ kind = "constant" /\ content \in {"true", "false", "null"}
  \/ kind \in {"int", "int64"} /\ content \in Int /\ Data!Fits(content, 8)
  \/ kind \in {"text", "data"} /\ content \in Seq(DataByte) /\ Len(content) < Data!Power[8]

(* What is found where an encoding is, and where the rest of a payload is   *)
(* too short for it.                                                        *)
Comes(data, from, inside, value, bytes) ==
  /\ Lies(data, from, bytes) =>
       /\ Data!DecodeValue(data, from, inside) = Data!Found(value, from + Len(bytes))
       /\ data[from][1] # "terminator" /\ from <= Len(data) /\ Len(bytes) # 0
  /\ Cut(data, from, bytes) /\ from <= Len(data) =>
       /\ Data!DecodeValue(data, from, inside) = Data!Nothing
       /\ data[from][1] # "terminator"

(* A tag alone; and a tag and what is taken behind it. *)
LEMMA TagComes ==
  ASSUME NEW data \in Seq(DataByte), NEW from \in Nat \ {0}, NEW inside, NEW value,
         NEW tag \in DataByte,
         NEW r \in Seq(DataByte), NEW take, tag[1] # "terminator",
         data[from] = tag => Data!DecodeValue(data, from, inside) = take,
         from <= Len(data) /\ Lies(data, from + 1, r) =>
           take = Data!Found(value, from + 1 + Len(r)),
         from <= Len(data) /\ Cut(data, from + 1, r) => take = Data!Nothing
  PROVE  Comes(data, from, inside, value, <<tag>> \o r)
<1> DEFINE c == <<tag>> \o r
<1>0. Len(r) \in Nat
  BY LenProperties
<1>1. ASSUME Lies(data, from, c)
      PROVE  /\ Data!DecodeValue(data, from, inside) = Data!Found(value, from + Len(c))
             /\ data[from][1] # "terminator" /\ from <= Len(data) /\ Len(c) # 0
  <2>1. data[from] = tag /\ Lies(data, from + 1, r) /\ from <= Len(data) /\ Len(c) = 1 + Len(r)
    BY <1>1, LiesFirst
  <2>2. from + Len(c) = from + 1 + Len(r) /\ Len(c) # 0
    BY <1>0, <2>1
  <2> QED  BY <2>1, <2>2
<1>2. ASSUME Cut(data, from, c), from <= Len(data)
      PROVE  /\ Data!DecodeValue(data, from, inside) = Data!Nothing
             /\ data[from][1] # "terminator"
  <2>1. data[from] = tag /\ Cut(data, from + 1, r)
    BY <1>2, CutFirstOf
  <2> QED  BY <1>2, <2>1
<1> QED  BY <1>1, <1>2 DEF Comes

LEMMA TagAloneComes ==
  ASSUME NEW data \in Seq(DataByte), NEW from \in Nat \ {0}, NEW inside, NEW value,
         NEW tag \in DataByte,
         tag[1] # "terminator",
         data[from] = tag => Data!DecodeValue(data, from, inside) = Data!Found(value, from + 1)
  PROVE  Comes(data, from, inside, value, <<tag>>)
<1> DEFINE take == Data!Found(value, from + 1)
           r == <<>>
           one == <<tag>>
<1>1. r \in Seq(DataByte) /\ Len(r) = 0 /\ one \in Seq(DataByte) /\ one \o r = one
  <2>1. one \in Seq(DataByte)
    OBVIOUS
  <2>2. \A s \in Seq(DataByte) : s \o <<>> = s
    BY ConcatEmptySeq
  <2> QED  BY <2>1, <2>2
<1>2. ~ Cut(data, from + 1, r)
  <2>1. Len(data) \in Nat
    BY LenProperties
  <2> QED  BY <1>1, <2>1 DEF Cut
<1>3. from + 1 + Len(r) = from + 1
  BY <1>1
<1> HIDE DEF r, take
<1>4. Lies(data, from + 1, r) => take = Data!Found(value, from + 1 + Len(r))
  BY <1>3 DEF take
<1>5. data[from] = tag => Data!DecodeValue(data, from, inside) = take
  BY DEF take
<1>6. Comes(data, from, inside, value, <<tag>> \o r)
  BY <1>1, <1>2, <1>4, <1>5, TagComes
<1> QED  BY <1>1, <1>6

LEMMA IntComes ==
  ASSUME Byte \in Nat \ {0, 1}, NEW data \in Seq(DataByte), NEW from \in Nat \ {0}, NEW inside,
         NEW n \in Int, NEW w \in 0 .. 8, Data!Fits(n, w)
  PROVE  /\ Comes(data, from, inside, Data!Value("int", n),
              Data!Tag("int", w) \o Data!Digits(n, w))
         /\ Data!Tag("int", w) \o Data!Digits(n, w) \in Seq(DataByte)
<1> DEFINE tag == <<"int", w>>
           r == Data!Digits(n, w)
           value == Data!Value("int", n)
           take == Data!TakeInt(data, from + 1, w)
<1>1. tag \in DataByte /\ tag[1] = "int" /\ tag[2] = w
  <2>1. "int" \in Names /\ w \in Contents
    BY DEF Names, Contents
  <2> QED  BY <2>1 DEF DataByte
<1>2. r \in Seq(DataByte) /\ Len(r) = w
  BY DigitsAre, IntBytesAre
<1>3. from + 1 \in Nat \ {0}
  OBVIOUS
<1>4. /\ Lies(data, from + 1, r) => take = Data!Found(value, from + 1 + w)
      /\ Cut(data, from + 1, r) => take = Data!Nothing
  BY <1>3, TakeIntBack
<1>5. data[from] = tag => Data!DecodeValue(data, from, inside) = take
  <2>1. data[from] = tag => data[from][1] = "int" /\ data[from][2] = w
    BY <1>1
  <2> QED  BY <2>1, DecodeByTag
<1>6. Data!Tag("int", w) = <<tag>> /\ <<tag>> \in Seq(DataByte)
  BY <1>1 DEF Data!Tag
<1> HIDE DEF tag, r, value, take
<1>7. Comes(data, from, inside, value, <<tag>> \o r)
  BY <1>1, <1>2, <1>4, <1>5, TagComes
<1>8. <<tag>> \o r \in Seq(DataByte)
  BY <1>2, <1>6, ConcatProperties
<1> QED  BY <1>6, <1>7, <1>8 DEF r, value

(* Text and data with their length in the tag, and behind it. *)
LEMMA InlineBytesCome ==
  ASSUME NEW data \in Seq(DataByte), NEW from \in Nat \ {0}, NEW inside,
         NEW kind \in {"text", "data"},
         NEW b \in Seq(DataByte)
  PROVE  /\ Comes(data, from, inside, Data!Value(kind, b), <<<<"inline", kind, Len(b)>>>> \o b)
         /\ <<<<"inline", kind, Len(b)>>>> \o b \in Seq(DataByte)
<1> DEFINE tag == <<"inline", kind, Len(b)>>
           value == Data!Value(kind, b)
           take == Data!TakeBytes(data, from + 1, kind, Len(b))
<1>1. tag \in DataByte /\ tag[1] = "inline" /\ tag[2] = kind /\ tag[3] = Len(b)
  <2>1. kind \in Kinds /\ Len(b) \in Nat
    BY LenProperties DEF Kinds
  <2> QED  BY <2>1 DEF DataByte
<1>3. from + 1 \in Nat \ {0}
  OBVIOUS
<1>4. /\ Lies(data, from + 1, b) => take = Data!Found(value, from + 1 + Len(b))
      /\ Cut(data, from + 1, b) => take = Data!Nothing
  BY <1>3, TakeBytesBack
<1>5. data[from] = tag => Data!DecodeValue(data, from, inside) = take
  <2>1. data[from] = tag => data[from][1] = "inline" /\ data[from][2] = kind
          /\ data[from][3] = Len(b)
    BY <1>1
  <2> QED  BY <2>1, DecodeByTag
<1>6. <<tag>> \in Seq(DataByte)
  BY <1>1
<1> HIDE DEF tag, value, take
<1>7. Comes(data, from, inside, value, <<tag>> \o b)
  BY <1>1, <1>4, <1>5, TagComes
<1>8. <<tag>> \o b \in Seq(DataByte)
  BY <1>6, ConcatProperties
<1> QED  BY <1>7, <1>8 DEF tag, value

LEMMA PrefixedBytesCome ==
  ASSUME Byte \in Nat \ {0, 1}, NEW data \in Seq(DataByte), NEW from \in Nat \ {0}, NEW inside,
         NEW kind \in {"text", "data"}, NEW b \in Seq(DataByte),
         NEW w \in 0 .. 8, Len(b) < Data!Power[w]
  PROVE  /\ Comes(data, from, inside, Data!Value(kind, b),
              Data!Tag(kind, w) \o Data!Digits(Len(b), w) \o b)
         /\ Data!Tag(kind, w) \o Data!Digits(Len(b), w) \o b \in Seq(DataByte)
<1> DEFINE tag == <<kind, w>>
           one == <<tag>>
           p == Data!Digits(Len(b), w)
           r == p \o b
           value == Data!Value(kind, b)
           take == Data!TakePrefixed(data, from + 1, kind, w)
<1>1. tag \in DataByte /\ tag[1] = kind /\ tag[2] = w
  <2>1. kind \in Names /\ w \in Contents
    BY DEF Names, Contents
  <2> QED  BY <2>1 DEF DataByte
<1>0. Len(b) \in Nat /\ Len(b) \in Int
  BY LenProperties
<1>2. p \in Seq(DataByte) /\ Len(p) = w
  <2>1. p \in Seq(IntByte) /\ Len(p) = w
    BY <1>0, DigitsAre
  <2> QED  BY <2>1, IntBytesAre
<1>3. from + 1 \in Nat \ {0}
  OBVIOUS
<1>4. /\ Lies(data, from + 1, r) => take = Data!Found(value, from + 1 + w + Len(b))
      /\ Cut(data, from + 1, r) => take = Data!Nothing
  BY <1>3, TakePrefixedBack
<1>5. data[from] = tag => Data!DecodeValue(data, from, inside) = take
  <2>1. data[from] = tag => data[from][1] = kind /\ data[from][2] = w
    BY <1>1
  <2> QED  BY <2>1, DecodeByTag
<1>6. Data!Tag(kind, w) = one /\ one \in Seq(DataByte)
  BY <1>1 DEF Data!Tag
<1> HIDE DEF tag, value, take, p, one
<1>7. r \in Seq(DataByte) /\ Len(r) = w + Len(b)
  BY <1>2, ConcatProperties
<1>8. from + 1 + w + Len(b) = from + 1 + Len(r)
  BY <1>0, <1>7
<1>9. one \o p \o b = one \o r /\ one \o r \in Seq(DataByte)
  BY <1>2, <1>6, <1>7, ConcatAssociative, ConcatProperties, SMTT(30)
<1> HIDE DEF r
<1>10. Comes(data, from, inside, value, one \o r)
  BY <1>1, <1>4, <1>5, <1>7, <1>8, TagComes DEF one
<1> QED  BY <1>6, <1>9, <1>10 DEF value, p

Back(data, from, inside, value, bytes) == Comes(data, from, inside, value, bytes)
  /\ bytes \in Seq(DataByte)

LEMMA TagBack ==
  ASSUME NEW data \in Seq(DataByte), NEW from \in Nat \ {0}, NEW inside, NEW value,
         NEW form \in Names,
         NEW x \in Contents, form # "terminator",
         data[from] = <<form, x>> =>
           Data!DecodeValue(data, from, inside) = Data!Found(value, from + 1)
  PROVE  Back(data, from, inside, value, Data!Tag(form, x))
<1> DEFINE tag == <<form, x>>
<1>1. tag \in DataByte /\ tag[1] # "terminator"
  BY DEF DataByte
<1>2. Data!Tag(form, x) = <<tag>> /\ <<tag>> \in Seq(DataByte)
  BY <1>1 DEF Data!Tag
<1>3. data[from] = tag => Data!DecodeValue(data, from, inside) = Data!Found(value, from + 1)
  OBVIOUS
<1> HIDE DEF tag
<1>4. Comes(data, from, inside, value, <<tag>>)
  BY <1>1, <1>3, TagAloneComes
<1> QED  BY <1>2, <1>4 DEF Back

LEMMA ConstantBack ==
  ASSUME NEW data \in Seq(DataByte), NEW from \in Nat \ {0}, NEW inside,
         NEW c \in {"true", "false", "null"}
  PROVE  Back(data, from, inside, Data!Value("constant", c), Data!Tag("constant", c))
<1> DEFINE value == Data!Value("constant", c)
<1>1. data[from] = <<"constant", c>> => data[from][1] = "constant" /\ data[from][2] = c
  OBVIOUS
<1>2. data[from] = <<"constant", c>> =>
        Data!DecodeValue(data, from, inside) = Data!Found(value, from + 1)
  BY <1>1, DecodeByTag
<1>3. "constant" \in Names /\ c \in Contents
  BY DEF Names, Contents
<1> HIDE DEF value
<1> QED  BY <1>2, <1>3, TagBack DEF value

LEMMA IntBack ==
  ASSUME Byte \in Nat \ {0, 1}, InlineInt \in Nat, NEW data \in Seq(DataByte),
         NEW from \in Nat \ {0},
         NEW inside, NEW n \in Int, Data!Fits(n, 8)
  PROVE  Back(data, from, inside, Data!Value("int", n), Data!EncodeInt(n))
<1> DEFINE value == Data!Value("int", n)
           w == IF Data!Fits(n, 1) THEN 1 ELSE IF Data!Fits(n, 2)
             THEN 2 ELSE IF Data!Fits(n, 4) THEN 4 ELSE 8
           wide == Data!Tag("int", w) \o Data!Digits(n, w)
           minus == Data!Tag("minus_one", 0)
           inline == Data!Tag("inline_int", n)
<1>1. Data!EncodeInt(n) = IF n = -1 THEN minus ELSE IF n \in 0 .. InlineInt
        THEN inline ELSE wide
  BY Zenon DEF Data!EncodeInt
<1>2. CASE n = -1
  <2>1. data[from] = <<"minus_one", 0>> => data[from][1] = "minus_one"
    OBVIOUS
  <2>2. data[from] = <<"minus_one", 0>> =>
          Data!DecodeValue(data, from, inside) = Data!Found(value, from + 1)
    BY <1>2, <2>1, DecodeByTag
  <2>3. "minus_one" \in Names /\ 0 \in Contents
    BY DEF Names, Contents
  <2> HIDE DEF value
  <2>4. Back(data, from, inside, value, minus)
    BY <2>2, <2>3, TagBack
  <2> QED  BY <1>1, <1>2, <2>4, Zenon DEF value
<1>3. CASE n # -1 /\ n \in 0 .. InlineInt
  <2>1. data[from] = <<"inline_int", n>> => data[from][1] = "inline_int" /\ data[from][2] = n
    OBVIOUS
  <2>2. data[from] = <<"inline_int", n>> =>
          Data!DecodeValue(data, from, inside) = Data!Found(value, from + 1)
    BY <2>1, DecodeByTag
  <2>3. "inline_int" \in Names /\ n \in Contents
    BY <1>3 DEF Names, Contents
  <2> HIDE DEF value
  <2>4. Back(data, from, inside, value, inline)
    BY <2>2, <2>3, TagBack
  <2> QED  BY <1>1, <1>3, <2>4, Zenon DEF value
<1>4. CASE ~ (n = -1 \/ n \in 0 .. InlineInt)
  <2>1. w \in 0 .. 8
    OBVIOUS
  <2>2. Data!Fits(n, w)
    OBVIOUS
  <2> HIDE DEF w
  <2>3. Comes(data, from, inside, value, wide) /\ wide \in Seq(DataByte)
    BY <2>1, <2>2, IntComes
  <2>4. Back(data, from, inside, value, wide)
    BY <2>3, Zenon DEF Back
  <2> QED  BY <1>1, <1>4, <2>4, Zenon DEF value
<1> QED  BY <1>2, <1>3, <1>4

LEMMA LongIntBack ==
  ASSUME Byte \in Nat \ {0, 1}, NEW data \in Seq(DataByte), NEW from \in Nat \ {0},
         NEW inside, NEW n \in Int, Data!Fits(n, 8)
  PROVE  Back(data, from, inside, Data!Value("int", n), Data!EncodeInt64(n))
<1>1. 8 \in 0 .. 8
  OBVIOUS
<1> QED  BY <1>1, IntComes DEF Back, Data!EncodeInt64

LEMMA BytesBack ==
  ASSUME Byte \in Nat \ {0, 1}, InlineLength \in Nat, NEW data \in Seq(DataByte),
         NEW from \in Nat \ {0},
         NEW inside, NEW kind \in {"text", "data"},
         NEW b \in Seq(DataByte), Len(b) < Data!Power[8]
  PROVE  Back(data, from, inside, Data!Value(kind, b), Data!EncodeLengthPrefixed(kind, b))
<1> DEFINE value == Data!Value(kind, b)
           l == Len(b)
           w == IF l < Data!Power[1] THEN 1 ELSE IF l < Data!Power[2] THEN 2
                ELSE IF l < Data!Power[4] THEN 4 ELSE 8
           inline == <<<<"inline", kind, l>>>> \o b
           wide == Data!Tag(kind, w) \o Data!Digits(l, w) \o b
<1>1. Data!EncodeLengthPrefixed(kind, b) = IF l <= InlineLength THEN inline ELSE wide
  BY Zenon DEF Data!EncodeLengthPrefixed
<1>2. Back(data, from, inside, value, inline)
  BY InlineBytesCome DEF Back
<1>3. Back(data, from, inside, value, wide)
  <2>1. w \in 0 .. 8
    OBVIOUS
  <2>2. l < Data!Power[w]
    OBVIOUS
  <2> HIDE DEF w
  <2>3. Comes(data, from, inside, value, wide) /\ wide \in Seq(DataByte)
    BY <2>1, <2>2, PrefixedBytesCome
  <2> QED  BY <2>3, Zenon DEF Back
<1> HIDE DEF inline, wide
<1> QED  BY <1>1, <1>2, <1>3

LEMMA LeafBack ==
  ASSUME Byte \in Nat \ {0, 1}, InlineInt \in Nat, InlineLength \in Nat,
         NEW data \in Seq(DataByte),
         NEW from \in Nat \ {0}, NEW inside, NEW kind, NEW content, Leaf(kind, content)
  PROVE  Back(data, from, inside, Data!Plain(kind, content), Data!Encode(kind, content))
<1> DEFINE a == Data!Tag("constant", content)
           b == Data!EncodeInt(content)
           c == Data!EncodeInt64(content)
           d == Data!EncodeLengthPrefixed(kind, content)
           e == Data!EncodeContainer(kind, content)
<1>1. Data!Encode(kind, content) =
        CASE kind = "constant" -> a
          [] kind = "int" -> b
          [] kind = "int64" -> c
          [] kind \in {"text", "data"} -> d
          [] kind \in {"list", "dict"} -> e
  BY Zenon DEF Data!Encode
<1>2. kind \notin {"list", "dict"}
  BY DEF Leaf
<1>3. Data!Plain(kind, content) = Data!Value(IF kind = "int64" THEN "int" ELSE kind, content)
  BY <1>2, Zenon DEF Data!Plain
<1> HIDE DEF a, b, c, d, e
<1>4. CASE kind = "constant"
  <2>1. Data!Encode(kind, content) = a
          /\ Data!Plain(kind, content) = Data!Value("constant", content)
    BY <1>1, <1>3, <1>4
  <2>2. content \in {"true", "false", "null"}
    BY <1>4 DEF Leaf
  <2> QED  BY <2>1, <2>2, ConstantBack DEF a
<1>5. CASE kind = "int"
  <2>1. Data!Encode(kind, content) = b /\ Data!Plain(kind, content) = Data!Value("int", content)
    BY <1>1, <1>3, <1>5
  <2>2. content \in Int /\ Data!Fits(content, 8)
    BY <1>5 DEF Leaf
  <2> QED  BY <2>1, <2>2, IntBack DEF b
<1>6. CASE kind = "int64"
  <2>1. Data!Encode(kind, content) = c /\ Data!Plain(kind, content) = Data!Value("int", content)
    BY <1>1, <1>3, <1>6
  <2>2. content \in Int /\ Data!Fits(content, 8)
    BY <1>6 DEF Leaf
  <2> QED  BY <2>1, <2>2, LongIntBack DEF c
<1>7. CASE kind \in {"text", "data"}
  <2>1. Data!Encode(kind, content) = d /\ Data!Plain(kind, content) = Data!Value(kind, content)
    BY <1>1, <1>3, <1>7
  <2>2. content \in Seq(DataByte) /\ Len(content) < Data!Power[8]
    BY <1>7 DEF Leaf
  <2> QED  BY <1>7, <2>1, <2>2, BytesBack DEF d
<1> QED  BY <1>4, <1>5, <1>6, <1>7 DEF Leaf

LEMMA EachFirst ==
  ASSUME NEW S, NEW R, NEW f, Maps(f, S, R), NEW v \in S, NEW u \in Seq(S)
  PROVE  /\ Each(f, Before(v, u)) = Before(f[v], Each(f, u))
         /\ Each(f, u) \in Seq(R) /\ Each(f, Before(v, u)) \in Seq(R)
         /\ Len(Before(v, u)) = 1 + Len(u) /\ Len(Each(f, u)) = Len(u)
<1> DEFINE one == <<v>>
           w == one \o u
           n == Len(u)
           x == <<f[v]>>
           a == Each(f, w)
           b == Each(f, u)
<1>1. one \in Seq(S) /\ Len(one) = 1 /\ one[1] = v /\ f[v] \in R /\ x \in Seq(R)
        /\ Len(x) = 1 /\ x[1] = f[v] /\ n \in Nat
  BY LenProperties DEF Maps
<1>2. ASSUME NEW s \in Seq(S) PROVE Each(f, s) \in Seq(R) /\ Len(Each(f, s)) = Len(s)
                                   /\ \A i \in 1 .. Len(s) : Each(f, s)[i] = f[s[i]]
  <2> DEFINE l == Len(s)
  <2>1. l \in Nat /\ \A i \in 1 .. l : s[i] \in S
    BY LenProperties, ElementOfSeq
  <2>2. \A i \in 1 .. l : f[s[i]] \in R
    BY <2>1 DEF Maps
  <2>3. Each(f, s) = [i \in 1 .. l |-> f[s[i]]]
    BY DEF Each
  <2> HIDE DEF l
  <2>4. Each(f, s) \in Seq(R) /\ Len(Each(f, s)) = l
    BY <2>1, <2>2, <2>3, IsASeq
  <2> QED  BY <2>3, <2>4 DEF l
<1> HIDE DEF one, x, w
<1>3. /\ w \in Seq(S) /\ Len(w) = 1 + n
      /\ \A i \in 1 .. 1 + n : w[i] = IF i <= 1 THEN one[i] ELSE u[i - 1]
  BY <1>1, OneBefore DEF w, n
<1>4. a \in Seq(R) /\ Len(a) = 1 + n /\ \A i \in 1 .. 1 + n : a[i] = f[w[i]]
  BY <1>2, <1>3
<1>5. b \in Seq(R) /\ Len(b) = n /\ \A i \in 1 .. n : b[i] = f[u[i]]
  BY <1>2
<1> HIDE DEF n, a, b
<1>6. /\ x \o b \in Seq(R) /\ Len(x \o b) = 1 + n
      /\ \A i \in 1 .. 1 + n : (x \o b)[i] = IF i <= 1 THEN x[i] ELSE b[i - 1]
  BY <1>1, <1>5, OneBefore
<1>7. ASSUME NEW i \in 1 .. 1 + n PROVE a[i] = (x \o b)[i]
  <2>1. CASE i = 1
    BY <1>1, <1>3, <1>4, <1>6, <2>1, SMTT(30)
  <2>2. CASE i # 1
    <3>1. ~ (i <= 1) /\ i - 1 \in 1 .. n
      BY <1>1, <2>2
    <3>2. a[i] = f[u[i - 1]]
      BY <1>3, <1>4, <3>1
    <3>3. (x \o b)[i] = b[i - 1]
      BY <1>6, <3>1
    <3>4. b[i - 1] = f[u[i - 1]]
      BY <1>5, <3>1
    <3> QED  BY <3>2, <3>3, <3>4
  <2> QED  BY <2>1, <2>2
<1>8. a = x \o b
  BY <1>4, <1>6, <1>7, SeqEqual
<1>9. w = Before(v, u) /\ x \o b = Before(f[v], b)
  BY Zenon DEF Before, one, x, w
<1> QED  BY <1>3, <1>4, <1>5, <1>8, <1>9, Zenon DEF n, a, b

(* Values that are built of one another. *)
Nest(S, kind, content) ==
  kind \in {"list", "dict"} /\ content \in Seq(S) /\ (kind = "dict" => Len(content) % 2 = 0)

Closed(S) ==
  \A v \in S : /\ v.bytes \in Seq(DataByte)
               /\ \E kind, content : /\ v = Data!Built(kind, content)
                                     /\ Leaf(kind, content) \/ Nest(S, kind, content)

ValuesOf(w) == [i \in 1 .. Len(w) |-> w[i].value]

LEMMA DataFlat == \A s : Data!FlattenSeq(s) = Flat(s)
  BY Zenon DEF Flat, TLV!FlattenSeq, Data!FlattenSeq

LEMMA AllEmpty == Data!EncodeAll(<<>>) = <<>> /\ ValuesOf(<<>>) = <<>> /\ Len(<<>>) = 0
<1>1. Len(<<>>) = 0 /\ 1 .. 0 = {}
  OBVIOUS
<1>2. [i \in 1 .. Len(<<>>) |-> <<>>[i].bytes] = <<>> /\ ValuesOf(<<>>) = <<>>
  BY <1>1 DEF ValuesOf
<1>3. Data!EncodeAll(<<>>) = Flat(<<>>)
  BY <1>2, DataFlat, Zenon DEF Data!EncodeAll
<1> QED  BY <1>1, <1>2, <1>3, FlatEmpty, Zenon

LEMMA EachBytes ==
  ASSUME NEW S, Closed(S), NEW w \in Seq(S)
  PROVE  Data!EncodeAll(w) = Flat(Each([v \in S |-> v.bytes], w))
           /\ ValuesOf(w) = Each([v \in S |-> v.value], w)
<1> DEFINE f == [v \in S |-> v.bytes]
           g == [v \in S |-> v.value]
<1>1. \A i \in 1 .. Len(w) : w[i] \in S
  BY ElementOfSeq
<1>2. \A i \in 1 .. Len(w) : f[w[i]] = w[i].bytes /\ g[w[i]] = w[i].value
  BY <1>1
<1>3. Each(f, w) = [i \in 1 .. Len(w) |-> w[i].bytes]
  BY <1>2 DEF Each
<1>4. Each(g, w) = ValuesOf(w)
  BY <1>2 DEF Each, ValuesOf
<1> QED  BY <1>3, <1>4, DataFlat, Zenon DEF Data!EncodeAll

LEMMA AllFirst ==
  ASSUME NEW S, Closed(S), NEW v \in S, NEW u \in Seq(S)
  PROVE  /\ Data!EncodeAll(<<v>> \o u) = v.bytes \o Data!EncodeAll(u)
         /\ ValuesOf(<<v>> \o u) = <<v.value>> \o ValuesOf(u)
         /\ <<v>> \o u \in Seq(S)
         /\ Data!EncodeAll(u) \in Seq(DataByte)
         /\ Len(<<v>> \o u) = 1 + Len(u) /\ Len(u) \in Nat
<1> DEFINE f == [x \in S |-> x.bytes]
           g == [x \in S |-> x.value]
           R == {x.value : x \in S}
           Y == Seq(DataByte)
           w == <<v>> \o u
<1>1. Maps(f, S, Y) /\ Maps(g, S, R) /\ f[v] = v.bytes /\ g[v] = v.value /\ v.bytes \in Y
  BY DEF Closed, Maps
<1>2. w \in Seq(S) /\ Len(u) \in Nat
  <2>1. <<v>> \in Seq(S)
    OBVIOUS
  <2> QED  BY <2>1, ConcatProperties, LenProperties
<1>3. /\ Data!EncodeAll(u) = Flat(Each(f, u)) /\ ValuesOf(u) = Each(g, u)
      /\ Data!EncodeAll(w) = Flat(Each(f, w)) /\ ValuesOf(w) = Each(g, w)
  BY <1>2, EachBytes
<1> HIDE DEF f, g, R, Y
<1>4. /\ Each(f, w) = <<f[v]>> \o Each(f, u) /\ Each(f, u) \in Seq(Y)
      /\ Len(w) = 1 + Len(u)
  <2>1. /\ Each(f, Before(v, u)) = Before(f[v], Each(f, u)) /\ Each(f, u) \in Seq(Y)
        /\ Len(Before(v, u)) = 1 + Len(u)
    BY <1>1, EachFirst
  <2> QED  BY <2>1, Zenon DEF Before
<1>5. Each(g, w) = <<g[v]>> \o Each(g, u)
  <2>1. Each(g, Before(v, u)) = Before(g[v], Each(g, u))
    BY <1>1, EachFirst
  <2> QED  BY <2>1, Zenon DEF Before
<1> DEFINE e == v.bytes
           one == <<e>>
           s == Each(f, u)
<1>6. one \in Seq(Y) /\ Flat(one) = e
  <2>1. Append(<<>>, e) = one
    OBVIOUS
  <2>2. <<>> \in Seq(Seq(DataByte)) /\ e \in Seq(DataByte)
    BY <1>1 DEF Y
  <2>3. Flat(Append(<<>>, e)) = Flat(<<>>) \o e
    BY <2>2, FlatAppend
  <2>4. <<>> \o e = e
    BY <2>2, ConcatEmptySeq
  <2>5. one \in Seq(Y)
    BY <1>1
  <2> QED  BY <2>1, <2>3, <2>4, <2>5, FlatEmpty, Zenon
<1> HIDE DEF one, s, e
<1>7. Flat(one \o s) = Flat(one) \o Flat(s) /\ Flat(s) \in Seq(DataByte)
  <2>1. one \in Seq(Seq(DataByte)) /\ s \in Seq(Seq(DataByte))
    BY <1>4, <1>6 DEF Y, s
  <2> QED  BY <2>1, FlatConcat, FlatType
<1>8. Data!EncodeAll(w) = e \o Data!EncodeAll(u) /\ Data!EncodeAll(u) \in Seq(DataByte)
  BY <1>1, <1>3, <1>4, <1>6, <1>7, Zenon DEF one, s, e
<1> QED  BY <1>1, <1>2, <1>3, <1>4, <1>5, <1>8, Zenon DEF e

(* Some items are a first one and others. *)
LEMMA FirstOf ==
  ASSUME NEW S, NEW w \in Seq(S), Len(w) # 0
  PROVE  \E v \in S, u \in Seq(S) : w = <<v>> \o u
<1>1. w # <<>>
  OBVIOUS
<1>2. Head(w) \in S /\ Tail(w) \in Seq(S) /\ Len(Tail(w)) = Len(w) - 1 /\ Len(w) \in Nat
  BY <1>1, HeadTailProperties, LenProperties
<1>3. SubSeq(w, 1, Len(w)) = <<w[1]>> \o SubSeq(w, 1 + 1, Len(w))
  <2>1. 1 \in 1 .. Len(w) /\ Len(w) \in 1 .. Len(w)
    BY <1>2, LenProperties
  <2> QED  BY <2>1, SubSeqRecursiveFirst
<1>4. SubSeq(w, 1, Len(w)) = w
  BY SubSeqFull
<1>5. w[1] \in S /\ SubSeq(w, 1 + 1, Len(w)) \in Seq(S)
  <2>1. 1 \in 1 .. Len(w) /\ \A i \in 1 + 1 .. Len(w) : w[i] \in S
    BY <1>2, ElementOfSeq
  <2> QED  BY <1>2, <2>1, ElementOfSeq, SubSeqProperties
<1> QED  BY <1>3, <1>4, <1>5

(* Some values, and what is behind them if they are not counted. *)
Code(w, c) == Data!EncodeAll(w) \o (IF c = Data!Until THEN Data!Tag("terminator", 0) ELSE <<>>)

(* With so many turns values are found where they lie, and nothing where     *)
(* they are cut short; wherever that is.                                     *)
DecodesTo(data, d, w, c, from) ==
  /\ Lies(data, from, Code(w, c)) =>
       Data!DecodeItems(data)[<<d, c, from>>] =
         Data!Found(ValuesOf(w), from + Len(Code(w, c)))
  /\ Cut(data, from, Code(w, c)) => Data!DecodeItems(data)[<<d, c, from>>] = Data!Nothing

Right(S, data, d) ==
  \A w \in Seq(S), c \in Int, from \in 1 .. Len(data) + 1 :
    c \in {Len(w), Data!Until} /\ d + from >= Len(data) + 2 => DecodesTo(data, d, w, c, from)

LEMMA TerminatorType == Data!Tag("terminator", 0) \in Seq(DataByte)
                          /\ <<"terminator", 0>> \in DataByte
<1> DEFINE tag == <<"terminator", 0>>
<1>1. tag \in DataByte
  BY DEF DataByte, Names, Contents
<1>2. Data!Tag("terminator", 0) = <<tag>>
  BY DEF Data!Tag
<1> HIDE DEF tag
<1>3. <<tag>> \in Seq(DataByte)
  BY <1>1
<1> QED  BY <1>1, <1>2, <1>3 DEF tag

LEMMA CodeType ==
  ASSUME NEW S, Closed(S), NEW w \in Seq(S), NEW c
  PROVE  Data!EncodeAll(w) \in Seq(DataByte) /\ Code(w, c) \in Seq(DataByte)
<1> DEFINE e == IF c = Data!Until THEN Data!Tag("terminator", 0) ELSE <<>>
<1>1. e \in Seq(DataByte)
  BY TerminatorType
<1>2. Data!EncodeAll(w) \in Seq(DataByte)
  <2>1. CASE Len(w) = 0
    <3>1. w = <<>>
      BY <2>1
    <3>2. Data!EncodeAll(w) = <<>>
      BY <3>1, AllEmpty
    <3> QED  BY <3>2
  <2>2. CASE Len(w) # 0
    <3>1. PICK v \in S, u \in Seq(S) : w = <<v>> \o u
      BY <2>2, FirstOf
    <3>2. Data!EncodeAll(w) = v.bytes \o Data!EncodeAll(u)
            /\ Data!EncodeAll(u) \in Seq(DataByte)
      BY <3>1, AllFirst
    <3>3. v.bytes \in Seq(DataByte)
      BY DEF Closed
    <3> QED  BY <3>2, <3>3, ConcatProperties
  <2> QED  BY <2>1, <2>2
<1> HIDE DEF e
<1>3. Data!EncodeAll(w) \o e \in Seq(DataByte)
  BY <1>1, <1>2, ConcatProperties
<1> QED  BY <1>2, <1>3, Zenon DEF Code, e

Joined(v, u, c, c2) == Code(Before(v, u), c) = v.bytes \o Code(u, c2)

LEMMA CodeFirst ==
  ASSUME NEW S, Closed(S), NEW v \in S, NEW u \in Seq(S), NEW c, NEW c2,
         c = Data!Until <=> c2 = Data!Until
  PROVE  Joined(v, u, c, c2)
<1> DEFINE e == IF c = Data!Until THEN Data!Tag("terminator", 0) ELSE <<>>
           b == v.bytes
           a == Data!EncodeAll(u)
<1>1. e \in Seq(DataByte)
  BY TerminatorType
<1>2. Data!EncodeAll(<<v>> \o u) = b \o a /\ a \in Seq(DataByte)
  BY AllFirst
<1>3. b \in Seq(DataByte)
  BY DEF Closed
<1>4. Code(<<v>> \o u, c) = Data!EncodeAll(<<v>> \o u) \o e /\ Code(u, c2) = a \o e
  BY Zenon DEF Code
<1> HIDE DEF e, a, b
<1>5. (b \o a) \o e = b \o (a \o e)
  BY <1>1, <1>2, <1>3, ConcatAssociative
<1> QED  BY <1>2, <1>4, <1>5, Zenon DEF b, Before, Joined

LEMMA CodeEmpty ==
  Code(<<>>, 0) = <<>> /\ Code(<<>>, Data!Until) = <<<<"terminator", 0>>>>
<1>1. <<>> \o Data!Tag("terminator", 0) = Data!Tag("terminator", 0)
  BY TerminatorType, ConcatEmptySeq
<1>2. <<>> \o <<>> = <<>>
  OBVIOUS
<1>3. 0 # Data!Until
  BY DEF Data!Until
<1>4. Data!EncodeAll(<<>>) = <<>>
  BY AllEmpty
<1>5. Code(<<>>, 0) = <<>>
  BY <1>2, <1>3, <1>4, Zenon DEF Code
<1>6. Code(<<>>, Data!Until) = Data!Tag("terminator", 0)
  BY <1>1, <1>4, Zenon DEF Code
<1> QED  BY <1>5, <1>6 DEF Data!Tag

(* Any part of a list or dict: its tag, and what is in it. *)
LEMMA ContainerComes ==
  ASSUME NEW S, Closed(S), NEW data \in Seq(DataByte), NEW d \in Nat, NEW from \in Nat \ {0},
         d # 0, d + from >= Len(data) + 2, Right(S, data, d - 1),
         NEW kind \in {"list", "dict"}, NEW w \in Seq(S), kind = "dict" => Len(w) % 2 = 0,
         NEW c \in Int, c \in {Len(w), Data!Until},
         NEW tag \in DataByte, Data!Holds(tag) = c, tag[2] = kind,
         tag[1] \in {"inline", "terminated"}
  PROVE  Comes(data, from, Data!DecodeItems(data)[<<d - 1, Data!Holds(data[from]), from + 1>>],
               Data!Value(kind, ValuesOf(w)), <<tag>> \o Code(w, c))
<1> DEFINE at == Data!DecodeItems(data)
           r == Code(w, c)
           found == at[<<d - 1, c, from + 1>>]
           take == Data!Contained(kind, found)
           inside == at[<<d - 1, Data!Holds(data[from]), from + 1>>]
           value == Data!Value(kind, ValuesOf(w))
<1>0. r \in Seq(DataByte) /\ Len(r) \in Nat /\ Len(data) \in Nat
  BY CodeType, LenProperties
<1>1. data[from] = tag => Data!DecodeValue(data, from, inside) = take
  <2>1. data[from] = tag => inside = found
    OBVIOUS
  <2>2. data[from] = tag => data[from][2] = kind /\ data[from][1] \in {"inline", "terminated"}
    OBVIOUS
  <2>3. data[from] = tag => Data!DecodeValue(data, from, inside) = Data!Contained(kind, inside)
    BY <2>2, DecodeByTag
  <2> QED  BY <2>1, <2>3
<1>2. from <= Len(data) => from + 1 \in 1 .. Len(data) + 1
        /\ (d - 1) + (from + 1) >= Len(data) + 2
  BY <1>0
<1>3. from <= Len(data) /\ Lies(data, from + 1, r) =>
        found = Data!Found(ValuesOf(w), from + 1 + Len(r))
  BY <1>2 DEF Right, DecodesTo
<1>4. from <= Len(data) /\ Cut(data, from + 1, r) => found = Data!Nothing
  BY <1>2 DEF Right, DecodesTo
<1>5. Len(ValuesOf(w)) = Len(w)
  <2>1. Len(w) \in Nat
    BY LenProperties
  <2> QED  BY <2>1 DEF ValuesOf
<1> HIDE DEF found, inside, r
<1>6. ASSUME found = Data!Found(ValuesOf(w), from + 1 + Len(r))
               PROVE take = Data!Found(value, from + 1 + Len(r))
  <2>1. found.next = from + 1 + Len(r) /\ found.value = ValuesOf(w)
    BY <1>6 DEF Data!Found
  <2>2. found.next # 0
    BY <1>0, <2>1
  <2>3. kind = "dict" => Len(found.value) % 2 = 0
    BY <1>5, <2>1
  <2>4. take = Data!Found(Data!Value(kind, found.value), found.next)
    BY <2>2, <2>3, Zenon DEF Data!Contained
  <2> QED  BY <2>1, <2>4
<1>7. ASSUME found = Data!Nothing PROVE take = Data!Nothing
  <2>1. found.next = 0
    BY <1>7 DEF Data!Nothing, Data!Found
  <2> QED  BY <2>1, Zenon DEF Data!Contained
<1> HIDE DEF take, value
<1>8. tag[1] # "terminator"
  OBVIOUS
<1>9. from <= Len(data) /\ Lies(data, from + 1, r) =>
        take = Data!Found(value, from + 1 + Len(r))
  BY <1>3, <1>6
<1>10. from <= Len(data) /\ Cut(data, from + 1, r) => take = Data!Nothing
  BY <1>4, <1>7
<1>11. Comes(data, from, inside, value, <<tag>> \o r)
  BY <1>0, <1>1, <1>8, <1>9, <1>10, TagComes
<1> QED  BY <1>11, Zenon DEF inside, value, r

Inside(data, d, from) == Data!DecodeItems(data)[<<d - 1, Data!Holds(data[from]), from + 1>>]

LEMMA HoldsInline ==
  ASSUME NEW kind \in {"list", "dict"}, NEW n \in Nat
  PROVE  /\ <<"inline", kind, n>> \in DataByte
         /\ Data!Holds(<<"inline", kind, n>>) = IF kind = "dict" THEN 2 * n ELSE n
<1> DEFINE tag == <<"inline", kind, n>>
<1>1. kind \in Kinds
  BY DEF Kinds
<1>2. tag \in DataByte
  BY <1>1 DEF DataByte
<1>3. tag[1] = "inline" /\ tag[2] = kind /\ tag[3] = n
  OBVIOUS
<1> HIDE DEF tag
<1>4. Data!Holds(tag) = IF kind = "dict" THEN 2 * n ELSE n
  BY <1>3 DEF Data!Holds
<1> QED  BY <1>2, <1>4 DEF tag

LEMMA HoldsUntil ==
  ASSUME NEW kind \in {"list", "dict"}
  PROVE  <<"terminated", kind>> \in DataByte /\ Data!Holds(<<"terminated", kind>>) = Data!Until
<1> DEFINE tag == <<"terminated", kind>>
<1>1. tag \in DataByte
  <2>1. "terminated" \in Names /\ kind \in Contents
    BY DEF Names, Contents
  <2> QED  BY <2>1 DEF DataByte
<1>2. tag[1] = "terminated"
  OBVIOUS
<1> HIDE DEF tag
<1>3. Data!Holds(tag) = Data!Until
  BY <1>2, Zenon DEF Data!Holds
<1> QED  BY <1>1, <1>3 DEF tag

(* A list or dict is a tag, which tells what it holds, and its items. *)
LEMMA NestCode ==
  ASSUME NEW S, Closed(S), NEW kind, NEW content, Nest(S, kind, content)
  PROVE  /\ Data!Plain(kind, content) = Data!Value(kind, ValuesOf(content))
         /\ \E tag \in DataByte, c \in Int :
              /\ c \in {Len(content), Data!Until} /\ Data!Holds(tag) = c
              /\ tag[2] = kind /\ tag[1] \in {"inline", "terminated"}
              /\ Data!Encode(kind, content) = Before(tag, Code(content, c))
<1>1. kind \in {"list", "dict"} /\ content \in Seq(S) /\ (kind = "dict" => Len(content) % 2 = 0)
  BY DEF Nest
<1> DEFINE n == Len(content)
           count == IF kind = "dict" THEN n \div 2 ELSE n
           all == Data!EncodeAll(content)
           inline == <<"inline", kind, count>>
           until == <<"terminated", kind>>
           coded == Data!Encode(kind, content)
<1>2. Data!Plain(kind, content) = Data!Value(kind, ValuesOf(content))
  BY <1>1, Zenon DEF Data!Plain, ValuesOf
<1>3. coded = Data!EncodeContainer(kind, content)
  <2>1. kind # "constant" /\ kind # "int" /\ kind # "int64" /\ kind \notin {"text", "data"}
    BY <1>1
  <2> DEFINE e == Data!EncodeContainer(kind, content)
             c1 == Data!Tag("constant", content)
             c2 == Data!EncodeInt(content)
             c3 == Data!EncodeInt64(content)
             c4 == Data!EncodeLengthPrefixed(kind, content)
  <2>2. coded = CASE kind = "constant" -> c1
                  [] kind = "int" -> c2
                  [] kind = "int64" -> c3
                  [] kind \in {"text", "data"} -> c4
                  [] kind \in {"list", "dict"} -> e
    BY Zenon DEF Data!Encode
  <2> HIDE DEF e, c1, c2, c3, c4
  <2> QED  BY <1>1, <2>1, <2>2 DEF e
<1>4. Data!EncodeContainer(kind, content) =
        IF count <= InlineItems THEN <<inline>> \o all
             ELSE Data!Tag("terminated", kind) \o all \o Data!Tag("terminator", 0)
  BY Zenon DEF Data!EncodeContainer
<1>5. all \in Seq(DataByte) /\ n \in Nat
  BY <1>1, CodeType, LenProperties
<1>6. count \in Nat /\ (IF kind = "dict" THEN 2 * count ELSE count) = n
  BY <1>1, <1>5
<1>7. /\ inline \in DataByte /\ Data!Holds(inline) = n
      /\ inline[1] \in {"inline", "terminated"} /\ inline[2] = kind
      /\ n \in Int /\ n \in {Len(content), Data!Until}
  BY <1>1, <1>5, <1>6, HoldsInline
<1>8. /\ until \in DataByte /\ Data!Holds(until) = Data!Until
      /\ until[1] \in {"inline", "terminated"} /\ until[2] = kind
      /\ Data!Until \in Int /\ Data!Until \in {Len(content), Data!Until}
  BY <1>1, HoldsUntil DEF Data!Until
<1>9. Code(content, n) = all
  <2>1. n # Data!Until
    BY <1>5 DEF Data!Until
  <2>2. all \o <<>> = all
    BY <1>5, ConcatEmptySeq
  <2> QED  BY <2>1, <2>2, Zenon DEF Code
<1>10. Data!Tag("terminated", kind) \o all \o Data!Tag("terminator", 0) =
         Before(until, Code(content, Data!Until))
  <2> DEFINE a == Data!Tag("terminated", kind)
             e == Data!Tag("terminator", 0)
  <2>1. a = <<until>> /\ <<until>> \in Seq(DataByte)
    <3>1. until \in DataByte
      BY <1>8
    <3>2. a = <<until>>
      BY DEF Data!Tag
    <3> HIDE DEF until, a
    <3>3. <<until>> \in Seq(DataByte)
      BY <3>1
    <3> QED  BY <3>2, <3>3
  <2>2. e \in Seq(DataByte) /\ Code(content, Data!Until) = all \o e
    BY TerminatorType, Zenon DEF Code
  <2> HIDE DEF a, e, all, until
  <2>3. (a \o all) \o e = a \o (all \o e)
    BY <1>5, <2>1, <2>2, ConcatAssociative
  <2> QED  BY <2>1, <2>2, <2>3, Zenon DEF a, e, Before
<1>11. <<inline>> \o all = Before(inline, Code(content, n))
  BY <1>9, Zenon DEF Before
<1> HIDE DEF count, all, inline, until, n, coded
<1>12. CASE coded = Before(inline, Code(content, n))
  BY <1>2, <1>7, <1>12 DEF coded
<1>13. CASE coded = Before(until, Code(content, Data!Until))
  BY <1>2, <1>8, <1>13 DEF coded
<1> QED  BY <1>3, <1>4, <1>10, <1>11, <1>12, <1>13

LEMMA NestComes ==
  ASSUME NEW S, Closed(S), NEW data \in Seq(DataByte), NEW d \in Nat, NEW from \in Nat \ {0},
         d # 0, d + from >= Len(data) + 2, Right(S, data, d - 1),
         NEW kind, NEW content, Nest(S, kind, content)
  PROVE  Comes(data, from, Inside(data, d, from), Data!Plain(kind, content),
           Data!Encode(kind, content))
<1>1. kind \in {"list", "dict"} /\ content \in Seq(S) /\ (kind = "dict" => Len(content) % 2 = 0)
  BY DEF Nest
<1>2. PICK tag \in DataByte, c \in Int :
        /\ c \in {Len(content), Data!Until} /\ Data!Holds(tag) = c
        /\ tag[2] = kind /\ tag[1] \in {"inline", "terminated"}
        /\ Data!Encode(kind, content) = Before(tag, Code(content, c))
  BY NestCode
<1>3. Comes(data, from, Inside(data, d, from), Data!Value(kind, ValuesOf(content)),
        <<tag>> \o Code(content, c))
  BY <1>1, <1>2, ContainerComes DEF Inside
<1>4. Data!Plain(kind, content) = Data!Value(kind, ValuesOf(content))
  BY NestCode
<1>5. <<tag>> \o Code(content, c) = Data!Encode(kind, content)
  BY <1>2, Zenon DEF Before
<1> QED  BY <1>3, <1>4, <1>5

(* Each value is found where its encoding is, in as many turns. *)
LEMMA ItemComes ==
  ASSUME Byte \in Nat \ {0, 1}, InlineInt \in Nat, InlineLength \in Nat,
         NEW S, Closed(S), NEW data \in Seq(DataByte), NEW d \in Nat, NEW from \in Nat \ {0},
         d # 0, d + from >= Len(data) + 2, Right(S, data, d - 1), NEW v \in S
  PROVE  Comes(data, from, Inside(data, d, from), v.value, v.bytes)
<1>1. PICK kind, content : v = Data!Built(kind, content)
             /\ (Leaf(kind, content) \/ Nest(S, kind, content))
  BY DEF Closed
<1>2. v.value = Data!Plain(kind, content) /\ v.bytes = Data!Encode(kind, content)
  BY <1>1 DEF Data!Built
<1>3. CASE Leaf(kind, content)
  <2>1. Back(data, from, Inside(data, d, from), Data!Plain(kind, content),
          Data!Encode(kind, content))
    BY <1>3, LeafBack
  <2> QED  BY <1>2, <2>1, Zenon DEF Back
<1>4. CASE Nest(S, kind, content)
  BY <1>2, <1>4, NestComes
<1> QED  BY <1>1, <1>3, <1>4

(* A turn more. *)
LEMMA NoneRight ==
  ASSUME NEW data \in Seq(DataByte), NEW d \in 0 .. Len(data) + 1, NEW c \in {0, Data!Until},
         NEW from \in 1 .. Len(data) + 1, d + from >= Len(data) + 2
  PROVE  DecodesTo(data, d, <<>>, c, from)
<1> SUFFICES
         /\ Lies(data, from, Code(<<>>, c)) =>
              Data!DecodeItems(data)[<<d, c, from>>] =
                Data!Found(<<>>, from + Len(Code(<<>>, c)))
         /\ Cut(data, from, Code(<<>>, c)) =>
              Data!DecodeItems(data)[<<d, c, from>>] = Data!Nothing
  <2>1. ValuesOf(<<>>) = <<>>
    BY AllEmpty
  <2> QED  BY <2>1, Zenon DEF DecodesTo
<1> DEFINE at == Data!DecodeItems(data)
           result == at[<<d, c, from>>]
           code == Code(<<>>, c)
<1>1. result = Step(data, at, d, c, from)
  <2>1. c \in Int
    BY DEF Data!Until
  <2> QED  BY <2>1, DecodeIs
<1>2. Len(data) \in Nat
  BY LenProperties
<1> HIDE DEF at, result, code
<1>3. CASE c = 0
  <2>1. code = <<>>
    BY <1>3, CodeEmpty DEF code
  <2>2. Len(code) = 0
    BY <2>1
  <2>3. ~ Cut(data, from, code)
    BY <1>2, <2>2 DEF Cut
  <2>4. result = Data!Found(<<>>, from)
    BY <1>1, <1>3, Zenon DEF Step
  <2>5. from + Len(code) = from
    BY <2>2
  <2> QED  BY <2>3, <2>4, <2>5 DEF result, code, at
<1>4. CASE c = Data!Until
  <2> DEFINE tag == <<"terminator", 0>>
  <2>1. code = <<tag>>
    BY <1>4, CodeEmpty DEF code
  <2>2. tag[1] = "terminator" /\ Len(<<tag>>) = 1
    OBVIOUS
  <2> HIDE DEF tag
  <2>3. c # 0
    BY <1>4 DEF Data!Until
  <2>4. ASSUME Lies(data, from, code) PROVE result = Data!Found(<<>>, from + Len(code))
    <3>1. data[from] = tag
      BY <2>1, <2>4, LiesOne
    <3>2. from + Len(code) - 1 <= Len(data)
      BY <2>4 DEF Lies
    <3>3. from <= Len(data) /\ from + Len(code) = from + 1
      BY <1>2, <2>1, <2>2, <3>2
    <3>4. ~ (d = 0 \/ from > Len(data))
      BY <1>2, <3>3
    <3>5. result = Data!Found(<<>>, from + 1)
      BY <1>1, <1>4, <2>2, <2>3, <3>1, <3>4, Zenon DEF Step
    <3> QED  BY <3>3, <3>5
  <2>5. ASSUME Cut(data, from, code) PROVE result = Data!Nothing
    <3>1. Len(data) < from + Len(code) - 1
      BY <2>5 DEF Cut
    <3>2. from > Len(data)
      BY <1>2, <2>1, <2>2, <3>1
    <3> QED  BY <1>1, <2>3, <3>2, Zenon DEF Step
  <2> QED  BY <2>4, <2>5 DEF result, code, at
<1> QED  BY <1>3, <1>4

(* What is found behind a first value, or not. *)
Gives(data, at, d, c, from, result) == Step(data, at, d, c, from) = result

LEMMA StepIs ==
  ASSUME NEW data, NEW at, NEW d, NEW c, NEW from, c # 0, d # 0, ~ (from > Len(data)),
         data[from][1] # "terminator"
  PROVE  Step(data, at, d, c, from) =
           IF First(data, at, d, from).next \notin 1 .. Len(data) + 1 THEN Data!Nothing
           ELSE IF Behind(at, d, c, First(data, at, d, from)).next = 0 THEN Data!Nothing
           ELSE Data!Found(Before(First(data, at, d, from).value,
                                  Behind(at, d, c, First(data, at, d, from)).value),
                           Behind(at, d, c, First(data, at, d, from)).next)
  BY Zenon DEF Step, Before

LEMMA StepBehind ==
  ASSUME NEW data, NEW at, NEW d, NEW c, NEW from, c # 0, d # 0, ~ (from > Len(data)),
         data[from][1] # "terminator", First(data, at, d, from) = Data!Nothing
  PROVE  Step(data, at, d, c, from) = Data!Nothing
<1>1. First(data, at, d, from).next = 0
  BY DEF Data!Nothing, Data!Found
<1>2. 0 \notin 1 .. Len(data) + 1
  OBVIOUS
<1> QED  BY <1>1, <1>2, StepIs, Zenon

LEMMA StepNone ==
  ASSUME NEW data, NEW at, NEW d, NEW c, NEW from, c # 0, d # 0, ~ (from > Len(data)),
         data[from][1] # "terminator", NEW value, NEW next, next \in 1 .. Len(data) + 1,
         First(data, at, d, from) = Data!Found(value, next),
         Behind(at, d, c, Data!Found(value, next)) = Data!Nothing
  PROVE  Step(data, at, d, c, from) = Data!Nothing
<1>1. Behind(at, d, c, First(data, at, d, from)) = Data!Nothing
  BY Zenon
<1>2. Behind(at, d, c, First(data, at, d, from)).next = 0
  BY <1>1 DEF Data!Nothing, Data!Found
<1> QED  BY <1>2, StepIs, Zenon

LEMMA StepSome ==
  ASSUME NEW data, NEW at, NEW d, NEW c, NEW from, c # 0, d # 0, ~ (from > Len(data)),
         data[from][1] # "terminator", NEW value, NEW next, next \in 1 .. Len(data) + 1,
         First(data, at, d, from) = Data!Found(value, next), NEW rest, NEW end, end # 0,
         Behind(at, d, c, Data!Found(value, next)) = Data!Found(rest, end)
  PROVE  Gives(data, at, d, c, from, Data!Found(Before(value, rest), end))
<1> DEFINE first == First(data, at, d, from)
           behind == Behind(at, d, c, first)
<1>1. first.next = next /\ first.value = value
  BY DEF Data!Found
<1>2. behind = Data!Found(rest, end)
  BY Zenon
<1>3. behind.next = end /\ behind.value = rest
  BY <1>2 DEF Data!Found
<1>4. Step(data, at, d, c, from) =
        IF first.next \notin 1 .. Len(data) + 1 THEN Data!Nothing
        ELSE IF behind.next = 0 THEN Data!Nothing
        ELSE Data!Found(Before(first.value, behind.value), behind.next)
  BY StepIs, Zenon
<1> HIDE DEF first, behind
<1> QED  BY <1>1, <1>3, <1>4, Zenon DEF Gives

LEMMA SomeRight ==
  ASSUME Byte \in Nat \ {0, 1}, InlineInt \in Nat, InlineLength \in Nat,
         NEW S, Closed(S), NEW data \in Seq(DataByte),
         NEW d \in 1 .. Len(data) + 1, Right(S, data, d - 1),
         NEW v \in S, NEW u \in Seq(S), NEW c \in Int, c \in {1 + Len(u), Data!Until},
         NEW from \in 1 .. Len(data) + 1, d + from >= Len(data) + 2
  PROVE  DecodesTo(data, d, <<v>> \o u, c, from)
<1> SUFFICES
         /\ Lies(data, from, Code(<<v>> \o u, c)) =>
              Data!DecodeItems(data)[<<d, c, from>>]
                = Data!Found(ValuesOf(<<v>> \o u), from + Len(Code(<<v>> \o u, c)))
         /\ Cut(data, from, Code(<<v>> \o u, c)) =>
              Data!DecodeItems(data)[<<d, c, from>>] = Data!Nothing
  BY Zenon DEF DecodesTo
<1> DEFINE at == Data!DecodeItems(data)
           result == at[<<d, c, from>>]
           b == v.bytes
           c2 == IF c = Data!Until THEN Data!Until ELSE c - 1
           r == Code(u, c2)
           next == from + Len(b)
           L == Len(data)
           values2 == ValuesOf(u)
           x == v.value
           behind == at[<<d - 1, c2, next>>]
<1>1. result = Step(data, at, d, c, from)
  <2>1. d \in 0 .. Len(data) + 1
    OBVIOUS
  <2> QED  BY <2>1, DecodeIs
<1>2. L \in Nat /\ Len(u) \in Nat
  BY LenProperties
<1>3. c # 0 /\ c2 \in Int /\ c2 \in {Len(u), Data!Until} /\ (c = Data!Until <=> c2 = Data!Until)
  BY <1>2 DEF Data!Until
<1>4. Code(<<v>> \o u, c) = b \o r /\ ValuesOf(<<v>> \o u) = <<x>> \o values2
  <2>1. c = Data!Until <=> c2 = Data!Until
    BY <1>3
  <2> HIDE DEF c2
  <2>2. Joined(v, u, c, c2)
    BY <2>1, CodeFirst
  <2>3. ValuesOf(Before(v, u)) = Before(v.value, ValuesOf(u))
    BY AllFirst, ZenonT(30) DEF Before
  <2> QED  BY <2>2, <2>3, Zenon DEF Before, Joined, b, r, x, values2
<1>5. b \in Seq(DataByte) /\ r \in Seq(DataByte) /\ Len(b) \in Nat /\ Len(r) \in Nat
  <2>1. b \in Seq(DataByte)
    BY DEF Closed
  <2>2. r \in Seq(DataByte)
    BY CodeType
  <2> QED  BY <2>1, <2>2, LenProperties
<1>6. Comes(data, from, Inside(data, d, from), x, b)
  <2>1. d \in Nat /\ d # 0 /\ from \in Nat \ {0}
    BY <1>2
  <2> QED  BY <2>1, ItemComes
<1>7. First(data, at, d, from) = Data!DecodeValue(data, from, Inside(data, d, from))
  BY Zenon DEF First, Inside
<1>8. Len(b \o r) = Len(b) + Len(r)
  BY <1>5, ConcatProperties
<1>9. \A y : Behind(at, d, c, Data!Found(y, next)) = behind
  <2> SUFFICES ASSUME NEW y PROVE Behind(at, d, c, Data!Found(y, next)) = behind
    OBVIOUS
  <2>1. Data!Found(y, next).next = next
    BY DEF Data!Found
  <2> QED  BY <2>1, Zenon DEF Behind
<1>10. Right(S, data, d - 1)
  OBVIOUS
<1>11. ASSUME next \in 1 .. L + 1, (d - 1) + next >= L + 2
       PROVE  /\ Lies(data, next, r) => behind = Data!Found(values2, next + Len(r))
              /\ Cut(data, next, r) => behind = Data!Nothing
  BY <1>3, <1>10, <1>11 DEF Right, DecodesTo
<1> HIDE DEF at, result, b, c2, r, next, L, values2, x, behind
<1>12. ASSUME Lies(data, from, b)
       PROVE  /\ First(data, at, d, from) = Data!Found(x, next)
              /\ next \in 1 .. L + 1 /\ (d - 1) + next >= L + 2 /\ next # 0
              /\ d # 0 /\ ~ (from > L) /\ data[from][1] # "terminator"
  <2>1. /\ Data!DecodeValue(data, from, Inside(data, d, from)) = Data!Found(x, from + Len(b))
        /\ data[from][1] # "terminator" /\ from <= L /\ Len(b) # 0
    BY <1>6, <1>12 DEF Comes, L
  <2>2. from + Len(b) - 1 <= L
    BY <1>12 DEF Lies, L
  <2>3. d \in 1 .. L + 1 /\ from \in 1 .. L + 1 /\ d + from >= L + 2
    BY DEF L
  <2>4. next \in 1 .. L + 1 /\ (d - 1) + next >= L + 2 /\ next # 0 /\ d # 0 /\ ~ (from > L)
    BY <1>2, <1>5, <2>1, <2>2, <2>3 DEF next
  <2> QED  BY <1>7, <2>1, <2>4 DEF next
<1>13. ASSUME Lies(data, from, b \o r)
                PROVE result = Data!Found(<<x>> \o values2, from + Len(b \o r))
  <2>1. Lies(data, from, b) /\ Lies(data, next, r)
    BY <1>5, <1>13, LiesConcat DEF next
  <2>2. behind = Data!Found(values2, next + Len(r))
    BY <1>11, <1>12, <2>1
  <2>3. next + Len(r) # 0 /\ next + Len(r) = from + Len(b \o r)
    <3>1. next \in 1 .. L + 1
      BY <1>12, <2>1
    <3>2. next + Len(r) # 0
      BY <1>2, <1>5, <3>1
    <3>3. from + Len(b) + Len(r) = from + Len(b \o r)
      BY <1>5, <1>8
    <3> QED  BY <3>2, <3>3 DEF next
  <2>4. Step(data, at, d, c, from) = Data!Found(<<x>> \o values2, next + Len(r))
    <3>1. First(data, at, d, from) = Data!Found(x, next) /\ next \in 1 .. Len(data) + 1
      BY <1>12, <2>1 DEF L
    <3>2. Behind(at, d, c, Data!Found(x, next)) = Data!Found(values2, next + Len(r))
            /\ next + Len(r) # 0
      BY <1>9, <2>2, <2>3
    <3>3. c # 0 /\ d # 0 /\ ~ (from > Len(data)) /\ data[from][1] # "terminator"
      BY <1>3, <1>12, <2>1 DEF L
    <3> DEFINE end == next + Len(r)
    <3>4. Behind(at, d, c, Data!Found(x, next)) = Data!Found(values2, end) /\ end # 0
      BY <3>2
    <3> HIDE DEF end
    <3>5. Gives(data, at, d, c, from, Data!Found(Before(x, values2), end))
      BY <3>1, <3>3, <3>4, StepSome
    <3> QED  BY <3>5, Zenon DEF Before, Gives, end
  <2> QED  BY <1>1, <2>3, <2>4
<1>14. ASSUME Cut(data, from, b \o r) PROVE result = Data!Nothing
  <2>1. CASE from > L
    BY <1>1, <1>3, <2>1, Zenon DEF Step, L
  <2>2. CASE ~ (from > L)
    <3>1. from <= L /\ d # 0
      <4>1. d \in 1 .. L + 1 /\ from \in 1 .. L + 1 /\ d + from >= L + 2
        BY DEF L
      <4> QED  BY <1>2, <2>2, <4>1
    <3>2. Cut(data, from, b) \/ (Lies(data, from, b) /\ Cut(data, next, r))
      BY <1>5, <1>14, CutConcat DEF next
    <3>3. CASE Cut(data, from, b)
      <4>1. First(data, at, d, from) = Data!Nothing /\ data[from][1] # "terminator"
        BY <1>6, <1>7, <3>1, <3>3 DEF Comes, L
      <4>2. ~ (from > Len(data))
        BY <2>2 DEF L
      <4>3. Step(data, at, d, c, from) = Data!Nothing
        BY <1>3, <3>1, <4>1, <4>2, StepBehind
      <4> QED  BY <1>1, <4>3
    <3>4. CASE Lies(data, from, b) /\ Cut(data, next, r)
      <4>1. behind = Data!Nothing
        BY <1>11, <1>12, <3>4
      <4>2. First(data, at, d, from) = Data!Found(x, next) /\ next \in 1 .. Len(data) + 1
        BY <1>12, <3>4 DEF L
      <4>3. Behind(at, d, c, Data!Found(x, next)) = Data!Nothing
        BY <1>9, <4>1
      <4>4. c # 0 /\ d # 0 /\ ~ (from > Len(data)) /\ data[from][1] # "terminator"
        BY <1>3, <1>12, <3>4 DEF L
      <4>5. Step(data, at, d, c, from) = Data!Nothing
        BY <4>2, <4>3, <4>4, StepNone
      <4> QED  BY <1>1, <4>5
    <3> QED  BY <3>2, <3>3, <3>4
  <2> QED  BY <2>1, <2>2
<1> QED  BY <1>4, <1>13, <1>14 DEF result, at

LEMMA AlwaysRight ==
  ASSUME Byte \in Nat \ {0, 1}, InlineInt \in Nat, InlineLength \in Nat,
         NEW S, Closed(S), NEW data \in Seq(DataByte)
  PROVE  \A d \in 0 .. Len(data) + 1 : Right(S, data, d)
<1> DEFINE n == Len(data) + 1
           T == {d \in 0 .. n : Right(S, data, d)}
<1>0. Len(data) \in Nat /\ n \in Nat
  BY LenProperties
<1>1. 0 \in T
  <2>1. Right(S, data, 0)
    BY <1>0 DEF Right, DecodesTo
  <2> QED  BY <1>0, <2>1
<1>2. ASSUME NEW k \in 0 .. n, k \in T /\ k < n PROVE k + 1 \in T
  <2> DEFINE d == k + 1
  <2>1. d \in 1 .. Len(data) + 1 /\ d - 1 = k
    BY <1>0, <1>2
  <2>2. Right(S, data, d - 1)
    BY <1>2, <2>1
  <2> HIDE DEF d
  <2>3. ASSUME NEW w \in Seq(S), NEW c \in Int, NEW from \in 1 .. Len(data) + 1,
               c \in {Len(w), Data!Until}, d + from >= Len(data) + 2
        PROVE  DecodesTo(data, d, w, c, from)
    <3>1. CASE Len(w) = 0
      <4>1. w = <<>>
        BY <3>1
      <4>2. c \in {0, Data!Until} /\ d \in 0 .. Len(data) + 1
        BY <2>1, <2>3, <3>1
      <4>3. DecodesTo(data, d, <<>>, c, from)
        BY <2>3, <4>2, NoneRight
      <4> QED  BY <4>1, <4>3
    <3>2. CASE Len(w) # 0
      <4>1. PICK v \in S, u \in Seq(S) : w = <<v>> \o u
        BY <3>2, FirstOf
      <4>2. Len(w) = 1 + Len(u)
        BY <4>1, AllFirst
      <4>3. c \in {1 + Len(u), Data!Until}
        BY <2>3, <4>2
      <4>4. DecodesTo(data, d, <<v>> \o u, c, from)
        BY <2>1, <2>2, <2>3, <4>3, SomeRight
      <4> QED  BY <4>1, <4>4
    <3> QED  BY <3>1, <3>2
  <2>4. Right(S, data, d)
    BY <2>3 DEF Right
  <2>5. d \in 0 .. n
    BY <1>0, <2>1
  <2>6. d \in T
    BY <2>4, <2>5
  <2> QED  BY <2>6 DEF d
<1> HIDE DEF T
<1>3. \A k \in 0 .. n : k \in T
  BY <1>0, <1>1, <1>2, NumbersUpTo
<1> QED  BY <1>3 DEF T

(* One value, wherever it is from the start of a payload on. *)
LEMMA OneRight ==
  ASSUME Byte \in Nat \ {0, 1}, InlineInt \in Nat, InlineLength \in Nat,
         NEW S, Closed(S), NEW v \in S, NEW data \in Seq(DataByte)
  PROVE  /\ Lies(data, 1, v.bytes) =>
              Data!Decode(data) = Data!Found(<<v.value>>, Len(v.bytes) + 1)
         /\ Cut(data, 1, v.bytes) => Data!Decode(data) = Data!Nothing
<1> DEFINE d == Len(data) + 1
           w == <<v>>
           code == Code(w, 1)
           b == v.bytes
<1>1. Len(data) \in Nat /\ d \in 0 .. Len(data) + 1 /\ 1 \in 1 .. Len(data) + 1
        /\ d + 1 >= Len(data) + 2
  BY LenProperties
<1>2. w \in Seq(S) /\ Len(w) = 1 /\ 1 \in Int /\ 1 \in {Len(w), Data!Until}
  OBVIOUS
<1>3. b \in Seq(DataByte) /\ Len(b) \in Nat /\ b \o <<>> = b
  <2>1. b \in Seq(DataByte)
    BY DEF Closed
  <2> QED  BY <2>1, LenProperties, ConcatEmptySeq
<1>4. ValuesOf(w) = <<v.value>>
  BY DEF ValuesOf
<1>5. code = b
  <2>1. Append(<<>>, b) = <<b>> /\ <<>> \in Seq(Seq(DataByte)) /\ <<>> \o b = b
    BY <1>3, ConcatEmptySeq
  <2>2. Flat(Append(<<>>, b)) = Flat(<<>>) \o b
    BY <1>3, <2>1, FlatAppend
  <2>3. [i \in 1 .. Len(w) |-> w[i].bytes] = <<b>>
    OBVIOUS
  <2>4. Data!EncodeAll(w) = Flat(<<b>>)
    BY <2>3, DataFlat, Zenon DEF Data!EncodeAll
  <2>5. Data!EncodeAll(w) = b
    BY <2>1, <2>2, <2>4, FlatEmpty, Zenon
  <2>6. 1 # Data!Until
    BY DEF Data!Until
  <2> HIDE DEF w, b
  <2>7. code = b \o <<>>
    BY <2>5, <2>6, Zenon DEF Code
  <2> QED  BY <1>3, <2>7
<1>6. Right(S, data, d)
  BY <1>1, AlwaysRight
<1>7. Data!Decode(data) = Data!DecodeItems(data)[<<d, 1, 1>>]
  BY DEF Data!Decode
<1> HIDE DEF d, w, code, b
<1>8. /\ Lies(data, 1, code) => Data!DecodeItems(data)[<<d, 1, 1>>] =
           Data!Found(ValuesOf(w), 1 + Len(code))
      /\ Cut(data, 1, code) => Data!DecodeItems(data)[<<d, 1, 1>>] = Data!Nothing
  BY <1>1, <1>2, <1>6 DEF Right, DecodesTo, code
<1>9. 1 + Len(b) = Len(b) + 1
  BY <1>3
<1> QED  BY <1>4, <1>5, <1>7, <1>8, <1>9 DEF b

LEMMA ItComesBack ==
  ASSUME Byte \in Nat \ {0, 1}, InlineInt \in Nat, InlineLength \in Nat, NEW S, Closed(S),
         NEW v \in S
  PROVE  Data!ComesBack(v) /\ Data!CutShortIsRefused(v)
<1> DEFINE b == v.bytes
           L == Len(b)
<1>1. b \in Seq(DataByte) /\ L \in Nat
  BY LenProperties DEF Closed
<1>2. Lies(b, 1, b)
  BY <1>1 DEF Lies
<1>3. Data!ComesBack(v)
  BY <1>1, <1>2, OneRight DEF Data!ComesBack
<1>4. ASSUME NEW n \in 0 .. L - 1 PROVE Data!Decode(SubSeq(b, 1, n)).next = 0
  <2> DEFINE s == SubSeq(b, 1, n)
  <2>1. s \in Seq(DataByte) /\ Len(s) = n /\ \A i \in 1 .. n : s[i] = b[i]
    <3>1. n \in 0 .. Len(b)
      BY <1>1
    <3> QED  BY <1>1, <3>1, Firsts
  <2> HIDE DEF s, b
  <2>2. ASSUME NEW i \in 1 .. L, 1 + i - 1 <= Len(s) PROVE s[1 + i - 1] = b[i]
    <3>1. i \in 1 .. n /\ 1 + i - 1 = i
      BY <2>1, <2>2
    <3> QED  BY <2>1, <3>1
  <2>3. 1 <= Len(s) + 1 /\ Len(s) < 1 + L - 1
    BY <1>1, <2>1
  <2>4. Cut(s, 1, b)
    BY <2>2, <2>3 DEF Cut
  <2>5. Data!Decode(s) = Data!Nothing
    BY <2>1, <2>4, OneRight DEF b
  <2> QED  BY <2>5 DEF Data!Nothing, Data!Found, s
<1> QED  BY <1>3, <1>4 DEF Data!CutShortIsRefused

(* What is between a header's size, a header and a message. *)
Sliced(x, a, b) ==
  /\ (<<x>> \o a \o b)[1] = x
  /\ SubSeq(<<x>> \o a \o b, 2, 1 + Len(a)) = a
  /\ SubSeq(<<x>> \o a \o b, 2 + Len(a), Len(<<x>> \o a \o b)) = b

LEMMA Slices == ASSUME NEW X, NEW x \in X, NEW a \in Seq(X), NEW b \in Seq(X)
                  PROVE Sliced(x, a, b)
<1> DEFINE one == <<x>>
           c == one \o a
           p == c \o b
           n == Len(a)
           m == Len(b)
<1>1. one \in Seq(X) /\ Len(one) = 1 /\ n \in Nat /\ m \in Nat
  BY LenProperties
<1> HIDE DEF one
<1>2. c \in Seq(X) /\ Len(c) = 1 + n
  BY <1>1, ConcatProperties, ZenonT(30)
<1> HIDE DEF c
<1>3. p \in Seq(X) /\ Len(p) = Len(c) + m
  BY <1>2, ConcatProperties
<1>4. Lies(p, 1, p)
  BY <1>3 DEF Lies
<1>5. Lies(p, 1, c) /\ Lies(p, 1 + Len(c), b)
  BY <1>2, <1>3, <1>4, LiesConcat DEF p
<1>6. Lies(p, 1, one) /\ Lies(p, 1 + Len(one), a)
  BY <1>1, <1>3, <1>5, LiesConcat DEF c
<1>7. p[1] = x
  BY <1>6, LiesOne DEF one
<1>8. Lies(p, 2, a) /\ Lies(p, 2 + n, b)
  <2>1. 1 + Len(one) = 2 /\ 1 + Len(c) = 2 + n
    BY <1>1, <1>2
  <2> QED  BY <1>5, <1>6, <2>1
<1> HIDE DEF p, n, m
<1>9. SubSeq(p, 2, 2 + n - 1) = a
  <2>1. Data!Taken(p, 2, Len(a)) = a
    BY <1>3, <1>8, LiesTaken
  <2> QED  BY <2>1 DEF Data!Taken, n
<1>10. SubSeq(p, 2 + n, (2 + n) + m - 1) = b
  <2>1. 2 + n \in Nat \ {0}
    BY <1>1
  <2>2. Data!Taken(p, 2 + n, Len(b)) = b
    BY <1>3, <1>8, <2>1, LiesTaken
  <2> QED  BY <2>2 DEF Data!Taken, m
<1>11. 2 + n - 1 = 1 + n /\ (2 + n) + m - 1 = Len(p)
  BY <1>1, <1>2, <1>3
<1>12. SubSeq(p, 2, 1 + n) = a /\ SubSeq(p, 2 + n, Len(p)) = b
  BY <1>9, <1>10, <1>11, Zenon
<1> QED  BY <1>7, <1>12, Zenon DEF Sliced, p, c, one, n

LEMMA MoreBytes ==
  ASSUME NEW X, NEW Y, X \subseteq Y, NEW s \in Seq(X)
  PROVE  s \in Seq(Y)
<1> DEFINE n == Len(s)
<1>1. s = [i \in 1 .. n |-> s[i]] /\ n \in Nat
  BY LenProperties
<1>2. \A i \in 1 .. n : s[i] \in Y
  BY ElementOfSeq
<1> HIDE DEF n
<1> QED  BY <1>1, <1>2, IsASeq

LEMMA ItsMessageComesBack ==
  ASSUME Byte \in Nat \ {0, 1}, InlineInt \in Nat, InlineLength \in Nat,
         NEW S, Closed(S), NEW v \in S, NEW H, Closed(H), NEW kind, Data!Header(kind) \in H
  PROVE  Data!MessageComesBack(kind, v)
<1> DEFINE a == Data!Header(kind).bytes
           b == v.bytes
           X == DataByte \cup Nat
           x == Len(a)
           p == <<x>> \o a \o b
<1>1. a \in Seq(DataByte) /\ b \in Seq(DataByte) /\ x \in Nat
  BY LenProperties DEF Closed
<1>2. a \in Seq(X) /\ b \in Seq(X) /\ x \in X
  BY <1>1, MoreBytes
<1>3. Data!EncodeMessage(kind, v) = p
  BY Zenon DEF Data!EncodeMessage
<1> HIDE DEF X
<1>4. p[1] = x /\ SubSeq(p, 2, 1 + Len(a)) = a /\ SubSeq(p, 2 + Len(a), Len(p)) = b
  <2> HIDE DEF a, b, x
  <2>1. Sliced(x, a, b)
    BY <1>2, Slices
  <2> QED  BY <2>1, Zenon DEF Sliced
<1>5. SubSeq(p, 2, 1 + p[1]) = a /\ SubSeq(p, 2 + p[1], Len(p)) = b
  BY <1>4, Zenon DEF x
<1> HIDE DEF p
<1>6. Data!HeaderOf(p) = Data!Decode(a) /\ Data!MessageOf(p) = Data!Decode(b)
  BY <1>5, Zenon DEF Data!HeaderOf, Data!MessageOf
<1>7. Data!Decode(a) = Data!Found(<<Data!Header(kind).value>>, Len(a) + 1)
  BY ItComesBack DEF Data!ComesBack
<1>8. Data!Decode(b) = Data!Found(<<v.value>>, Len(b) + 1)
  BY ItComesBack DEF Data!ComesBack
<1>9. Len(a) + 1 # 0 /\ Len(b) + 1 # 0
  BY <1>1, LenProperties
<1>10. /\ Data!HeaderOf(p).next # 0 /\ Data!HeaderOf(p).value = <<Data!Header(kind).value>>
       /\ Data!MessageOf(p).next # 0 /\ Data!MessageOf(p).value = <<v.value>>
  BY <1>6, <1>7, <1>8, <1>9 DEF Data!Found
<1> QED  BY <1>3, <1>10, Zenon DEF Data!MessageComesBack

LEMMA NestType ==
  ASSUME NEW S, Closed(S), NEW kind, NEW content, Nest(S, kind, content)
  PROVE  Data!Encode(kind, content) \in Seq(DataByte)
<1>1. PICK tag \in DataByte, c \in Int : Data!Encode(kind, content) =
             Before(tag, Code(content, c))
  BY NestCode
<1>2. content \in Seq(S)
  BY DEF Nest
<1> DEFINE one == <<tag>>
           r == Code(content, c)
<1>3. one \in Seq(DataByte) /\ r \in Seq(DataByte)
  BY <1>2, CodeType
<1>4. Data!Encode(kind, content) = one \o r
  BY <1>1, Zenon DEF Before
<1> HIDE DEF one, r
<1> QED  BY <1>3, <1>4, ConcatProperties

LEMMA LeafType ==
  ASSUME Byte \in Nat \ {0, 1}, InlineInt \in Nat, InlineLength \in Nat,
         NEW kind, NEW content, Leaf(kind, content)
  PROVE  Data!Encode(kind, content) \in Seq(DataByte)
<1> DEFINE data == <<>>
           from == 1
           inside == 0
<1>1. data \in Seq(DataByte) /\ from \in Nat \ {0}
  OBVIOUS
<1> HIDE DEF data, from, inside
<1>2. Back(data, from, inside, Data!Plain(kind, content), Data!Encode(kind, content))
  BY <1>1, LeafBack
<1> QED  BY <1>2, Zenon DEF Back

(* What can be built of some values. *)
New(S, v) == \E kind, content : v = Data!Built(kind, content)
  /\ (Leaf(kind, content) \/ Nest(S, kind, content))

(* A set stays closed when what can be built of it is added.                 *)
LEMMA Grown ==
  ASSUME Byte \in Nat \ {0, 1}, InlineInt \in Nat, InlineLength \in Nat,
         NEW S, NEW T, Closed(S), \A v \in T : New(S, v)
  PROVE  Closed(S \cup T)
<1> DEFINE U == S \cup T
<1>1. S \subseteq U
  OBVIOUS
<1> HIDE DEF U
<1>2. ASSUME NEW kind, NEW content, Nest(S, kind, content) PROVE Nest(U, kind, content)
  <2>1. content \in Seq(S)
    BY <1>2 DEF Nest
  <2>2. content \in Seq(U)
    BY <1>1, <2>1, MoreBytes
  <2> QED  BY <1>2, <2>2 DEF Nest
<1>3. ASSUME NEW v \in S
      PROVE  /\ v.bytes \in Seq(DataByte)
             /\ \E kind, content : v = Data!Built(kind, content)
                  /\ (Leaf(kind, content) \/ Nest(U, kind, content))
  BY <1>2 DEF Closed
<1>4. ASSUME NEW v \in T
      PROVE  /\ v.bytes \in Seq(DataByte)
             /\ \E kind, content : v = Data!Built(kind, content)
                  /\ (Leaf(kind, content) \/ Nest(U, kind, content))
  <2>1. PICK kind, content : v = Data!Built(kind, content)
               /\ (Leaf(kind, content) \/ Nest(S, kind, content))
    BY DEF New
  <2>2. v.bytes = Data!Encode(kind, content)
    BY <2>1 DEF Data!Built
  <2>3. Data!Encode(kind, content) \in Seq(DataByte)
    BY <2>1, LeafType, NestType
  <2>4. Leaf(kind, content) \/ Nest(U, kind, content)
    BY <1>2, <2>1
  <2> QED  BY <2>1, <2>2, <2>3, <2>4
<1> QED  BY <1>3, <1>4 DEF Closed, U

LEMMA NoneClosed == Closed({})
  BY DEF Closed

LEMMA OpaqueType ==
  ASSUME NEW n \in Nat PROVE Data!Opaque(n) \in Seq(DataByte) /\ Len(Data!Opaque(n)) = n
<1>1. \A b \in 1 .. n : <<"opaque", b>> \in DataByte
  BY DEF DataByte, Names, Contents
<1> QED  BY <1>1, IsASeq DEF Data!Opaque

LEMMA TextNew ==
  ASSUME NEW n \in Nat, n < Data!Power[8], NEW kind \in {"text", "data"}, NEW S
  PROVE  New(S, Data!Built(kind, Data!Opaque(n)))
<1>1. Leaf(kind, Data!Opaque(n))
  BY OpaqueType DEF Leaf
<1> QED  BY <1>1 DEF New

(* Eight bytes are enough for the header. *)
LEMMA SomePower == ASSUME Byte \in Nat \ {0, 1} PROVE Data!Power[8] >= 4
<1> DEFINE P(w) == Data!Power[w]
<1>1. ASSUME NEW w \in 0 .. 7 PROVE P(w + 1) >= 2 * P(w) /\ P(w) \in Nat /\ P(w + 1) \in Nat
  <2> DEFINE q == Data!Power[w]
  <2>1. Data!Power[w + 1] = Byte * q
    BY PowerIs
  <2>2. q \in Nat \ {0}
    <3>1. w \in 0 .. 8
      OBVIOUS
    <3> QED  BY <3>1, PowerIs
  <2> HIDE DEF q
  <2>3. Byte * q >= 2 * q /\ Byte * q \in Nat
    <3>1. PICK k \in Nat : Byte = 2 + k
      <4>1. Byte - 2 \in Nat /\ Byte = 2 + (Byte - 2)
        OBVIOUS
      <4> QED  BY <4>1
    <3>2. Byte * q = 2 * q + k * q
      BY <2>2, <3>1
    <3>3. k * q \in Nat
      BY <2>2
    <3> QED  BY <2>2, <3>2, <3>3
  <2> QED  BY <2>1, <2>2, <2>3 DEF q
<1> HIDE DEF P
<1>2. P(0) = 1
  BY PowerIs DEF P
<1>3. P(1) >= 2 * P(0) /\ P(1) \in Nat
  <2>1. 0 \in 0 .. 7 /\ 0 + 1 = 1
    OBVIOUS
  <2> QED  BY <1>1, <2>1
<1>4. \A w \in 1 .. 7 : P(w + 1) >= 2 * P(w) /\ P(w) \in Nat /\ P(w + 1) \in Nat
  BY <1>1
<1>5. P(2) >= 2 * P(1) /\ P(2) \in Nat
  <2>1. 1 \in 1 .. 7 /\ 1 + 1 = 2
    OBVIOUS
  <2> QED  BY <1>4, <2>1
<1>6. P(3) >= P(2) /\ P(3) \in Nat
  <2>1. 2 \in 1 .. 7 /\ 2 + 1 = 3
    OBVIOUS
  <2> QED  BY <1>4, <1>5, <2>1
<1>7. P(4) >= P(3) /\ P(4) \in Nat
  <2>1. 3 \in 1 .. 7 /\ 3 + 1 = 4
    OBVIOUS
  <2> QED  BY <1>4, <1>6, <2>1
<1>8. P(5) >= P(4) /\ P(5) \in Nat
  <2>1. 4 \in 1 .. 7 /\ 4 + 1 = 5
    OBVIOUS
  <2> QED  BY <1>4, <1>7, <2>1
<1>9. P(6) >= P(5) /\ P(6) \in Nat
  <2>1. 5 \in 1 .. 7 /\ 5 + 1 = 6
    OBVIOUS
  <2> QED  BY <1>4, <1>8, <2>1
<1>10. P(7) >= P(6) /\ P(7) \in Nat
  <2>1. 6 \in 1 .. 7 /\ 6 + 1 = 7
    OBVIOUS
  <2> QED  BY <1>4, <1>9, <2>1
<1>11. P(8) >= P(7) /\ P(8) \in Nat
  <2>1. 7 \in 1 .. 7 /\ 7 + 1 = 8
    OBVIOUS
  <2> QED  BY <1>4, <1>10, <2>1
<1>12. P(8) >= 4
  BY <1>2, <1>3, <1>5, <1>6, <1>7, <1>8, <1>9, <1>10, <1>11
<1> QED  BY <1>12 DEF P

LEMMA ParametersAre ==
  ASSUME Data!Parameters
  PROVE  /\ Byte \in Nat \ {0, 1} /\ InlineInt \in Nat /\ InlineLength \in Nat
         /\ \A n \in Ints : n \in Int /\ Data!Fits(n, 8)
         /\ \A n \in DataLengths \cup OtherLengths : n \in Nat /\ n < Data!Power[8]
         /\ MaxValues \in Nat /\ MaxDepth \in Nat /\ 2 * (MaxValues + MaxDepth) < Data!Power[8]
  BY DEF Data!Parameters

LEMMA LongNew ==
  ASSUME Byte \in Nat \ {0, 1}, NEW S PROVE New(S, Data!Built("int64", 0))
<1>1. Data!Power[8] \in Nat \ {0}
  <2>1. 8 \in 0 .. 8
    OBVIOUS
  <2> QED  BY <2>1, PowerIs
<1>2. Data!Fits(0, 8)
  BY <1>1 DEF Data!Fits
<1>3. Leaf("int64", 0)
  BY <1>2 DEF Leaf
<1> QED  BY <1>3 DEF New

(* The header is made of such values, too. *)
LEMMA HeaderClosed ==
  ASSUME Byte \in Nat \ {0, 1}, InlineInt \in Nat, InlineLength \in Nat,
         NEW kind \in {"request", "response", "event"}
  PROVE  \E H : Closed(H) /\ Data!Header(kind) \in H
<1> DEFINE t0 == Data!Text(0)
           t1 == Data!Text(1)
           t2 == Data!Text(2)
           t3 == Data!Text(3)
           z == Data!Built("int64", 0)
           S == {} \cup {t0, t1, t2, t3, z}
           id == IF kind = "event" THEN <<>> ELSE <<t2, z>>
           status == IF kind = "response" THEN <<t3, z>> ELSE <<>>
           start == <<t0, t0, t1, t0>>
           content == start \o id \o status
           header == Data!Built("dict", content)
<1>1. ASSUME NEW n \in 0 .. 3 PROVE New({}, Data!Text(n))
  <2>1. Data!Power[8] >= 4 /\ Data!Power[8] \in Nat
    <3>1. 8 \in 0 .. 8
      OBVIOUS
    <3> QED  BY <3>1, SomePower, PowerIs
  <2>2. n \in Nat /\ n < Data!Power[8]
    BY <2>1
  <2> QED  BY <2>2, TextNew DEF Data!Text
<1>2. New({}, t0) /\ New({}, t1) /\ New({}, t2) /\ New({}, t3) /\ New({}, z)
  <2>1. 0 \in 0 .. 3 /\ 1 \in 0 .. 3 /\ 2 \in 0 .. 3 /\ 3 \in 0 .. 3
    OBVIOUS
  <2> QED  BY <1>1, <2>1, LongNew
<1>3. Data!Header(kind) = header
  BY Zenon DEF Data!Header
<1> HIDE DEF t0, t1, t2, t3, z
<1>4. Closed(S)
  BY <1>2, NoneClosed, Grown
<1>5. start \in Seq(S) /\ Len(start) = 4
  OBVIOUS
<1> DEFINE two == <<t2, z>>
           three == <<t3, z>>
<1>13. two \in Seq(S) /\ Len(two) = 2 /\ three \in Seq(S) /\ Len(three) = 2
         /\ <<>> \in Seq(S) /\ Len(<<>>) = 0
  OBVIOUS
<1>14. id \in {<<>>, two} /\ status \in {<<>>, three}
  <2> HIDE DEF two, three
  <2>1. id = IF kind = "event" THEN <<>> ELSE two
    BY Zenon DEF two
  <2>2. status = IF kind = "response" THEN three ELSE <<>>
    BY Zenon DEF three
  <2> QED  BY <2>1, <2>2
<1> HIDE DEF two, three, id, status
<1>6. id \in Seq(S) /\ Len(id) \in {0, 2}
  BY <1>13, <1>14
<1>7. status \in Seq(S) /\ Len(status) \in {0, 2}
  BY <1>13, <1>14
<1> HIDE DEF S, start, id, status
<1>8. start \o id \in Seq(S) /\ Len(start \o id) = 4 + Len(id)
  <2>1. id \in Seq(S)
    BY <1>6
  <2>2. start \o id \in Seq(S) /\ Len(start \o id) = Len(start) + Len(id)
    BY <1>5, <2>1, ConcatProperties
  <2> QED  BY <1>5, <2>2
<1> DEFINE first == start \o id
<1> HIDE DEF first
<1>9. first \o status \in Seq(S) /\ Len(first \o status) = 4 + Len(id) + Len(status)
  BY <1>7, <1>8, ConcatProperties DEF first
<1>10. content \in Seq(S) /\ Len(content) % 2 = 0
  <2>1. content \in Seq(S) /\ Len(content) = 4 + Len(id) + Len(status)
    BY <1>9, Zenon DEF first
  <2> DEFINE x == Len(id)
             y == Len(status)
             l == Len(content)
  <2>3. x \in {0, 2} /\ y \in {0, 2} /\ l = 4 + x + y
    BY <1>6, <1>7, <2>1
  <2> HIDE DEF x, y, l
  <2>4. l \in {4, 6, 8}
    BY <2>3
  <2>2. Len(content) \in {4, 6, 8}
    BY <2>4 DEF l
  <2> HIDE DEF content
  <2> QED  BY <2>1, <2>2
<1> HIDE DEF content
<1>11. Nest(S, "dict", content)
  BY <1>10 DEF Nest
<1>12. New(S, header)
  BY <1>11 DEF New
<1> HIDE DEF header
<1>15. Closed(S \cup {header})
  BY <1>4, <1>12, Grown
<1> QED  BY <1>3, <1>15

LEMMA ValuesComeBack ==
  ASSUME Byte \in Nat \ {0, 1}, InlineInt \in Nat, InlineLength \in Nat,
         NEW S, Closed(S), values \in Seq(S)
  PROVE  MessagesComeBack
<1> SUFFICES ASSUME values # <<>>
             PROVE  /\ Data!ComesBack(Data!Last(values))
                         /\ Data!CutShortIsRefused(Data!Last(values))
                    /\ \A kind \in {"request", "response", "event"} :
                         Data!MessageComesBack(kind, Data!Last(values))
  BY Zenon DEF MessagesComeBack, Data!MessagesComeBack
<1> DEFINE v == Data!Last(values)
<1>1. v \in S
  <2>1. Len(values) \in 1 .. Len(values)
    <3>1. Len(values) \in Nat /\ Len(values) # 0
      BY LenProperties
    <3> QED  BY <3>1
  <2> QED  BY <2>1, ElementOfSeq DEF Data!Last
<1> HIDE DEF v
<1>2. Data!ComesBack(v) /\ Data!CutShortIsRefused(v)
  BY <1>1, ItComesBack
<1>3. ASSUME NEW kind \in {"request", "response", "event"} PROVE Data!MessageComesBack(kind, v)
  <2>1. PICK H : Closed(H) /\ Data!Header(kind) \in H
    BY HeaderClosed
  <2> QED  BY <1>1, <2>1, ItsMessageComesBack
<1> QED  BY <1>2, <1>3 DEF v

(* The values that were built are built of one another, and are not many. *)
ValuesOK ==
  /\ \E S : Closed(S) /\ values \in Seq(S)
  /\ made \in 0 .. MaxDepth /\ Len(values) <= MaxValues + made

LEMMA ValuesInit == ASSUME Data!Parameters, Data!Init PROVE ValuesOK
<1>1. values = <<>> /\ made = 0
  BY DEF Data!Init
<1>2. values \in Seq({}) /\ Len(values) = 0
  BY <1>1
<1>3. Closed({})
  BY NoneClosed
<1>4. made \in 0 .. MaxDepth /\ Len(values) <= MaxValues + made
  BY <1>1, <1>2, ParametersAre
<1> QED  BY <1>2, <1>3, <1>4 DEF ValuesOK

LEMMA BuildStep ==
  ASSUME Data!Parameters, ValuesOK, NEW leaf \in Data!Leaves, Data!Build(leaf) PROVE ValuesOK'
<1>1. PICK S : Closed(S) /\ values \in Seq(S)
  BY DEF ValuesOK
<1>2. made \in 0 .. MaxDepth /\ made' = made /\ Len(values) < MaxValues
        /\ values' = Append(values, leaf)
  BY DEF ValuesOK, Data!Build
<1>3. New(S, leaf)
  <2>1. CASE leaf \in {Data!Built("constant", c) : c \in {"true", "false", "null"}}
    <3>1. PICK c \in {"true", "false", "null"} : leaf = Data!Built("constant", c)
      BY <2>1
    <3>2. Leaf("constant", c)
      BY DEF Leaf
    <3> QED  BY <3>1, <3>2 DEF New
  <2>2. CASE leaf \in {Data!Built("int", n) : n \in Ints}
    <3>1. PICK n \in Ints : leaf = Data!Built("int", n)
      BY <2>2
    <3>2. n \in Int /\ Data!Fits(n, 8)
      BY ParametersAre
    <3>3. Leaf("int", n)
      BY <3>2 DEF Leaf
    <3> QED  BY <3>1, <3>3 DEF New
  <2>3. CASE leaf \in {Data!Built(k, Data!Opaque(len)) : k \in {"text", "data"},
               len \in DataLengths}
    <3>1. PICK k \in {"text", "data"}, len \in DataLengths : leaf =
                 Data!Built(k, Data!Opaque(len))
      BY <2>3
    <3>2. len \in Nat /\ len < Data!Power[8]
      BY ParametersAre
    <3> QED  BY <3>1, <3>2, TextNew
  <2> QED  BY <2>1, <2>2, <2>3 DEF Data!Leaves
<1>4. Closed(S \cup {leaf})
  BY <1>1, <1>3, Grown, ParametersAre
<1> DEFINE T == S \cup {leaf}
<1>5. S \subseteq T /\ leaf \in T
  OBVIOUS
<1> HIDE DEF T
<1>6. values \in Seq(T) /\ Len(values) \in Nat
  BY <1>1, <1>5, MoreBytes, LenProperties
<1>7. values' \in Seq(T) /\ Len(values') = Len(values) + 1
  BY <1>2, <1>5, <1>6, AppendProperties
<1>8. Len(values') <= MaxValues + made'
  <2>1. MaxValues \in Nat
    BY ParametersAre
  <2> QED  BY <1>2, <1>6, <1>7, <2>1
<1>9. Closed(T)
  BY <1>4 DEF T
<1> QED  BY <1>2, <1>7, <1>8, <1>9 DEF ValuesOK

(* The last values are replaced by one that contains them. *)
LEMMA ContainStep ==
  ASSUME Data!Parameters, ValuesOK, NEW n \in 0 .. Len(values), NEW v,
         NEW U, Closed(U), values \in Seq(U),
         New(U, v), Data!Contain(n, v)
  PROVE  ValuesOK'
<1>1. made \in 0 .. MaxDepth /\ Len(values) <= MaxValues + made /\ Len(values) \in Nat
        /\ MaxDepth \in Nat
      /\ MaxValues \in Nat
  BY ParametersAre, LenProperties DEF ValuesOK
<1> DEFINE k == Len(values) - n
           s == SubSeq(values, 1, k)
           T == U \cup {v}
<1>2. made < MaxDepth /\ made' = made + 1 /\ values' = Append(s, v)
  BY DEF Data!Contain
<1>3. k \in 0 .. Len(values)
  BY <1>1
<1>4. s \in Seq(U) /\ Len(s) = k
  BY <1>3, Firsts
<1>5. Closed(T) /\ U \subseteq T /\ v \in T
  BY Grown, ParametersAre
<1> HIDE DEF s, T
<1>6. s \in Seq(T)
  BY <1>4, <1>5, MoreBytes
<1>7. values' \in Seq(T) /\ Len(values') = k + 1
  BY <1>2, <1>4, <1>5, <1>6, AppendProperties, SMTT(30)
<1>8. made' \in 0 .. MaxDepth /\ Len(values') <= MaxValues + made'
  BY <1>1, <1>2, <1>3, <1>7
<1> QED  BY <1>5, <1>7, <1>8 DEF ValuesOK

LEMMA LastOnes ==
  ASSUME NEW S, values \in Seq(S), NEW n \in 0 .. Len(values)
  PROVE  Data!LastBuilt(n) \in Seq(S) /\ Len(Data!LastBuilt(n)) = n
<1> DEFINE L == Len(values)
           f == L - n + 1
           s == SubSeq(values, f, L)
<1>1. L \in Nat /\ f \in 1 .. L + 1
  BY LenProperties
<1>2. \A j \in f .. L : values[j] \in S
  <2> SUFFICES ASSUME NEW j \in f .. L PROVE values[j] \in S
    OBVIOUS
  <2>1. j \in 1 .. L
    BY <1>1
  <2> QED  BY <2>1, ElementOfSeq
<1>3. Data!LastBuilt(n) = s
  BY DEF Data!LastBuilt
<1> HIDE DEF L
<1>4. f \in Int /\ L \in Int
  BY <1>1
<1>5. s \in Seq(S) /\ Len(s) = IF f <= L THEN L - f + 1 ELSE 0
  BY <1>2, <1>4, SubSeqProperties
<1>6. (IF f <= L THEN L - f + 1 ELSE 0) = n
  BY <1>1 DEF L
<1> QED  BY <1>3, <1>5, <1>6

(* A list is made of the last values, and a dict of them and of new texts.   *)
LEMMA ListStep ==
  ASSUME Data!Parameters, ValuesOK, NEW n \in 0 .. Len(values), Data!MakeList(n) PROVE ValuesOK'
<1>1. PICK S : Closed(S) /\ values \in Seq(S)
  BY DEF ValuesOK
<1> DEFINE v == Data!Built("list", Data!LastBuilt(n))
<1>2. Data!LastBuilt(n) \in Seq(S)
  BY <1>1, LastOnes
<1>3. Nest(S, "list", Data!LastBuilt(n))
  BY <1>2 DEF Nest
<1>4. New(S, v)
  BY <1>3 DEF New
<1>5. Data!Contain(n, v)
  BY DEF Data!MakeList
<1> HIDE DEF v
<1> QED  BY <1>1, <1>4, <1>5, ContainStep

LEMMA DictStep ==
  ASSUME Data!Parameters, ValuesOK, NEW n \in 0 .. Len(values), Data!MakeDict(n) PROVE ValuesOK'
<1>1. PICK S : Closed(S) /\ values \in Seq(S)
  BY DEF ValuesOK
<1> DEFINE T == {Data!Text(i) : i \in 1 .. 2 * n}
           U == S \cup T
           last == Data!LastBuilt(n)
           item(i) == IF i % 2 = 1 THEN Data!Text(i) ELSE last[i \div 2]
           content == [i \in 1 .. 2 * n |-> item(i)]
           v == Data!Built("dict", content)
<1>2. last \in Seq(S) /\ Len(last) = n /\ n \in Nat
  BY <1>1, LastOnes, LenProperties
<1>3. ASSUME NEW i \in 1 .. 2 * n PROVE New(S, Data!Text(i))
  <2>1. Len(values) <= MaxValues + MaxDepth /\ 2 * (MaxValues + MaxDepth) < Data!Power[8]
        /\ Len(values) \in Nat /\ MaxValues \in Nat /\ MaxDepth \in Nat /\ Data!Power[8] \in Nat
    <3>1. made \in 0 .. MaxDepth /\ Len(values) <= MaxValues + made
      BY DEF ValuesOK
    <3>2. MaxValues \in Nat /\ MaxDepth \in Nat /\ 2 * (MaxValues + MaxDepth) < Data!Power[8]
      BY ParametersAre
    <3>3. Len(values) \in Nat
      BY <1>1, LenProperties
    <3>4. Data!Power[8] \in Nat
      <4>1. 8 \in 0 .. 8
        OBVIOUS
      <4> QED  BY <4>1, PowerIs, ParametersAre
    <3> QED  BY <3>1, <3>2, <3>3, <3>4
  <2>2. i \in Nat /\ i < Data!Power[8]
    BY <1>2, <2>1
  <2> QED  BY <2>2, TextNew DEF Data!Text
<1>4. \A x \in T : New(S, x)
  BY <1>3
<1>5. S \subseteq U /\ \A i \in 1 .. 2 * n : Data!Text(i) \in U
  OBVIOUS
<1>6. Closed(U)
  <2> HIDE DEF T
  <2> QED  BY <1>1, <1>4, Grown, ParametersAre
<1>7. Data!Contain(n, v)
  BY DEF Data!MakeDict
<1> HIDE DEF U, T, last
<1>8. ASSUME NEW i \in 1 .. 2 * n PROVE item(i) \in U
  <2>1. CASE i % 2 = 1
    BY <1>5, <2>1
  <2>2. CASE i % 2 # 1
    <3>1. i \div 2 \in 1 .. n
      BY <1>2, <2>2
    <3>2. last[i \div 2] \in S
      BY <1>2, <3>1, ElementOfSeq
    <3> QED  BY <1>5, <2>2, <3>2
  <2> QED  BY <2>1, <2>2
<1> HIDE DEF item
<1>9. content \in Seq(U) /\ Len(content) = 2 * n
  <2>1. 2 * n \in Nat
    BY <1>2
  <2> QED  BY <1>8, <2>1, IsASeq
<1> HIDE DEF content
<1>10. Len(content) % 2 = 0
  BY <1>2, <1>9
<1>11. Nest(U, "dict", content)
  BY <1>9, <1>10 DEF Nest
<1>12. New(U, v)
  BY <1>11 DEF New
<1>13. values \in Seq(U)
  BY <1>1, <1>5, MoreBytes
<1> HIDE DEF v
<1> QED  BY <1>6, <1>7, <1>12, <1>13, ContainStep

LEMMA ValuesStep == ASSUME Data!Parameters, ValuesOK, [Data!Next]_<<values, made>>
                      PROVE ValuesOK'
<1>1. CASE UNCHANGED <<values, made>>
  BY <1>1 DEF ValuesOK
<1>2. ASSUME NEW leaf \in Data!Leaves, Data!Build(leaf) PROVE ValuesOK'
  BY <1>2, BuildStep
<1>3. ASSUME NEW n \in 0 .. Len(values), Data!MakeList(n) PROVE ValuesOK'
  BY <1>3, ListStep
<1>4. ASSUME NEW n \in 0 .. Len(values), Data!MakeDict(n) PROVE ValuesOK'
  BY <1>4, DictStep
<1> QED  BY <1>1, <1>2, <1>3, <1>4 DEF Data!Next

(* What encode makes of a value that can be built is decoded to that value,   *)
(* and to nothing when it is cut short anywhere; and of a message, header and *)
(* content are each found between the limits the header's size gives          *)
(* (hds_protocol.py: encode, _Decoder.decode, Message.encode, decode).        *)
THEOREM DataMessagesComeBack ==
  ASSUME Data!Parameters PROVE Data!Spec => []MessagesComeBack
<1>1. Data!Init => ValuesOK
  BY ValuesInit
<1>2. ValuesOK /\ [Data!Next]_<<values, made>> => ValuesOK'
  BY ValuesStep
<1>3. ValuesOK => MessagesComeBack
  <2> SUFFICES ASSUME ValuesOK PROVE MessagesComeBack
    OBVIOUS
  <2>1. PICK S : Closed(S) /\ values \in Seq(S)
    BY DEF ValuesOK
  <2> QED  BY <2>1, ValuesComeBack, ParametersAre
<1> QED  BY <1>1, <1>2, <1>3, PTL DEF Data!Spec, Data!vars
=============================================================================
