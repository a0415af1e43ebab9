----------------------------- MODULE HAPFraming -----------------------------
(***************************************************************************)
(* The encrypted byte stream of a HAP session (pyhap/hap_crypto.py): a     *)
(* controller cuts its messages into blocks as encrypt does, the bytes     *)
(* arrive in pieces of any size, and the accessory decrypts what is        *)
(* complete every time data is received.                                   *)
(*                                                                         *)
(* A block is a length, that many bytes of ciphertext, and a tag.  Only    *)
(* lengths matter: the stream is the sequence of its blocks, each with the *)
(* length of its payload and the position in the stream at which it ends,  *)
(* and what has arrived is a number of bytes of it.                        *)
(***************************************************************************)
EXTENDS Integers, Sequences

CONSTANTS
  MAX_BLOCK_LENGTH,    \* payload bytes of a block, at most
  LENGTH_LENGTH,       \* bytes of the length in front of a block
  TAG_LENGTH,          \* bytes of the tag behind it
  Lengths,             \* the lengths of the messages the controller sends
  MaxMessages          \* bound: messages

Parameters ==
  /\ MAX_BLOCK_LENGTH \in Nat \ {0}
  /\ {LENGTH_LENGTH, TAG_LENGTH} \subseteq Nat
  /\ Lengths \subseteq Nat \ {0}
  /\ MaxMessages \in Nat

MIN_PAYLOAD_LENGTH == 1

MIN_BLOCK_LENGTH == LENGTH_LENGTH + TAG_LENGTH + MIN_PAYLOAD_LENGTH

VARIABLES
  stream,    \* the blocks the controller has encrypted
  arrived,   \* bytes of the stream that have been received
  in_count,  \* _in_count: blocks decrypted
  messages   \* messages sent

vars == <<stream, arrived, in_count, messages>>

WireSize(len) == LENGTH_LENGTH + len + TAG_LENGTH

(* The position in the stream at which its i-th block ends. *)
EndOf(i) == IF i = 0 THEN 0 ELSE stream[i].end

(* encrypt: as many blocks as it takes, all but the last of full length. *)
Blocks(total) ==
  [i \in 1 .. (total + MAX_BLOCK_LENGTH - 1) \div MAX_BLOCK_LENGTH |->
     LET offset == (i - 1) * MAX_BLOCK_LENGTH
         length == IF total - offset < MAX_BLOCK_LENGTH THEN total - offset ELSE MAX_BLOCK_LENGTH
     IN  [length |-> length,
          end |-> EndOf(Len(stream)) + (i - 1) * WireSize(MAX_BLOCK_LENGTH) + WireSize(length)]]

(* The bytes in the buffer with n bytes received and i blocks decrypted. *)
Buffered(n, i) == n - EndOf(i)

(* Mistake: the block is not known to be complete. *)
TakesAnyBlock(n, i) ==
  /\ i < Len(stream)
  /\ Buffered(n, i) > MIN_BLOCK_LENGTH

(* decrypt goes on while the buffer is longer than MIN_BLOCK_LENGTH and has *)
(* the whole next block.                                                    *)
TakesBlock(n, i) ==
  /\ i < Len(stream)
  /\ Buffered(n, i) > MIN_BLOCK_LENGTH
  /\ Buffered(n, i) >= WireSize(stream[i + 1].length)

(* decrypt stops with j blocks decrypted. *)
DecryptLoop(n, i, j) ==
  /\ \A m \in i .. j - 1 : TakesBlock(n, m)
  /\ ~TakesBlock(n, j)

Init ==
  /\ stream = <<>>
  /\ arrived = 0
  /\ in_count = 0
  /\ messages = 0

Send(total) ==
  /\ messages < MaxMessages
  /\ messages' = messages + 1
  /\ stream' = stream \o Blocks(total)
  /\ UNCHANGED <<arrived, in_count>>

(* data_received: receive_data, then decrypt. *)
DataReceived(n) ==
  /\ arrived' = arrived + n
  /\ \E j \in in_count .. Len(stream) : DecryptLoop(arrived + n, in_count, j) /\ in_count' = j
  /\ UNCHANGED <<stream, messages>>

Next ==
  \/ \E total \in Lengths : Send(total)
  \/ \E n \in 1 .. EndOf(Len(stream)) - arrived : DataReceived(n)

Spec == Init /\ [][Next]_vars
-----------------------------------------------------------------------------
(* Partial blocks are buffered and not decrypted, however the stream was    *)
(* cut into pieces (hap_crypto.py:80).  Of the complete blocks only one at  *)
(* the very end of what has arrived can be left, and only one of the        *)
(* smallest size (hap_crypto.py:88 has > where its comment promises "any    *)
(* complete blocks"); so that every block is decrypted at the latest with   *)
(* the byte after it.                                                       *)
BlocksAreWhole ==
  /\ EndOf(in_count) <= arrived
  /\ in_count < Len(stream) /\ arrived >= EndOf(in_count + 1)
       => /\ arrived = EndOf(in_count + 1)
          /\ stream[in_count + 1].length = MIN_PAYLOAD_LENGTH
=============================================================================
