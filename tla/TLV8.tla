-------------------------------- MODULE TLV8 --------------------------------
(***************************************************************************)
(* The TLV codec of pyhap/tlv.py, in which the pairing messages travel.    *)
(*                                                                         *)
(* A message is built item by item from tags and values.  Of a value only  *)
(* its length is chosen; its bytes are numbered, so that bytes that are    *)
(* lost, repeated or out of place show.  An encoded message is kept as its *)
(* sequence of fragments (tag, length and the bytes that follow).          *)
(***************************************************************************)
EXTENDS Naturals, Integers, Sequences, SequencesExt

CONSTANTS
  Tags,
  MaxFragment,   \* 255: the largest length that fits the length byte
  Lengths,       \* lengths of the values
  MaxItems       \* bound: items of a message

Parameters ==
  /\ MaxFragment \in Nat \ {0}
  /\ Lengths \subseteq Nat
  /\ MaxItems \in Nat

VARIABLE items    \* the arguments of encode: tags and values in turn

Bytes(item, len) == [b \in 1 .. len |-> <<"byte", item, b>>]

(* Python's data[first:last] and data[-n:] for n > 0; data[-0:] is data. *)
Slice(data, first, last) == SubSeq(data, first + 1, last)
LastBytes(data, n) == IF n = 0 THEN data ELSE Slice(data, Len(data) - n, Len(data))

Fragment(tag, len, bytes) == [tag |-> tag, len |-> len, bytes |-> bytes]

(* A value that does not fit one fragment: full fragments, then the rest. *)
EncodeLong(tag, data) ==
  LET full == Len(data) \div MaxFragment
      remaining == Len(data) % MaxFragment
  IN  [y \in 1 .. full |->
         Fragment(tag, MaxFragment, Slice(data, (y - 1) * MaxFragment, y * MaxFragment))]
      \o <<Fragment(tag, remaining, LastBytes(data, remaining))>>

(* Mistake: a value that fits one fragment exactly is split. *)
EncodeItemShort(tag, data) ==
  IF Len(data) < MaxFragment THEN <<Fragment(tag, Len(data), data)>>
  ELSE EncodeLong(tag, data)

EncodeItem(tag, data) ==
  IF Len(data) <= MaxFragment THEN <<Fragment(tag, Len(data), data)>>
  ELSE EncodeLong(tag, data)

Encode(msg) == FlattenSeq([i \in 1 .. Len(msg) |-> EncodeItem(msg[i].tag, msg[i].data)])

(* The bytes on the wire: a tag, a length, and bytes, over and over. *)
Wire(fragments) ==
  FlattenSeq([i \in 1 .. Len(fragments) |->
                <<<<"tag", fragments[i].tag>>, <<"len", fragments[i].len>>>> \o fragments[i].bytes])

(* One turn of decode's loop: a tag and a length are taken, and the bytes   *)
(* behind them are appended to what the tag has so far.  A length that is   *)
(* no length (the loop lost its place) ends the message here.               *)
Turn(data, s) ==
  IF ~s.ok \/ s.pos > Len(data) THEN s
  ELSE IF s.pos = Len(data) \/ data[s.pos][1] # "tag" \/ data[s.pos + 1][1] # "len"
  THEN [s EXCEPT !.ok = FALSE]
  ELSE LET tag == data[s.pos][2]
           last == s.pos + 1 + data[s.pos + 1][2]
           value == SubSeq(data, s.pos + 2, IF last < Len(data) THEN last ELSE Len(data))
       IN  [pos |-> last + 1, found |-> [s.found EXCEPT ![tag] = @ \o value], ok |-> TRUE]

(* decode; a message has fewer turns than bytes. *)
DecodeLoop(data) ==
  LET at[n \in 0 .. Len(data)] ==
        IF n = 0 THEN [pos |-> 1, found |-> [t \in Tags |-> <<>>], ok |-> TRUE]
        ELSE Turn(data, at[n - 1])
  IN  at[Len(data)]

Decode(data) == DecodeLoop(data).found
WellFormed(data) == DecodeLoop(data).ok

Init == items = <<>>

AddItem(tag, len) ==
  /\ Len(items) < MaxItems
  /\ items' = Append(items, [tag |-> tag, data |-> Bytes(Len(items) + 1, len)])

Next == \E tag \in Tags, len \in Lengths : AddItem(tag, len)

Spec == Init /\ [][Next]_items
-----------------------------------------------------------------------------
(* What decode is to find: the values of a tag, one after the other. *)
ValuesOf(tag) ==
  FlattenSeq([i \in 1 .. Len(items) |-> IF items[i].tag = tag THEN items[i].data ELSE <<>>])

ComesBack ==
  /\ WellFormed(Wire(Encode(items)))
  /\ \A tag \in Tags : Decode(Wire(Encode(items)))[tag] = ValuesOf(tag)

(* tests/test_tlv.py:9, "Test tlv can round trip TLV8 data": decoding what  *)
(* was encoded finds the values, and the whole message is tags and values.  *)
RoundTrip == ComesBack

LongMultiple(item) ==
  Len(item.data) > MaxFragment /\ Len(item.data) % MaxFragment = 0

(* The same for messages without a value of two or more full fragments:     *)
(* empty values, values of one full fragment and values with a rest come    *)
(* back, in any order and with any tags repeated.                           *)
RoundTripWithRest ==
  (\A i \in 1 .. Len(items) : ~LongMultiple(items[i])) => ComesBack
=============================================================================
