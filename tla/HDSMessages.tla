---------------------------- MODULE HDSMessages ----------------------------
(***************************************************************************)
(* The payload format and the messages of HomeKit Data Stream              *)
(* (hds_protocol.py).  A value is built from constants, integers, text,    *)
(* data, lists and dicts; it is serialized to a sequence of bytes and      *)
(* decoded again, whole or cut short.                                      *)
(*                                                                         *)
(* Floating point numbers, which have one width, are left out.            *)
(* The tag bytes of the format are distinct and are kept as tags.  Bytes   *)
(* of integers and lengths are numbers below Byte, bytes of text and data  *)
(* are numbered by their position.  The widths in bytes are the code's;    *)
(* Byte and the inline limits are small, so that all of them are passed.   *)
(***************************************************************************)
EXTENDS Integers, Sequences, SequencesExt

CONSTANTS
  Byte,           \* 256: the values of a byte
  InlineInt,      \* 38: the largest integer that is a tag
  InlineLength,   \* 32: the largest length of text and data in a tag
  InlineItems,    \* 14: the largest number of items or pairs in a tag
  MaxHeader,      \* 0xFF: the largest size of a message's header
  Ints,           \* integers of values
  Lengths,        \* lengths of texts and data
  OtherLengths,   \* bound: lengths of the texts beside the first value
  MaxValues,      \* bound: values that a list or dict can be made of
  MaxDepth        \* bound: lists and dicts made

VARIABLES
  values,   \* the values that were built, with their encodings
  made      \* lists and dicts that were made

vars == <<values, made>>

----------------------------------------------------------------------------
(* Bytes of integers *)

\* Numbers of a width in bytes.
Power[width \in 0 .. 8] == IF width = 0 THEN 1 ELSE Byte * Power[width - 1]

Tag(name, n) == <<<<name, n>>>>

Digits(n, width) == [i \in 1 .. width |-> <<"byte", (n \div Power[i - 1]) % Byte>>]

\* Mistake: the largest values of a width are taken to need the next one, and
\* the smallest not.
FitsNot(n, width) == 2 * n <= Power[width] /\ -Power[width] - 1 <= 2 * n

\* struct.pack of a signed integer takes it.
Fits(n, width) == -Power[width] <= 2 * n /\ 2 * n < Power[width]

\* What struct.pack refuses in the largest width is not sent; keys are texts.
Parameters ==
  /\ {InlineInt, InlineLength, InlineItems, MaxHeader} \subseteq Nat \ {0}
  /\ Byte \in Nat \ {0, 1}
  /\ Ints \subseteq Int /\ \A n \in Ints : Fits(n, 8)
  /\ Lengths \cup OtherLengths \subseteq Nat
  /\ \A length \in Lengths \cup OtherLengths : length < Power[8]
  /\ MaxValues \in Nat /\ MaxDepth \in Nat /\ 2 * (MaxValues + MaxDepth) < Power[8]

----------------------------------------------------------------------------
(* Values.  A dict is its keys and values in turn.  Lists and dicts are     *)
(* made of built values, each with its encoding, as encode calls itself for *)
(* the items and joins what they return.                                    *)

Value(kind, content) == [kind |-> kind, content |-> content]

Opaque(len) == [b \in 1 .. len |-> <<"opaque", b>>]

(* Encoding *)

EncodeInt64(n) == Tag("int", 8) \o Digits(n, 8)

\* _encode_int
EncodeInt(n) ==
  LET width == IF Fits(n, 1) THEN 1 ELSE IF Fits(n, 2) THEN 2 ELSE IF Fits(n, 4) THEN 4 ELSE 8
  IN  IF n = -1 THEN Tag("minus_one", 0)
      ELSE IF n \in 0 .. InlineInt THEN Tag("inline_int", n)
      ELSE Tag("int", width) \o Digits(n, width)

\* _encode_length_prefixed
EncodeLengthPrefixed(kind, bytes) ==
  LET length == Len(bytes)
      width == IF length < Power[1] THEN 1 ELSE IF length < Power[2] THEN 2
               ELSE IF length < Power[4] THEN 4 ELSE 8
  IN  IF length <= InlineLength THEN <<<<"inline", kind, length>>>> \o bytes
      ELSE Tag(kind, width) \o Digits(length, width) \o bytes

EncodeAll(items) == FlattenSeq([i \in 1 .. Len(items) |-> items[i].bytes])

\* A list of a few items, or a dict of a few pairs, has their number in its tag.
EncodeContainer(kind, items) ==
  LET count == IF kind = "dict" THEN Len(items) \div 2 ELSE Len(items)
  IN  IF count <= InlineItems
      THEN <<<<"inline", kind, count>>>> \o EncodeAll(items)
      ELSE Tag("terminated", kind) \o EncodeAll(items) \o Tag("terminator", 0)

\* encode
Encode(kind, content) ==
  CASE kind = "constant" -> Tag("constant", content)
    [] kind = "int" -> EncodeInt(content)
    [] kind = "int64" -> EncodeInt64(content)
    [] kind \in {"text", "data"} -> EncodeLengthPrefixed(kind, content)
    [] kind \in {"list", "dict"} -> EncodeContainer(kind, content)

Plain(kind, content) ==
  IF kind \in {"list", "dict"} THEN Value(kind, [i \in 1 .. Len(content) |-> content[i].value])
  ELSE Value(IF kind = "int64" THEN "int" ELSE kind, content)

Built(kind, content) == [value |-> Plain(kind, content), bytes |-> Encode(kind, content)]

Text(length) == Built("text", Opaque(length))

Leaves == {Built("constant", c) : c \in {"true", "false", "null"}}
            \cup {Built("int", n) : n \in Ints}
            \cup {Built(k, Opaque(len)) : k \in {"text", "data"}, len \in Lengths}

----------------------------------------------------------------------------
(* Decoding.  A result is a value, or several, and the offset behind; none, *)
(* if the offset is 0: ValueError of a truncated payload, IndexError of a   *)
(* container without its terminator.                                        *)

Found(value, next) == [value |-> value, next |-> next]

Nothing == Found(<<>>, 0)

\* _take and its check.
Taken(data, from, length) == SubSeq(data, from, from + length - 1)
HasBytes(data, from, length) == from + length - 1 <= Len(data)

Unsigned(bytes) ==
  LET sum[i \in 0 .. Len(bytes)] ==
        IF i = 0 THEN 0 ELSE sum[i - 1] + bytes[i][2] * Power[i - 1]
  IN  sum[Len(bytes)]

Signed(bytes) ==
  LET n == Unsigned(bytes)
  IN  IF 2 * n < Power[Len(bytes)] THEN n ELSE n - Power[Len(bytes)]

\* How many values are behind a tag: a terminated container's are not counted.
Until == -1

Holds(tag) ==
  IF tag[1] = "terminated" THEN Until
  ELSE IF tag[1] # "inline" \/ tag[2] \notin {"list", "dict"} THEN 0
  ELSE IF tag[2] = "dict" THEN 2 * tag[3] ELSE tag[3]

\* A dict that ends behind a key is refused.
Contained(kind, inside) ==
  IF inside.next # 0 /\ (kind = "dict" => Len(inside.value) % 2 = 0)
  THEN Found(Value(kind, inside.value), inside.next)
  ELSE Nothing

\* The bytes behind a tag as one value.
TakeInt(data, from, width) ==
  IF HasBytes(data, from, width)
  THEN Found(Value("int", Signed(Taken(data, from, width))), from + width)
  ELSE Nothing

TakeBytes(data, from, kind, length) ==
  IF HasBytes(data, from, length)
  THEN Found(Value(kind, Taken(data, from, length)), from + length)
  ELSE Nothing

TakePrefixed(data, from, kind, width) ==
  IF HasBytes(data, from, width)
  THEN TakeBytes(data, from + width, kind, Unsigned(Taken(data, from, width)))
  ELSE Nothing

\* _Decoder.decode at an offset, given what it finds behind a container's tag.
DecodeValue(data, from, inside) ==
  LET tag == data[from]
      name == tag[1]
  IN  CASE name = "constant" -> Found(Value("constant", tag[2]), from + 1)
        [] name = "minus_one" -> Found(Value("int", -1), from + 1)
        [] name = "inline_int" -> Found(Value("int", tag[2]), from + 1)
        [] name = "int" -> TakeInt(data, from + 1, tag[2])
        [] name = "inline" /\ tag[2] \in {"text", "data"} -> TakeBytes(data, from + 1, tag[2], tag[3])
        [] name = "inline" /\ tag[2] \in {"list", "dict"} -> Contained(tag[2], inside)
        [] name \in {"text", "data"} -> TakePrefixed(data, from + 1, name, tag[2])
        [] name = "terminated" -> Contained(tag[2], inside)
        [] OTHER -> Nothing

\* So many values, or those up to a terminator, from an offset on; a value takes
\* a byte at least, so that there are no more turns than bytes.
DecodeItems(data) ==
  LET Offsets == 1 .. Len(data) + 1
      at[p \in (0 .. Len(data) + 1) \X Int \X Offsets] ==
        LET turns == p[1]
            count == p[2]
            from == p[3]
            first == DecodeValue(data, from, at[<<turns - 1, Holds(data[from]), from + 1>>])
            rest == at[<<turns - 1, IF count = Until THEN Until ELSE count - 1, first.next>>]
        IN  IF count = 0 THEN Found(<<>>, from)
            ELSE IF turns = 0 \/ from > Len(data) THEN Nothing
            ELSE IF count = Until /\ data[from][1] = "terminator" THEN Found(<<>>, from + 1)
            ELSE IF first.next \notin Offsets THEN Nothing
            ELSE IF rest.next = 0 THEN Nothing
            ELSE Found(<<first.value>> \o rest.value, rest.next)
  IN  at

\* decode
Decode(data) == DecodeItems(data)[<<Len(data) + 1, 1, 1>>]

----------------------------------------------------------------------------
(* Messages *)

\* The header of Message.encode: keys are texts of the lengths of "protocol"
\* (the shortest), of the kind, "id" and "status"; an id only with requests and
\* responses, a status only with responses.
Header(kind) ==
  Built("dict", <<Text(0), Text(0), Text(1), Text(0)>>
                  \o (IF kind = "event" THEN <<>> ELSE <<Text(2), Built("int64", 0)>>)
                  \o (IF kind = "response" THEN <<Text(3), Built("int64", 0)>> ELSE <<>>))

\* Message.encode: the header's size, the header, the message.  A header that
\* is too large is refused.
EncodeMessage(kind, message) ==
  <<Len(Header(kind).bytes)>> \o Header(kind).bytes \o message.bytes

\* Message.decode: the two slices of the payload.
MessageOf(payload) == Decode(SubSeq(payload, 2 + payload[1], Len(payload)))
HeaderOf(payload) == Decode(SubSeq(payload, 2, 1 + payload[1]))

----------------------------------------------------------------------------
(* Values are built from the leaves up: a list takes the last values built,  *)
(* a dict takes them with texts for keys.                                    *)

Init == values = <<>> /\ made = 0

Build(leaf) ==
  /\ Len(values) < MaxValues
  /\ values # <<>> => leaf \in {Text(length) : length \in OtherLengths}
  /\ values' = Append(values, leaf) /\ UNCHANGED made

LastBuilt(n) == SubSeq(values, Len(values) - n + 1, Len(values))

Contain(n, v) ==
  /\ made < MaxDepth /\ made' = made + 1
  /\ values' = Append(SubSeq(values, 1, Len(values) - n), v)

MakeList(n) == Contain(n, Built("list", LastBuilt(n)))

MakeDict(n) ==
  Contain(n, Built("dict", [i \in 1 .. 2 * n |-> IF i % 2 = 1 THEN Text(i) ELSE LastBuilt(n)[i \div 2]]))

Next ==
  \/ \E leaf \in Leaves : Build(leaf)
  \/ \E n \in 0 .. Len(values) : MakeList(n) \/ MakeDict(n)

Spec == Init /\ [][Next]_vars

----------------------------------------------------------------------------
(* Properties *)

\* decode finds one value, and if there is but one, that.
ComesBack(v) == Decode(v.bytes) = Found(<<v.value>>, Len(v.bytes) + 1)

\* No part of an encoding, but all of it, is an encoding.
CutShortIsRefused(v) ==
  \A n \in 0 .. Len(v.bytes) - 1 : Decode(SubSeq(v.bytes, 1, n)).next = 0

MessageComesBack(kind, v) ==
  LET payload == EncodeMessage(kind, v)
  IN  Len(Header(kind).bytes) <= MaxHeader =>
        /\ HeaderOf(payload).next # 0 /\ HeaderOf(payload).value = <<Header(kind).value>>
        /\ MessageOf(payload).next # 0 /\ MessageOf(payload).value = <<v.value>>

(* Every value comes back from its encoding, on whichever side of a limit    *)
(* its integers, lengths and sizes are and however it is nested; a payload   *)
(* that is cut short is refused and never taken for another value; and a     *)
(* message is told from its header by the header's size alone                *)
(* (hds_protocol.py:107, :156, :251).  The value that was built last is      *)
(* looked at; the others were before.                                        *)
MessagesComeBack ==
  values # <<>> =>
    /\ ComesBack(Last(values)) /\ CutShortIsRefused(Last(values))
    /\ \A kind \in {"request", "response", "event"} : MessageComesBack(kind, Last(values))
=============================================================================
