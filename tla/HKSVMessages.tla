---------------------------- MODULE HKSVMessages ----------------------------
(***************************************************************************)
(* The configurations, commands and events of cameras that travel as       *)
(* nested TLV8 (hksv.py and hksv_recording.py).                            *)
(*                                                                         *)
(* A message is described by its fields, the table the encode and decode   *)
(* of its class amount to; encoding and decoding by such a table are       *)
(* written once.  The messages that are in another one are made first, and *)
(* their bytes are its contents, as encode gets them from the calls in its *)
(* arguments; and decode finds these bytes, before it hands them to the    *)
(* decode of the class that is in it.                                      *)
(*                                                                         *)
(* Every byte is there: the sizes are the code's, since they decide where  *)
(* values are cut into fragments.  Of integers, texts, keys and            *)
(* enumerations only the number of bytes matters.                          *)
(***************************************************************************)
EXTENDS Integers, Sequences, SequencesExt

CONSTANTS
  Lengths,    \* lengths of texts, identifiers, keys and certificates
  MaxItems    \* bound: items of a list

Parameters == Lengths \subseteq Nat /\ MaxItems \in Nat

VARIABLES
  name,      \* the class of the message
  how,       \* what the fields are given
  due,       \* classes of the messages that are to be made
  made       \* messages of the class, and before of those that are in it

vars == <<name, how, due, made>>

\* tlv.encode
TLV == INSTANCE TLV8 WITH
  Tags <- 0 .. 255, MaxFragment <- 255, MaxItems <- 0, items <- <<>>

----------------------------------------------------------------------------
(* Fields: a tag, whether there always is one, and what is in it: bytes, a  *)
(* message of a class, several in one TLV, or several in a TLV each.        *)

Uint(width) == [is |-> "bytes", width |-> width]
Bytes == [is |-> "bytes", width |-> 0]     \* of any length
One(class) == [is |-> "one", of |-> class]
Many(class) == [is |-> "many", of |-> class]
Series(class) == [is |-> "series", of |-> class]

Field(tag, type) == [tag |-> tag, always |-> TRUE, type |-> type]
Optional(tag, type) == [tag |-> tag, always |-> FALSE, type |-> type]

\* A list that is left out when it is empty.
ManyIfAny(tag, class) == Optional(tag, Many(class))

(* hksv.py *)

VideoStreamTier ==
  <<Field(1, Uint(4)), Field(2, Uint(1)), Field(3, Uint(4)), Field(4, Uint(2)), Field(5, Uint(2)), Field(6, Uint(1))>>
AudioStreamTier ==
  <<Field(1, Uint(4)), Field(2, Uint(4)), Field(3, Uint(1)), Field(4, Uint(1)), Field(5, Uint(1)), Field(6, Uint(1))>>
SupportedVideoStreamTiers ==
  <<Field(1, Uint(1)), Field(2, Uint(1)), Field(3, Many("VideoStreamTier"))>>
SupportedAudioStreamTiers ==
  <<Field(1, Uint(1)), Field(2, Uint(1)), Field(3, Many("AudioStreamTier"))>>

VideoStreamCapability ==
  <<Field(1, Bytes), Field(2, Uint(1)), Field(3, Uint(2)), Field(4, Uint(2)), Field(5, Uint(1)),
    Field(6, Uint(4)), Field(7, Uint(4))>>
Dimensions == <<Field(1, Uint(2)), Field(2, Uint(2))>>
SensorConfiguration ==
  <<Field(1, One("Dimensions")), Field(2, Bytes), Field(3, Uint(1)),
    Field(4, Uint(1)), Field(5, Many("VideoStreamCapability"))>>
Sensors == <<Field(1, Many("SensorConfiguration"))>>
CameraCapabilities == <<Field(1, Uint(1)), Field(2, One("Sensors"))>>
ContributingSensors == <<Field(1, Many("Item"))>>

\* What a list of texts or certificates is made of; an option or a status; an id.
Item == <<Field(1, Bytes)>>
Flag == <<Field(1, Uint(1))>>
Number64 == <<Field(1, Uint(8))>>

CameraKey == <<Field(1, Bytes), Field(2, Uint(8))>>

BufferUploadCommand ==
  <<Field(1, Uint(8)), Field(2, Uint(1)), Optional(3, Uint(8)), Optional(4, Uint(8)), Optional(5, Uint(1))>>
BufferActivityCommand == <<Field(1, Uint(8)), Field(2, Uint(8)), Field(3, Uint(1))>>
BufferEventCommand == <<Field(1, Uint(1)), Field(2, Uint(8)), Optional(3, Uint(8))>>

\* An event has one of four parts, by its type; in a response there are several.
BufferEvent ==
  <<Field(1, Uint(8)), Field(2, Uint(1)), Optional(3, One("Number64")), Optional(4, One("Number64")),
    Optional(5, One("Flag")), Optional(6, One("SessionError"))>>
SessionError == <<Field(1, Uint(8)), Field(2, Uint(1))>>
BufferEventsResponse == <<Field(1, Many("BufferEvent"))>>

PublishingPoint == <<Field(1, Bytes), Field(2, Many("Item"))>>
\* The vertices are four bytes each, here any number.
ZonePolygon == <<Field(1, Bytes), Field(3, Bytes)>>
ZoneData == <<Field(1, Uint(1)), Field(3, Many("ZonePolygon"))>>
CameraZones == <<Field(1, Uint(1)), Field(2, One("ZoneData"))>>

RTPStreamingControlWrite ==
  <<Field(1, Bytes), Field(2, Uint(1)), Optional(3, Uint(4)), Optional(4, Uint(4)), Optional(5, Uint(4)),
    Optional(6, Uint(4))>>

SFrameKeyData == <<Field(1, Bytes), Field(2, Uint(8))>>
WebRTCICECandidate == <<Field(1, Bytes), Optional(2, Bytes), Optional(3, Uint(2))>>
WebRTCSolicitOfferWrite == <<Field(1, One("Flag"))>>
WebRTCSolicitOfferResponse ==
  <<Field(1, Bytes), Optional(2, Bytes), ManyIfAny(3, "WebRTCICECandidate"), Field(4, Uint(1)),
    Optional(5, One("SFrameKeyData"))>>
WebRTCProvideAnswerWrite ==
  <<Field(1, Bytes), Field(2, Bytes), ManyIfAny(3, "WebRTCICECandidate")>>
WebRTCStatus == <<Field(1, Bytes), Field(2, Uint(1))>>
WebRTCReofferWrite == <<Field(1, Bytes), Field(2, Bytes), Field(3, One("Flag"))>>
WebRTCReofferResponse ==
  <<Field(1, Bytes), Field(2, Bytes), Field(3, Uint(1)), Optional(4, One("SFrameKeyData"))>>
WebRTCUpdateSessionWrite ==
  <<Field(1, Bytes), ManyIfAny(2, "SFrameKeyData"), ManyIfAny(3, "Number64")>>
ClientCertificate == <<Field(1, Bytes), Field(2, Bytes)>>
CertificateStatus == <<Field(1, Uint(1))>>

(* hksv_recording.py.  A supported video configuration has one profile and  *)
(* one level here: of several, decode keeps the first.                      *)

ContainerParameters == <<Field(1, Uint(4))>>
MediaContainerConfiguration == <<Field(1, Uint(1)), Field(2, One("ContainerParameters"))>>
SupportedRecordingConfiguration ==
  <<Field(1, Uint(4)), Field(2, Uint(8)), Field(3, Many("MediaContainerConfiguration"))>>
VideoAttributes == <<Field(1, Uint(2)), Field(2, Uint(2)), Field(3, Uint(1))>>
VideoParameters == <<Field(1, Uint(1)), Field(2, Uint(1))>>
VideoCodecConfiguration ==
  <<Field(1, Uint(1)), Field(2, One("VideoParameters")), Field(3, Series("VideoAttributes"))>>
SupportedVideo == <<Field(1, Series("VideoCodecConfiguration"))>>
SelectedVideoParameters ==
  <<Field(1, Uint(1)), Field(2, Uint(1)), Field(3, Uint(4)), Field(4, Uint(4))>>
SelectedVideo ==
  <<Field(1, Uint(1)), Field(2, One("SelectedVideoParameters")), Field(3, One("VideoAttributes"))>>
AudioParameters == <<Field(1, Uint(1)), Field(2, Uint(1)), Field(3, Uint(1))>>
AudioCodecConfiguration == <<Field(1, Uint(1)), Field(2, One("AudioParameters"))>>
SupportedAudio == <<Field(1, Series("AudioCodecConfiguration"))>>
\* With the bit rate.
SelectedAudioParameters ==
  <<Field(1, Uint(1)), Field(2, Uint(1)), Field(3, Uint(1)), Field(4, Uint(4))>>
SelectedAudio == <<Field(1, Uint(1)), Field(2, One("SelectedAudioParameters"))>>
SelectedRecordingConfiguration ==
  <<Field(1, One("SupportedRecordingConfiguration")), Field(2, One("SelectedVideo")),
    Field(3, One("SelectedAudio"))>>

Classes ==
  [VideoStreamTier |-> VideoStreamTier, AudioStreamTier |-> AudioStreamTier,
   SupportedVideoStreamTiers |-> SupportedVideoStreamTiers,
   SupportedAudioStreamTiers |-> SupportedAudioStreamTiers,
   VideoStreamCapability |-> VideoStreamCapability, Dimensions |-> Dimensions,
   SensorConfiguration |-> SensorConfiguration, Sensors |-> Sensors,
   CameraCapabilities |-> CameraCapabilities, ContributingSensors |-> ContributingSensors,
   Item |-> Item, Flag |-> Flag, Number64 |-> Number64, CameraKey |-> CameraKey,
   BufferUploadCommand |-> BufferUploadCommand,
   BufferActivityCommand |-> BufferActivityCommand, BufferEventCommand |-> BufferEventCommand,
   BufferEvent |-> BufferEvent, SessionError |-> SessionError,
   BufferEventsResponse |-> BufferEventsResponse, PublishingPoint |-> PublishingPoint,
   ZonePolygon |-> ZonePolygon, ZoneData |-> ZoneData, CameraZones |-> CameraZones,
   RTPStreamingControlWrite |-> RTPStreamingControlWrite, SFrameKeyData |-> SFrameKeyData,
   WebRTCICECandidate |-> WebRTCICECandidate,
   WebRTCSolicitOfferWrite |-> WebRTCSolicitOfferWrite,
   WebRTCSolicitOfferResponse |-> WebRTCSolicitOfferResponse,
   WebRTCProvideAnswerWrite |-> WebRTCProvideAnswerWrite, WebRTCStatus |-> WebRTCStatus,
   WebRTCReofferWrite |-> WebRTCReofferWrite, WebRTCReofferResponse |-> WebRTCReofferResponse,
   WebRTCUpdateSessionWrite |-> WebRTCUpdateSessionWrite,
   ClientCertificate |-> ClientCertificate, CertificateStatus |-> CertificateStatus,
   ContainerParameters |-> ContainerParameters,
   MediaContainerConfiguration |-> MediaContainerConfiguration,
   SupportedRecordingConfiguration |-> SupportedRecordingConfiguration,
   VideoAttributes |-> VideoAttributes, VideoParameters |-> VideoParameters,
   VideoCodecConfiguration |-> VideoCodecConfiguration, SupportedVideo |-> SupportedVideo,
   SelectedVideoParameters |-> SelectedVideoParameters, SelectedVideo |-> SelectedVideo,
   AudioParameters |-> AudioParameters, AudioCodecConfiguration |-> AudioCodecConfiguration,
   SupportedAudio |-> SupportedAudio, SelectedAudioParameters |-> SelectedAudioParameters,
   SelectedAudio |-> SelectedAudio,
   SelectedRecordingConfiguration |-> SelectedRecordingConfiguration]

\* Of which classes messages are in those of a class; which there are, deep down.
In(n) == {Classes[n][i].type.of : i \in {j \in DOMAIN Classes[n] : Classes[n][j].type.is # "bytes"}}

Inside[n \in DOMAIN Classes] == {n} \cup UNION {Inside[c] : c \in In(n)}

----------------------------------------------------------------------------
(* Encoding.  A message has for each field its content, <<content>>, or     *)
(* none, <<>>.                                                              *)

\* tlv.encode of one tag and value, as bytes.
TagAndValue(tag, value) ==
  LET fragments == TLV!EncodeItem(tag, value)
  IN  FlattenSeq([i \in 1 .. Len(fragments) |->
                    <<tag, fragments[i].len>> \o fragments[i].bytes])

TLV_SEPARATOR == <<0, 0>>

\* _join_items
JoinItems(items) ==
  FlattenSeq([i \in 1 .. Len(items) |-> (IF i = 1 THEN <<>> ELSE TLV_SEPARATOR) \o items[i]])

\* The values of the TLVs of a field.
Values(type, content) ==
  CASE type.is = "many" -> <<JoinItems(content)>>
    [] type.is = "series" -> content
    [] OTHER -> <<content>>

EncodeField(field, content) ==
  LET values == Values(field.type, content)
  IN  JoinItems([i \in 1 .. Len(values) |-> TagAndValue(field.tag, values[i])])

Encode(fields, contents) ==
  FlattenSeq([i \in 1 .. Len(fields) |->
                IF contents[i] = <<>> THEN <<>> ELSE EncodeField(fields[i], contents[i][1])])

----------------------------------------------------------------------------
(* Decoding *)

TagValue(tag, value) == [tag |-> tag, value |-> value]

\* A tag without a length: IndexError.
Broken == TagValue(-1, <<>>)

\* The bytes of a fragment, as far as they are there.
ValueAt(data, at) == SubSeq(data, at + 2, Min({at + 1 + data[at + 1], Len(data)}))

\* Mistake: fragments are not put together.
ItemsUnmerged(data) ==
  LET from[at \in Nat \ {0}] ==
        IF at > Len(data) THEN <<>>
        ELSE IF at = Len(data) THEN <<Broken>>
        ELSE <<TagValue(data[at], ValueAt(data, at))>> \o from[at + 2 + data[at + 1]]
  IN  from[1]

\* _iter_tlv: a full fragment goes on with the next of the same tag.
Items(data) ==
  LET from[at \in Nat \ {0}] ==
        IF at > Len(data) THEN <<>>
        ELSE IF at = Len(data) THEN <<Broken>>
        ELSE LET next == at + 2 + data[at + 1]
                 value == ValueAt(data, at)
                 rest == from[next]
             IN  IF data[at + 1] = 255 /\ next <= Len(data) /\ data[next] = data[at]
                 THEN <<[rest[1] EXCEPT !.value = value \o @]>> \o Tail(rest)
                 ELSE <<TagValue(data[at], value)>> \o rest
  IN  from[1]

\* _split_items: items end with a separator and are encoded again.
AddItem(items, item) == IF item = <<>> THEN items ELSE Append(items, item)

SplitItems(data) ==
  LET items == Items(data)
      after[n \in 0 .. Len(items)] ==
        IF n = 0 THEN [found |-> <<>>, current |-> <<>>]
        ELSE LET s == after[n - 1]
             IN  IF items[n] = TagValue(0, <<>>)
                 THEN [found |-> AddItem(s.found, s.current), current |-> <<>>]
                 ELSE [s EXCEPT !.current = @ \o TagAndValue(items[n].tag, items[n].value)]
      last == after[Len(items)]
  IN  AddItem(last.found, last.current)

\* What a class makes of the values of a tag.  A tag that is missing, or one
\* that is there more than once and so is a list (in hksv_recording.py the
\* first), is no value.
Content(field, values) ==
  CASE field.type.is = "series" -> <<values>>
    [] field.type.is # "series" /\ Len(values) # 1 -> <<>>
    [] field.type.is = "many" /\ Len(values) = 1 -> <<SplitItems(values[1])>>
    [] OTHER -> values

\* _decode and the look-ups of a class.  A buffer that ends behind a tag raises.
Decode(fields, data) ==
  LET items == Items(data)
      valuesOf(tag) ==
        FlattenSeq([i \in 1 .. Len(items) |-> IF items[i].tag = tag THEN <<items[i].value>> ELSE <<>>])
  IN  IF \E i \in 1 .. Len(items) : items[i].tag = -1 THEN <<>>
      ELSE [i \in 1 .. Len(fields) |-> Content(fields[i], valuesOf(fields[i].tag))]

----------------------------------------------------------------------------
(* Messages are composed: one length for what has no fixed one, one number *)
(* of items for lists, and the optional fields that are there.             *)

Optionals(n) == {Classes[n][i].tag : i \in {j \in DOMAIN Classes[n] : ~Classes[n][j].always}}

Presences(n) ==
  LET inside == Inside[n]
  IN  {present \in SUBSET UNION {Optionals(c) : c \in inside} :
         "BufferEvent" \in inside => Cardinality(present) = 1}

\* Bytes that differ from place to place.
Filler(length, seed) == [b \in 1 .. length |-> (7 * b + 31 * seed) % 256]

\* As many of each class as a list takes.
Copies == 1 .. (IF how.items = 0 THEN 1 ELSE how.items)

Given(field) ==
  \/ field.always
  \/ field.tag \in how.present /\ (field.type.is = "many" => how.items > 0)

\* The messages that are in a field of the k-th message.
Parts(type, k) ==
  CASE type.is = "bytes" -> <<>>
    [] type.is = "one" -> <<made[type.of][k]>>
    [] OTHER -> SubSeq(made[type.of], 1, how.items)

Contained(type, parts, seed) ==
  CASE type.is = "bytes" -> Filler(IF type.width = 0 THEN how.length ELSE type.width, seed)
    [] type.is = "one" -> parts[1].bytes
    [] OTHER -> [i \in 1 .. Len(parts) |-> parts[i].bytes]

\* tlv.encode spoils it.
IsLongMultiple(value) == TLV!LongMultiple([data |-> value])

\* No value that tlv.encode was given for the message, here or further in, is.
IsWhole(type, parts, content) ==
  /\ \A i \in 1 .. Len(parts) : parts[i].whole
  /\ \A i \in 1 .. Len(Values(type, content)) : ~IsLongMultiple(Values(type, content)[i])

Message(n, k) ==
  LET fields == Classes[n]
      parts(i) == Parts(fields[i].type, k)
      content(i) == Contained(fields[i].type, parts(i), 10 * k + i)
      contents == [i \in 1 .. Len(fields) |-> IF Given(fields[i]) THEN <<content(i)>> ELSE <<>>]
  IN  [contents |-> contents, bytes |-> Encode(fields, contents),
       whole |-> \A i \in 1 .. Len(fields) :
                   Given(fields[i]) => IsWhole(fields[i].type, parts(i), content(i))]

Init ==
  /\ name = "none" /\ how = [length |-> 0, items |-> 0, present |-> {}] /\ due = {}
  /\ made = [n \in {} |-> <<>>]

Choose(n, length, items, present) ==
  /\ name' = n
  /\ due' = Inside[n]
  /\ how' = [length |-> length, items |-> items, present |-> present]
  /\ UNCHANGED made

\* The encode of a class, as often as it is called.
Compose(n) ==
  /\ n \in due /\ In(n) \subseteq DOMAIN made
  /\ due' = due \ {n}
  /\ made' = [c \in DOMAIN made \cup {n} |->
                IF c = n THEN [k \in Copies |-> Message(n, k)] ELSE made[c]]
  /\ UNCHANGED <<name, how>>

Next ==
  \/ /\ name = "none"
     /\ \E n \in DOMAIN Classes : \E present \in Presences(n) :
          \E length \in Lengths, items \in 0 .. MaxItems : Choose(n, length, items, present)
  \/ \E n \in DOMAIN Classes : Compose(n)

Spec == Init /\ [][Next]_vars

----------------------------------------------------------------------------
(* Properties *)

(* Every message comes back from its encoding, field by field: whatever is   *)
(* long enough to be cut into fragments, alone or as the list it is in,      *)
(* empty lists and lists of several, and whichever optional fields it has    *)
(* (hksv.py:176, :208); but for those that hold a value of several full      *)
(* fragments, at whatever depth, which tlv.encode spoils (tlv.py:38).  What  *)
(* comes back of a message in it is its encoding, and this comes back too.   *)
ConfigurationsComeBack ==
  \A n \in DOMAIN made : \A k \in DOMAIN made[n] :
    made[n][k].whole => Decode(Classes[n], made[n][k].bytes) = made[n][k].contents
=============================================================================
