-------------------------------- MODULE Wire --------------------------------
(***************************************************************************)
(* A session from its bytes to its responses: the encrypted stream         *)
(* (HAPFraming), the requests that come in it (HAPConnection), the         *)
(* messages of pairing and those of cameras that are in requests and       *)
(* responses (TLV8, HKSVMessages), and the messages of HomeKit Data Stream *)
(* (HDSMessages).  They share no state: what h11 is given is chosen        *)
(* freely, and what the bytes of the stream mean is left out.              *)
(***************************************************************************)
EXTENDS HAPConnection, Integers

CONSTANTS
  MAX_BLOCK_LENGTH, LENGTH_LENGTH, TAG_LENGTH, Lengths, MaxMessages,   \* of HAPFraming
  Tags, MaxFragment, ValueLengths, MaxItems,                           \* of TLV8
  TextLengths, MaxListed,                                              \* of HKSVMessages
  Byte, InlineInt, InlineLength, InlineItems, MaxHeader,               \* of HDSMessages
  Sizes, DataLengths, OtherLengths, MaxValues, MaxDepth

VARIABLES
  stream, arrived, in_count, messages,   \* of HAPFraming
  items,                                 \* of TLV8
  name, how, due, composed,              \* of HKSVMessages
  values, made                           \* of HDSMessages

Framing == INSTANCE HAPFraming

TLV == INSTANCE TLV8 WITH Lengths <- ValueLengths

Camera == INSTANCE HKSVMessages WITH
  Lengths <- TextLengths, MaxItems <- MaxListed, made <- composed

\* Integers of values.
Ints == Sizes \cup {-n : n \in Sizes}

Data == INSTANCE HDSMessages WITH Lengths <- DataLengths

(* HAPFraming: complete blocks are decrypted, but for one of the smallest *)
(* size, and no others.                                                   *)
BlocksAreWhole == Framing!BlocksAreWhole

(* TLV8: messages without a value of several full fragments come back. *)
RoundTripWithRest == TLV!RoundTripWithRest

(* HKSVMessages: the messages of cameras come back. *)
ConfigurationsComeBack == Camera!ConfigurationsComeBack

(* HDSMessages: values and messages come back from their encodings. *)
MessagesComeBack == Data!MessagesComeBack

(* TLV8: tests/test_tlv.py:9, all messages come back. *)
RoundTrip == TLV!RoundTrip
=============================================================================
