------------------------------- MODULE MCWire -------------------------------
(***************************************************************************)
(* What goes over the wire, in one instance: the encrypted stream, the     *)
(* requests of a session, and the messages of pairing, of cameras and of   *)
(* HomeKit Data Stream.  They share no state; a behaviour is one of the    *)
(* five.                                                                   *)
(*                                                                         *)
(* With Byte = 4, Byte^1 .. Byte^4 are 4, 16, 64 and 256: integers are on  *)
(* both sides of every width, lengths on both sides of every prefix but    *)
(* the last.  TextLengths are on both sides of one fragment, of two and of *)
(* three.                                                                  *)
(***************************************************************************)
EXTENDS Wire

VARIABLE part

ASSUME WireAssumption ==
  /\ TLV!Parameters /\ Camera!Parameters /\ Data!Parameters
  /\ Framing!Parameters /\ Parameters

cameraVars == <<name, how, due, composed>>
codecVars == <<items, cameraVars, values, made>>
framingVars == <<stream, arrived, in_count, messages>>
connectionVars == vars

WireInit ==
  /\ part \in {"TLV", "camera", "data", "framing", "connection"}
  /\ TLV!Init /\ Camera!Init /\ Data!Init /\ Framing!Init /\ Init

EncodesItems ==
  part = "TLV" /\ TLV!Next /\ UNCHANGED <<part, cameraVars, values, made, framingVars, connectionVars>>

ComposesMessages ==
  part = "camera" /\ Camera!Next /\ UNCHANGED <<part, items, values, made, framingVars, connectionVars>>

BuildsValues ==
  part = "data" /\ Data!Next /\ UNCHANGED <<part, items, cameraVars, framingVars, connectionVars>>

SendsAndReceives ==
  part = "framing" /\ Framing!Next /\ UNCHANGED <<part, codecVars, connectionVars>>

OfConnection(Action) == part = "connection" /\ Action /\ UNCHANGED <<part, codecVars, framingVars>>

WireNext ==
  \/ EncodesItems \/ ComposesMessages \/ BuildsValues \/ SendsAndReceives
  \/ OfConnection(Next)

wireVars == <<part, codecVars, framingVars, connectionVars>>

\* That of HAPConnection.
WireFairness ==
  /\ WF_wireVars(OfConnection(Process))
  /\ WF_wireVars(OfConnection(Tasks))

WireSpec == WireInit /\ [][WireNext]_wireVars /\ WireFairness
=============================================================================
