------------------------------ MODULE MCCamera ------------------------------
(***************************************************************************)
(* The streams of a camera (CameraSessions) and what it keeps for          *)
(* controllers beside them, WebRTC sessions and events (CameraControls),   *)
(* in one instance.  The three share no state; a behaviour is one of them. *)
(***************************************************************************)
EXTENDS CameraSessions, CameraControls, TLC

VARIABLE part

MCInit == part \in {"streams", "webrtc", "events"} /\ Init /\ ControlsInit

Streaming == part = "streams" /\ Next /\ UNCHANGED <<part, controls>>

Negotiating == part = "webrtc" /\ Negotiates /\ UNCHANGED <<part, vars>>

Recording == part = "events" /\ Records /\ UNCHANGED <<part, vars>>

MCNext == Streaming \/ Negotiating \/ Recording

MCSpec == MCInit /\ [][MCNext]_<<part, vars, controls>>

\* Ids that controllers choose, and ingest sessions, are interchangeable.
Symmetry == Permutations(Ids) \cup Permutations(WebRTCIds) \cup Permutations(CMAFIds)

(* Every variable of the two has a value of its type. *)
AllTypesOK == TypeOK /\ ControlsTypeOK
=============================================================================
