------------------------------ MODULE MCWrites ------------------------------
(***************************************************************************)
(* HAPWrites with characteristics that take every value as it is.          *)
(***************************************************************************)
EXTENDS HAPWrites

MCTaken == [c \in Chars |-> [v \in Values |-> v]]
=============================================================================
