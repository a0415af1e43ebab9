---------------------------- MODULE MCHAPPersist ----------------------------
(* HAPPersist for TLC.  The threads of the pool are interchangeable. *)
EXTENDS HAPPersist, TLC

PoolSymmetry == Permutations(Pool)
=============================================================================
