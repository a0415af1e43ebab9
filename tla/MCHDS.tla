------------------------------- MODULE MCHDS -------------------------------
(* HDS for TLC.  Transports, connections, stream ids and tasks are each    *)
(* interchangeable.                                                        *)
EXTENDS HDS, TLC

Symmetry == Permutations(Transports) \cup Permutations(Conns)
              \cup Permutations(Ids) \cup Permutations(Tasks)
=============================================================================
