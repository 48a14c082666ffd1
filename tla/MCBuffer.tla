------------------------------ MODULE MCBuffer ------------------------------
(* Instances of Buffer for TLC.                                            *)
EXTENDS Buffer, TLC

(* Buffers are only addresses.                                             *)
Symmetry == Permutations(Buf)
=============================================================================
