----------------------------- MODULE MCMachine -----------------------------
(* Instances of Machine for TLC.                                           *)
EXTENDS Machine, TLC

CONSTANTS o1, o2

(* Objects are only addresses: any of them may be exchanged.               *)
Symmetry == Permutations(Obj)

ZeroMemory == Risk \ {"garbage"}
=============================================================================
