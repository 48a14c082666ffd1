-------------------------- MODULE MCObjectManager --------------------------
(* Instances of ObjectManager for TLC.                                     *)
EXTENDS ObjectManager, TLC

(* Any bits may be left in the memory of a new bucket.                     *)
AnyJunk == SUBSET Bits

(* Objects and buckets are only addresses.                                 *)
Symmetry == Permutations(Obj) \cup Permutations(Bucket)
=============================================================================
