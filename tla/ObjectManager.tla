--------------------------- MODULE ObjectManager ---------------------------
(***************************************************************************)
(* The object manager (Runtime/objects): where objects are recorded.  A    *)
(* bucket has a bitmask of its used indices.  Buckets with a free index    *)
(* are kept on a stack (empty_buckets_list), and every bucket should be on *)
(* a list (buckets_list); both are linked through the same field,          *)
(* next_bucket.  What an object holds, and when it is deleted, is the      *)
(* business of Machine: here any object may be made or deleted at any      *)
(* time.                                                                   *)
(***************************************************************************)
EXTENDS Naturals, FiniteSets

CONSTANTS
  Obj,      \* objects
  Bucket,   \* addresses that malloc may return for a bucket
  Null,     \* the null pointer
  NBits,    \* number of indices of a bucket: 64
  Junk,     \* what the bitmask of a new bucket may hold: it is not initialised
  Failing   \* whether malloc may fail

Bits  == 0 .. NBits - 1
Place == Bucket \X Bits

ASSUME ManagerAssumption ==
  /\ IsFiniteSet(Bucket) /\ Null \notin Bucket /\ Null \notin Place
  /\ NBits \in Nat \ {0}
  /\ Junk # {} /\ Junk \subseteq SUBSET Bits
  /\ Failing \in BOOLEAN

VARIABLES
  made,     \* the buckets that were allocated
  mask,     \* bitmask of each bucket
  next,     \* next_bucket of each bucket
  list,     \* manager->buckets_list
  empty,    \* manager->empty_buckets_list
  place,    \* bucket and bucket_index of each live object, or Null
  junk,     \* history: the bits of a bucket that were set when it was made
            \* and belong to no object
  dropped,  \* history: the buckets that left the stack with an index free
  freed,    \* the buckets that ct_objects_end has freed
  status    \* "running", "ended" or "fault" (NULL dereferenced)

vars == <<made, mask, next, list, empty, place, junk, dropped, freed, status>>

-----------------------------------------------------------------------------
(* Wrong versions of operators defined below: each is a slip the code could *)
(* make, and some property must notice it.                                 *)
FreeIndexLate(m)   == IF m = Bits THEN Bits
                      ELSE {i \in 1 .. NBits : i \notin m /\ \A j \in 1 .. i - 1 : j \in m}
FreeIndexFirst(m)  == {0}
WithoutKept(m, i)  == m
IsFullEarly(m)     == m # {}
WasFullNever(m)    == FALSE
WasFullAlways(m)   == TRUE

-----------------------------------------------------------------------------
(* The tests of an allocation and of a deletion.                           *)
IsFull(m)  == m = Bits
WasFull(m) == m = Bits

Without(m, i) == m \ {i}

(* The loop of ct_objects_new_object takes the first clear bit.  If it      *)
(* finds none, assigned_obj_slot is whatever its memory held; the bit       *)
(* operations use it modulo the word's width.                              *)
FreeIndex(m) ==
  IF m = Bits THEN Bits
  ELSE {i \in Bits : i \notin m /\ \A j \in 0 .. i - 1 : j \in m}

(***************************************************************************)
(* Bucket b was popped, rest is what remains of the stack; ms, nx and jk   *)
(* are mask, next and junk with b included.  Object o gets an index of b   *)
(* and b is pushed back unless it is full.  Last comes the malloc of the   *)
(* object itself, which may fail: the bit is cleared again, but a bucket   *)
(* that was full is not pushed.                                            *)
(***************************************************************************)
Assign(o, b, rest, ms, nx, jk) ==
  \E i \in FreeIndex(ms[b]) :
    LET m    == ms[b] \cup {i}
        push == ~IsFull(ms[b]) /\ ~IsFull(m)
    IN
    /\ empty' = IF push THEN b ELSE rest
    /\ next'  = IF push THEN [nx EXCEPT ![b] = rest] ELSE nx
    /\ junk'  = [jk EXCEPT ![b] = @ \ {i}]
    /\ \/ /\ mask'  = [ms EXCEPT ![b] = m]
          /\ place' = [place EXCEPT ![o] = <<b, i>>]
          /\ UNCHANGED dropped
       \/ /\ Failing
          /\ mask' = [ms EXCEPT ![b] = Without(m, i)]
          /\ dropped' = IF push THEN dropped ELSE dropped \cup {b}
          /\ UNCHANGED place

(* ct_objects_new_object, when the stack has a bucket.                     *)
NewObject(o) ==
  /\ status = "running" /\ place[o] = Null /\ empty # Null
  /\ Assign(o, empty, next[empty], mask, next, junk)
  /\ UNCHANGED <<made, list, freed, status>>

(* The same when it has none: ct_objects_new_bucket links the new bucket b *)
(* into buckets_list, then pushes it, which sets next_bucket again.        *)
NewObjectInNewBucket(o, b) ==
  /\ status = "running" /\ place[o] = Null /\ empty = Null /\ b \notin made
  /\ made' = made \cup {b} /\ list' = b
  /\ \E m \in Junk :
       Assign(o, b, empty, [mask EXCEPT ![b] = m], [next EXCEPT ![b] = empty],
              [junk EXCEPT ![b] = m])
  /\ UNCHANGED <<freed, status>>

(* No memory for the bucket: the NULL popped next is dereferenced.         *)
NewBucketFails ==
  /\ status = "running" /\ empty = Null /\ Failing
  /\ status' = "fault"
  /\ UNCHANGED <<made, mask, next, list, empty, place, junk, dropped, freed>>

(* ct_objects_del_object.  The deleter of the object deletes others only   *)
(* after this.                                                             *)
DelObject(o) ==
  /\ status = "running" /\ place[o] # Null
  /\ LET b == place[o][1] IN
       /\ IF WasFull(mask[b])
          THEN next' = [next EXCEPT ![b] = empty] /\ empty' = b
          ELSE UNCHANGED <<next, empty>>
       /\ mask' = [mask EXCEPT ![b] = Without(@, place[o][2])]
  /\ place' = [place EXCEPT ![o] = Null]
  /\ UNCHANGED <<made, list, junk, dropped, freed, status>>

(* The buckets met from b along next_bucket: Met(b)[n] after n steps.      *)
Met(b) ==
  LET at[n \in 0 .. Cardinality(Bucket)] ==
        IF n = 0 THEN b
        ELSE IF at[n - 1] = Null THEN Null ELSE next[at[n - 1]]
  IN at
Chain(b) == {Met(b)[n] : n \in 0 .. Cardinality(Bucket)} \ {Null}

(* ct_objects_end frees the buckets it meets.  (It also frees objects[j]   *)
(* for each bit that is set, which is NULL: nothing writes objects[].)     *)
End ==
  /\ status = "running" /\ status' = "ended"
  /\ freed' = Chain(list)
  /\ UNCHANGED <<made, mask, next, list, empty, place, junk, dropped>>

(* ct_objects_init: the first bucket is there from the start.              *)
Init ==
  \E b \in Bucket, m \in Junk :
    /\ made = {b} /\ list = b /\ empty = b
    /\ mask = [c \in Bucket |-> IF c = b THEN m ELSE {}] /\ junk = mask
    /\ next = [c \in Bucket |-> Null]
    /\ place = [o \in Obj |-> Null]
    /\ dropped = {} /\ freed = {} /\ status = "running"

Next ==
  \/ \E o \in Obj : NewObject(o) \/ DelObject(o)
  \/ \E o \in Obj, b \in Bucket : NewObjectInNewBucket(o, b)
  \/ NewBucketFails
  \/ End

Spec == Init /\ [][Next]_vars

-----------------------------------------------------------------------------
(* Every pointer is NULL or to a bucket that exists, every index one that  *)
(* the bitmask has.                                                        *)
TypeOK ==
  /\ made \subseteq Bucket
  /\ mask \in [Bucket -> SUBSET Bits] /\ junk \in [Bucket -> SUBSET Bits]
  /\ next \in [Bucket -> made \cup {Null}]
  /\ list \in made /\ empty \in made \cup {Null}
  /\ place \in [Obj -> (made \X Bits) \cup {Null}]
  /\ dropped \subseteq made /\ freed \subseteq made
  /\ status \in {"running", "ended", "fault"}

(* Two live objects are never recorded at the same bit of a bucket, which  *)
(* the deletion of one would clear for both.                               *)
OnePlaceEach ==
  \A o, p \in Obj : place[o] = place[p] /\ place[o] # Null => o = p

(* A bit is set exactly for a live object, or since the bucket was made.   *)
MaskExact ==
  \A b \in made :
    mask[b] = {i \in Bits : \E o \in Obj : place[o] = <<b, i>>} \cup junk[b]

(* The stack holds the buckets that have a free index, and only those,     *)
(* except for the ones dropped when an allocation failed (and a first      *)
(* bucket whose uninitialised bits were all set).                          *)
StackExact ==
  \A b \in made :
    b \in Chain(empty) <=> b \notin dropped /\ (mask[b] # Bits \/ junk[b] = Bits)

(* next_bucket never leads back to a bucket already met, neither from the  *)
(* stack nor from the list: an allocation pops no bucket twice, and        *)
(* ct_objects_end frees none twice and comes to its end.                   *)
ChainsEnd ==
  Met(empty)[Cardinality(Bucket)] = Null /\ Met(list)[Cardinality(Bucket)] = Null

(* The manager implements a pool of places: each object has its own, and   *)
(* no bucket is allocated while one on the stack has a free index.         *)
Room == {p \in Place : p[1] \in made \ dropped /\ p[2] \notin junk[p[1]]}
Pool == INSTANCE SlotPool WITH None <- Null, room <- Room
ImplementsPool == Pool!Spec
=============================================================================
