------------------------------ MODULE SlotPool ------------------------------
(***************************************************************************)
(* What the object manager promises: every object gets a place of its own  *)
(* and keeps it until it is deleted, and the pool takes more memory only   *)
(* when it has no place left to give out.                                  *)
(***************************************************************************)
CONSTANTS Obj, Place, None

VARIABLES
  place,  \* where each object is, or None
  room    \* the places the pool gives out

Taken == {place[o] : o \in Obj} \ {None}

(* An object gets a free place.                                            *)
New(o) ==
  /\ place[o] = None
  /\ \E p \in room \ Taken : place' = [place EXCEPT ![o] = p]

Serve(o) == New(o) /\ UNCHANGED room

(* No place is free: the pool grows and gives out one of the new places.   *)
Grow(o) ==
  /\ place[o] = None /\ room \subseteq Taken
  /\ \E more \in SUBSET (Place \ (room \cup Taken)) : \E p \in more :
       /\ room' = room \cup more
       /\ place' = [place EXCEPT ![o] = p]

(* No memory for the object: places may be lost to the pool, and it may    *)
(* have grown first if none was free.                                      *)
Fail ==
  /\ room' \subseteq Place /\ (room' \subseteq room \/ room \subseteq Taken)
  /\ UNCHANGED place

Delete(o) ==
  /\ place[o] # None
  /\ place' = [place EXCEPT ![o] = None]
  /\ UNCHANGED room

Init == place = [o \in Obj |-> None] /\ room \subseteq Place

Next == (\E o \in Obj : Serve(o) \/ Grow(o) \/ Delete(o)) \/ Fail

Spec == Init /\ [][Next]_<<place, room>>
=============================================================================
