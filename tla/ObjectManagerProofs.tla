------------------------ MODULE ObjectManagerProofs ------------------------
(***************************************************************************)
(* Proofs about ObjectManager, for any number of objects, buckets and      *)
(* indices, any uninitialised bitmask and with malloc failing or not: the  *)
(* bitmasks, the stack and the list are exact, and the manager implements  *)
(* SlotPool.                                                               *)
(***************************************************************************)
EXTENDS ObjectManager, Induction

-----------------------------------------------------------------------------
(* The inductive invariant                                                 *)

(* The indices of bucket b that a live object has.                         *)
Held(pl, b) == {i \in Bits : \E o \in Obj : pl[o] = <<b, i>>}

(* MaskExact, of given bitmasks and places.                                *)
Exact(md, ms, jk, pl) == \A b \in md : ms[b] = Held(pl, b) \cup jk[b]

(* No object is at a bit that was set when its bucket was made.            *)
Apart(jk, pl) == \A o \in Obj : pl[o] # Null => pl[o][2] \notin jk[pl[o][1]]

(* A bucket is dropped with an index free, and its bits only ever clear.   *)
DroppedHaveRoom == \A b \in dropped : mask[b] # Bits

(* The buckets that the stack should hold.                                 *)
Waiting(md, ms, jk, dr) == {b \in md \ dr : ms[b] # Bits \/ jk[b] = Bits}

(* The stack is s, bottom first, of k buckets.                             *)
StackIs(k, s, nx, top, W) ==
  /\ k \in Nat /\ s \in [1 .. k -> W]
  /\ \A i, j \in 1 .. k : s[i] = s[j] => i = j
  /\ \A b \in W : \E i \in 1 .. k : s[i] = b
  /\ top = IF k = 0 THEN Null ELSE s[k]
  /\ \A i \in 1 .. k : nx[s[i]] = IF i = 1 THEN Null ELSE s[i - 1]

Stacked == \E k, s : StackIs(k, s, next, empty, Waiting(made, mask, junk, dropped))

(* next_bucket only ever leads downwards in some order.                    *)
Descends(nx, rank) ==
  /\ rank \in [Bucket -> Nat]
  /\ \A b \in Bucket : nx[b] # Null => rank[nx[b]] < rank[b]
Descending == \E rank : Descends(next, rank)

(* Only the first bucket can wait with every bit set.                      *)
FullIsFirst == \A b \in made \ dropped : junk[b] = Bits => made = {b}

Inv ==
  /\ TypeOK
  /\ Exact(made, mask, junk, place)
  /\ Apart(junk, place)
  /\ OnePlaceEach
  /\ DroppedHaveRoom
  /\ Stacked
  /\ Descending
  /\ FullIsFirst

-----------------------------------------------------------------------------
(* The place of a live object is an index of a bucket that exists.         *)
LEMMA PlaceShape ==
  ASSUME NEW md, md \subseteq Bucket, NEW pl \in [Obj -> (md \X Bits) \cup {Null}],
         NEW o \in Obj, pl[o] # Null
  PROVE  /\ pl[o] = <<pl[o][1], pl[o][2]>>
         /\ pl[o][1] \in md /\ pl[o][2] \in Bits
OBVIOUS

(* A place is not the null pointer.                                        *)
LEMMA PlaceIsNotNull ==
  ASSUME NEW b \in Bucket, NEW i \in Bits
  PROVE  <<b, i>> # Null
<1>1. <<b, i>> \in Place
  BY DEF Place
<1> QED
  BY <1>1, ManagerAssumption

(* What an allocation takes is free: a bit that was clear, or any bit of a *)
(* bucket whose bits were all set from the start.                          *)
LEMMA FreeIndexIsFree ==
  ASSUME NEW m, NEW i \in FreeIndex(m)
  PROVE  i \in Bits /\ (i \notin m \/ m = Bits)
BY DEF FreeIndex

(* The two outcomes of an allocation, at some index of bucket b.           *)
LEMMA AssignOutcome ==
  ASSUME NEW o \in Obj, NEW b, NEW rest, NEW ms, NEW nx, NEW jk,
         Assign(o, b, rest, ms, nx, jk)
  PROVE  \E i \in Bits :
           /\ i \notin ms[b] \/ ms[b] = Bits
           /\ junk' = [jk EXCEPT ![b] = @ \ {i}]
           /\ IF ms[b] # Bits /\ ms[b] \cup {i} # Bits
              THEN empty' = b /\ next' = [nx EXCEPT ![b] = rest]
              ELSE empty' = rest /\ next' = nx
           /\ \/ /\ mask' = [ms EXCEPT ![b] = ms[b] \cup {i}]
                 /\ place' = [place EXCEPT ![o] = <<b, i>>]
                 /\ dropped' = dropped
              \/ /\ Failing
                 /\ mask' = [ms EXCEPT ![b] = (ms[b] \cup {i}) \ {i}]
                 /\ place' = place
                 /\ dropped' = IF ms[b] # Bits /\ ms[b] \cup {i} # Bits
                               THEN dropped ELSE dropped \cup {b}
<1>1. PICK i \in FreeIndex(ms[b]) :
        LET m    == ms[b] \cup {i}
            push == ~IsFull(ms[b]) /\ ~IsFull(m)
        IN
        /\ empty' = IF push THEN b ELSE rest
        /\ next'  = IF push THEN [nx EXCEPT ![b] = rest] ELSE nx
        /\ junk'  = [jk EXCEPT ![b] = @ \ {i}]
        /\ \/ /\ mask'  = [ms EXCEPT ![b] = m]
              /\ place' = [place EXCEPT ![o] = <<b, i>>]
              /\ UNCHANGED dropped
           \/ /\ Failing
              /\ mask' = [ms EXCEPT ![b] = Without(m, i)]
              /\ dropped' = IF push THEN dropped ELSE dropped \cup {b}
              /\ UNCHANGED place
  BY DEF Assign
<1>2. i \in Bits /\ (i \notin ms[b] \/ ms[b] = Bits)
  BY FreeIndexIsFree
<1> QED
  BY <1>1, <1>2 DEF IsFull, Without

(* The state an allocation starts from: bucket b is there, popped or new.  *)
Prepared(md, ms, jk, b) ==
  /\ md \subseteq Bucket /\ b \in md
  /\ ms \in [Bucket -> SUBSET Bits] /\ jk \in [Bucket -> SUBSET Bits]
  /\ place \in [Obj -> (md \X Bits) \cup {Null}]
  /\ Exact(md, ms, jk, place) /\ Apart(jk, place) /\ OnePlaceEach
  /\ ms[b] # Bits \/ jk[b] = Bits

(* An allocation gives the object a place that no other has, and keeps the *)
(* bitmask of every bucket exact, also when it fails.                      *)
LEMMA AssignKeepsPlaces ==
  ASSUME NEW md, NEW ms, NEW jk, NEW nx, NEW b, NEW rest, NEW o \in Obj,
         Prepared(md, ms, jk, b), place[o] = Null,
         Assign(o, b, rest, ms, nx, jk)
  PROVE  /\ mask' \in [Bucket -> SUBSET Bits] /\ junk' \in [Bucket -> SUBSET Bits]
         /\ place' \in [Obj -> (md \X Bits) \cup {Null}]
         /\ Exact(md, mask', junk', place')
         /\ Apart(junk', place')
         /\ OnePlaceEach'
<1> USE DEF Prepared
<1>1. PICK i \in Bits :
           /\ i \notin ms[b] \/ ms[b] = Bits
           /\ junk' = [jk EXCEPT ![b] = @ \ {i}]
           /\ \/ /\ mask' = [ms EXCEPT ![b] = ms[b] \cup {i}]
                 /\ place' = [place EXCEPT ![o] = <<b, i>>]
              \/ /\ mask' = [ms EXCEPT ![b] = (ms[b] \cup {i}) \ {i}]
                 /\ place' = place
  BY AssignOutcome
<1>2. i \notin Held(place, b)
  <2>1. ms[b] = Held(place, b) \cup jk[b]
    BY DEF Exact
  <2>2. ASSUME NEW p \in Obj, place[p] = <<b, i>>
        PROVE  i \notin jk[b]
    <3>1. place[p] # Null
      BY <2>2, ManagerAssumption DEF Place
    <3> QED
      BY <2>2, <3>1 DEF Apart
  <2> QED
    BY <1>1, <2>1, <2>2 DEF Held
<1>3. mask' \in [Bucket -> SUBSET Bits] /\ junk' \in [Bucket -> SUBSET Bits]
  BY <1>1
<1>4. place' \in [Obj -> (md \X Bits) \cup {Null}]
  BY <1>1
<1>5. OnePlaceEach'
  BY <1>1, <1>2, ManagerAssumption DEF OnePlaceEach, Held
<1>6. Apart(junk', place')
  <2> SUFFICES ASSUME NEW p \in Obj, place'[p] # Null
               PROVE  place'[p][2] \notin junk'[place'[p][1]]
    BY DEF Apart
  <2>1. CASE place'[p] = <<b, i>>
    BY <1>1, <2>1
  <2>2. CASE place'[p] # <<b, i>>
    <3>1. place'[p] = place[p] /\ place[p] # Null
      BY <1>1, <2>2
    <3>2. place[p][2] \notin jk[place[p][1]] /\ place[p][1] \in Bucket
      BY <3>1, PlaceShape DEF Apart
    <3> QED
      BY <1>1, <3>1, <3>2
  <2> QED
    BY <2>1, <2>2
<1>7. Exact(md, mask', junk', place')
  <2> SUFFICES ASSUME NEW c \in md
               PROVE  mask'[c] = Held(place', c) \cup junk'[c]
    BY DEF Exact
  <2>1. CASE c # b
    <3>1. mask'[c] = ms[c] /\ junk'[c] = jk[c]
      BY <1>1, <2>1
    <3>2. Held(place', c) = Held(place, c)
      BY <1>1, <2>1, PlaceIsNotNull DEF Held
    <3> QED
      BY <3>1, <3>2 DEF Exact
  <2>2. CASE c = b
    <3>1. ms[b] = Held(place, b) \cup jk[b]
      BY DEF Exact
    <3>2. CASE /\ mask' = [ms EXCEPT ![b] = ms[b] \cup {i}]
               /\ place' = [place EXCEPT ![o] = <<b, i>>]
      <4>1. Held(place', b) = Held(place, b) \cup {i}
        BY <1>1, <3>2, PlaceIsNotNull DEF Held
      <4> QED
        BY <1>1, <2>2, <3>1, <3>2, <4>1
    <3>3. CASE /\ mask' = [ms EXCEPT ![b] = (ms[b] \cup {i}) \ {i}]
               /\ place' = place
      BY <1>1, <1>2, <2>2, <3>1, <3>3
    <3> QED
      BY <1>1, <3>2, <3>3
  <2> QED
    BY <2>1, <2>2
<1> QED
  BY <1>3, <1>4, <1>5, <1>6, <1>7

-----------------------------------------------------------------------------
(* The stack                                                               *)

(* Popping: what was below the top is the stack of the rest.               *)
LEMMA PopStack ==
  ASSUME NEW k, NEW s, NEW nx, NEW W, NEW b, StackIs(k, s, nx, b, W), b # Null,
         Null \notin W
  PROVE  /\ b \in W
         /\ \E r : StackIs(k - 1, r, nx, nx[b], W \ {b})
<1> USE DEF StackIs
<1>1. k # 0 /\ b = s[k] /\ k \in 1 .. k /\ k - 1 \in Nat
  OBVIOUS
<1> DEFINE r == [i \in 1 .. k - 1 |-> s[i]]
<1>2. r \in [1 .. k - 1 -> W \ {b}]
  BY <1>1
<1>3. \A c \in W \ {b} : \E i \in 1 .. k - 1 : r[i] = c
  <2> SUFFICES ASSUME NEW c \in W \ {b}
               PROVE  \E i \in 1 .. k - 1 : r[i] = c
    OBVIOUS
  <2>1. PICK i \in 1 .. k : s[i] = c
    OBVIOUS
  <2>2. i \in 1 .. k - 1
    BY <1>1, <2>1
  <2> QED
    BY <2>1, <2>2
<1>4. nx[b] = IF k - 1 = 0 THEN Null ELSE r[k - 1]
  BY <1>1
<1>5. \A i \in 1 .. k - 1 : nx[r[i]] = IF i = 1 THEN Null ELSE r[i - 1]
  OBVIOUS
<1>6. \A i, j \in 1 .. k - 1 : r[i] = r[j] => i = j
  OBVIOUS
<1>7. b \in W
  BY <1>1
<1> HIDE DEF r
<1>8. StackIs(k - 1, r, nx, nx[b], W \ {b})
  BY <1>1, <1>2, <1>3, <1>4, <1>5, <1>6
<1> QED
  BY <1>7, <1>8

(* Pushing a bucket that is not on the stack.                              *)
LEMMA PushStack ==
  ASSUME NEW k, NEW s, NEW nx, NEW top, NEW W, NEW b, StackIs(k, s, nx, top, W),
         b \notin W, W \subseteq Bucket, nx \in [Bucket -> Bucket \cup {Null}],
         b \in Bucket
  PROVE  \E r : StackIs(k + 1, r, [nx EXCEPT ![b] = top], b, W \cup {b})
<1> USE DEF StackIs
<1> DEFINE r == [i \in 1 .. k + 1 |-> IF i = k + 1 THEN b ELSE s[i]]
           ny == [nx EXCEPT ![b] = top]
<1>1. /\ k + 1 \in Nat /\ k + 1 # 0
      /\ \A i \in 1 .. k + 1 : (i = k + 1 /\ r[i] = b) \/ (i \in 1 .. k /\ r[i] = s[i])
  OBVIOUS
<1>2. r \in [1 .. k + 1 -> W \cup {b}]
  BY <1>1
<1>3. \A c \in W \cup {b} : \E i \in 1 .. k + 1 : r[i] = c
  <2> SUFFICES ASSUME NEW c \in W \cup {b}
               PROVE  \E i \in 1 .. k + 1 : r[i] = c
    OBVIOUS
  <2>1. CASE c = b
    <3>1. k + 1 \in 1 .. k + 1 /\ r[k + 1] = b
      OBVIOUS
    <3> QED
      BY <2>1, <3>1
  <2>2. CASE c \in W
    <3>1. PICK i \in 1 .. k : s[i] = c
      BY <2>2
    <3>2. i \in 1 .. k + 1 /\ r[i] = c
      BY <3>1
    <3> QED
      BY <3>2
  <2> QED
    BY <2>1, <2>2
<1>4. \A i, j \in 1 .. k + 1 : r[i] = r[j] => i = j
  BY <1>1
<1>5. \A i \in 1 .. k + 1 : ny[r[i]] = IF i = 1 THEN Null ELSE r[i - 1]
  <2> SUFFICES ASSUME NEW i \in 1 .. k + 1
               PROVE  ny[r[i]] = IF i = 1 THEN Null ELSE r[i - 1]
    OBVIOUS
  <2>1. CASE i = k + 1
    BY <2>1
  <2>2. CASE i \in 1 .. k
    <3>1. r[i] = s[i] /\ s[i] \in W /\ s[i] # b /\ s[i] \in Bucket
      BY <2>2
    <3>2. ny[r[i]] = nx[s[i]]
      BY <3>1
    <3>3. i # 1 => i - 1 \in 1 .. k + 1 /\ r[i - 1] = s[i - 1]
      BY <2>2
    <3> QED
      BY <2>2, <3>2, <3>3
  <2> QED
    BY <1>1, <2>1, <2>2
<1>6. b = IF k + 1 = 0 THEN Null ELSE r[k + 1]
  BY <1>1
<1> HIDE DEF r, ny
<1>7. StackIs(k + 1, r, ny, b, W \cup {b})
  BY <1>1, <1>2, <1>3, <1>4, <1>5, <1>6
<1> QED
  BY <1>7 DEF ny

(* A bucket off the stack can be given any order above those on it: if     *)
(* links descend, they still do after a push.                              *)
LEMMA PushDescends ==
  ASSUME NEW k, NEW s, NEW nx, NEW top, NEW W, NEW b, NEW rank,
         StackIs(k, s, nx, top, W), Descends(nx, rank),
         b \in Bucket \ W, W \subseteq Bucket, nx \in [Bucket -> Bucket \cup {Null}]
  PROVE  \E up : Descends([nx EXCEPT ![b] = top], up)
<1> USE DEF StackIs
<1>1. PICK at \in [W -> 1 .. k] : \A c \in W : s[at[c]] = c
  <2> DEFINE at == [c \in W |-> CHOOSE i \in 1 .. k : s[i] = c]
  <2>1. \A c \in W : at[c] \in 1 .. k /\ s[at[c]] = c
    OBVIOUS
  <2> QED
    BY <2>1
<1> DEFINE up == [c \in Bucket |-> IF c = b THEN k + 1
                                   ELSE IF c \in W THEN at[c] ELSE rank[c] + k + 1]
           ny == [nx EXCEPT ![b] = top]
<1>2. up \in [Bucket -> Nat]
  <2>1. \A c \in Bucket : rank[c] + k + 1 \in Nat
    BY DEF Descends
  <2> QED
    BY <2>1
<1>3. ASSUME NEW c \in Bucket, ny[c] # Null
      PROVE  up[ny[c]] < up[c]
  <2>1. CASE c = b
    <3>1. ny[c] = s[k] /\ k \in 1 .. k /\ s[k] \in W /\ s[k] # b
      BY <1>3, <2>1
    <3> QED
      BY <1>1, <2>1, <3>1
  <2>2. CASE c # b /\ c \in W
    <3>1. nx[s[at[c]]] = nx[c] /\ at[c] \in 1 .. k
      BY <1>1, <2>2
    <3>2. ny[c] = nx[c] /\ at[c] # 1 /\ nx[c] = s[at[c] - 1]
      BY <1>3, <2>2, <3>1
    <3>3. at[c] - 1 \in 1 .. k /\ s[at[c] - 1] \in W
      BY <3>1, <3>2
    <3>4. at[nx[c]] = at[c] - 1 /\ nx[c] \in W
      BY <1>1, <3>2, <3>3
    <3>5. up[c] = at[c] /\ up[nx[c]] = at[nx[c]]
      BY <2>2, <3>4
    <3> QED
      BY <3>1, <3>2, <3>4, <3>5
  <2>3. CASE c # b /\ c \notin W
    <3>1. ny[c] = nx[c] /\ nx[c] \in Bucket /\ rank[nx[c]] < rank[c]
          /\ rank[c] \in Nat /\ rank[nx[c]] \in Nat
      BY <1>3, <2>3 DEF Descends
    <3>2. up[c] = rank[c] + k + 1
      BY <2>3
    <3>3. up[nx[c]] = k + 1 \/ up[nx[c]] \in 1 .. k \/ up[nx[c]] = rank[nx[c]] + k + 1
      BY <3>1
    <3>4. k \in Nat /\ up[nx[c]] < up[c]
      <4> HIDE DEF up
      <4> QED
        BY <3>1, <3>2, <3>3
    <3> QED
      BY <3>1, <3>4
  <2> QED
    BY <2>1, <2>2, <2>3
<1> HIDE DEF up, ny
<1>4. Descends(ny, up)
  BY <1>2, <1>3 DEF Descends
<1> QED
  BY <1>4 DEF ny

-----------------------------------------------------------------------------
(* Allocation                                                              *)

(* What an allocation leaves of the stack: the bucket goes back to the top *)
(* if an index is left and nothing failed, and else it is off the stack.   *)
LEMMA AssignKeepsStack ==
  ASSUME NEW md, NEW ms, NEW jk, NEW nx, NEW b, NEW o \in Obj, NEW k, NEW s,
         Prepared(md, ms, jk, b), dropped \subseteq md \ {b},
         \A c \in dropped : ms[c] # Bits,
         nx \in [Bucket -> md \cup {Null}],
         StackIs(k, s, nx, b, Waiting(md, ms, jk, dropped)),
         Assign(o, b, nx[b], ms, nx, jk)
  PROVE  /\ next' = nx
         /\ empty' \in md \cup {Null}
         /\ \E l, r : StackIs(l, r, nx, empty', Waiting(md, mask', junk', dropped'))
         /\ dropped' \subseteq md /\ dropped \subseteq dropped'
         /\ \A c \in dropped' : mask'[c] # Bits
         /\ \A c \in md : junk'[c] = Bits => c # b /\ jk[c] = Bits
<1> DEFINE W == Waiting(md, ms, jk, dropped)
<1> USE DEF Prepared
<1>1. PICK i \in Bits :
           /\ i \notin ms[b] \/ ms[b] = Bits
           /\ junk' = [jk EXCEPT ![b] = @ \ {i}]
           /\ IF ms[b] # Bits /\ ms[b] \cup {i} # Bits
              THEN empty' = b /\ next' = [nx EXCEPT ![b] = nx[b]]
              ELSE empty' = nx[b] /\ next' = nx
           /\ \/ /\ mask' = [ms EXCEPT ![b] = ms[b] \cup {i}]
                 /\ dropped' = dropped
              \/ /\ mask' = [ms EXCEPT ![b] = (ms[b] \cup {i}) \ {i}]
                 /\ dropped' = IF ms[b] # Bits /\ ms[b] \cup {i} # Bits
                               THEN dropped ELSE dropped \cup {b}
  BY AssignOutcome
<1>2. next' = nx /\ empty' \in md \cup {Null}
  BY <1>1
<1>3. /\ b \in Bucket /\ b # Null
      /\ W \subseteq md /\ Null \notin W /\ b \in W
  BY ManagerAssumption DEF Waiting
<1>4. dropped' \subseteq md /\ dropped \subseteq dropped'
  BY <1>1
<1>5. \A c \in dropped' : mask'[c] # Bits
  BY <1>1
<1>6. \A c \in md : junk'[c] = Bits => c # b /\ jk[c] = Bits
  BY <1>1
<1>7. \A c \in md : c # b =>
         (c \in Waiting(md, mask', junk', dropped') <=> c \in W)
  BY <1>1 DEF Waiting
<1>8. \E l, r : StackIs(l, r, nx, empty', Waiting(md, mask', junk', dropped'))
  <2>1. CASE ms[b] # Bits /\ ms[b] \cup {i} # Bits
    <3>1. b \in Waiting(md, mask', junk', dropped')
      BY <1>1, <2>1 DEF Waiting
    <3>2. Waiting(md, mask', junk', dropped') = W
      BY <3>1, <1>3, <1>7 DEF Waiting
    <3> QED
      BY <1>1, <2>1, <3>2
  <2>2. CASE ~(ms[b] # Bits /\ ms[b] \cup {i} # Bits)
    <3>0. ms[b] \cup {i} = Bits /\ i \notin junk'[b]
      BY <1>1, <2>2
    <3>1. b \notin Waiting(md, mask', junk', dropped')
      BY <1>1, <2>2, <3>0 DEF Waiting
    <3>2. Waiting(md, mask', junk', dropped') = W \ {b}
      BY <3>1, <1>3, <1>7 DEF Waiting
    <3>3. \E r : StackIs(k - 1, r, nx, nx[b], W \ {b})
      <4> HIDE DEF W
      <4>1. StackIs(k, s, nx, b, W)
        BY DEF W
      <4> QED
        BY <4>1, <1>3, PopStack
    <3>4. empty' = nx[b]
      BY <1>1, <2>2
    <3> QED
      BY <3>2, <3>3, <3>4
  <2> QED
    BY <2>1, <2>2
<1> QED
  BY <1>2, <1>4, <1>5, <1>6, <1>8

(* ct_objects_new_object with a bucket on the stack.                       *)
LEMMA NewObjectKeepsInv ==
  ASSUME Inv, NEW o \in Obj, NewObject(o)
  PROVE  Inv'
<1> USE DEF Inv
<1>1. /\ place[o] = Null /\ empty \in made
      /\ Assign(o, empty, next[empty], mask, next, junk)
      /\ UNCHANGED <<made, list, freed, status>>
  BY DEF NewObject, TypeOK
<1>2. PICK k, s : StackIs(k, s, next, empty, Waiting(made, mask, junk, dropped))
  BY DEF Stacked
<1>3. empty \in Waiting(made, mask, junk, dropped)
  <2>1. empty # Null /\ Null \notin Waiting(made, mask, junk, dropped)
    BY <1>1, ManagerAssumption DEF TypeOK, Waiting
  <2> QED
    BY <1>2, <2>1, PopStack
<1>4. Prepared(made, mask, junk, empty)
  BY <1>1, <1>3 DEF Prepared, Waiting, TypeOK
<1>5. /\ mask' \in [Bucket -> SUBSET Bits] /\ junk' \in [Bucket -> SUBSET Bits]
      /\ place' \in [Obj -> (made \X Bits) \cup {Null}]
      /\ Exact(made, mask', junk', place')
      /\ Apart(junk', place')
      /\ OnePlaceEach'
  BY <1>1, <1>4, AssignKeepsPlaces
<1>6. /\ next' = next
      /\ empty' \in made \cup {Null}
      /\ \E l, r : StackIs(l, r, next, empty', Waiting(made, mask', junk', dropped'))
      /\ dropped' \subseteq made /\ dropped \subseteq dropped'
      /\ \A c \in dropped' : mask'[c] # Bits
      /\ \A c \in made : junk'[c] = Bits => c # empty /\ junk[c] = Bits
  <2>1. /\ dropped \subseteq made \ {empty} /\ \A c \in dropped : mask[c] # Bits
        /\ next \in [Bucket -> made \cup {Null}]
    BY <1>3 DEF Waiting, TypeOK, DroppedHaveRoom
  <2> HIDE DEF Inv
  <2> QED
    BY <1>1, <1>2, <1>4, <2>1, AssignKeepsStack
<1>7. TypeOK'
  BY <1>1, <1>5, <1>6 DEF TypeOK
<1>8. DroppedHaveRoom'
  BY <1>6 DEF DroppedHaveRoom
<1>9. Stacked'
  BY <1>1, <1>6 DEF Stacked
<1>10. Descending'
  BY <1>6 DEF Descending
<1>11. FullIsFirst'
  BY <1>1, <1>6 DEF FullIsFirst
<1> QED
  BY <1>1, <1>5, <1>7, <1>8, <1>9, <1>10, <1>11

(* With the stack empty, every bucket not dropped is full and holds an     *)
(* object.                                                                 *)
LEMMA EmptyStack ==
  ASSUME Inv, empty = Null
  PROVE  /\ Waiting(made, mask, junk, dropped) = {}
         /\ \A c \in made \ dropped : mask[c] = Bits /\ junk[c] # Bits
<1>1. PICK k, s : StackIs(k, s, next, empty, Waiting(made, mask, junk, dropped))
  BY DEF Inv, Stacked
<1>2. Null \notin Waiting(made, mask, junk, dropped)
  BY ManagerAssumption DEF Inv, TypeOK, Waiting
<1>3. k = 0
  BY <1>1, <1>2 DEF StackIs
<1>4. Waiting(made, mask, junk, dropped) = {}
  BY <1>1, <1>3 DEF StackIs
<1> QED
  BY <1>4 DEF Waiting

(* The same with an empty stack: the new bucket, pushed, is what a bucket  *)
(* on the stack is in the lemmas above.                                    *)
LEMMA NewObjectInNewBucketKeepsInv ==
  ASSUME Inv, NEW o \in Obj, NEW b \in Bucket, NewObjectInNewBucket(o, b)
  PROVE  Inv'
<1> DEFINE md == made \cup {b}
           nx == [next EXCEPT ![b] = Null]
<1>1. /\ place[o] = Null /\ empty = Null /\ b \notin made
      /\ made' = md /\ list' = b
      /\ UNCHANGED <<freed, status>>
  BY DEF NewObjectInNewBucket
<1>2. PICK m \in Junk : Assign(o, b, Null, [mask EXCEPT ![b] = m], nx,
                               [junk EXCEPT ![b] = m])
  BY <1>1 DEF NewObjectInNewBucket
<1> DEFINE ms == [mask EXCEPT ![b] = m]
           jk == [junk EXCEPT ![b] = m]
<1>3. m \subseteq Bits
  BY ManagerAssumption
<1>4. Prepared(md, ms, jk, b)
  <2>1. /\ md \subseteq Bucket /\ b \in md
        /\ ms \in [Bucket -> SUBSET Bits] /\ jk \in [Bucket -> SUBSET Bits]
        /\ place \in [Obj -> (md \X Bits) \cup {Null}]
        /\ ms[b] = m /\ jk[b] = m
    BY <1>3 DEF Inv, TypeOK
  <2>2. \A p \in Obj : place[p] # Null => place[p][1] \in made
    BY PlaceShape DEF Inv, TypeOK
  <2>3. Held(place, b) = {}
    BY <1>1, <2>2, PlaceIsNotNull DEF Held
  <2>4. Exact(md, ms, jk, place)
    <3> SUFFICES ASSUME NEW c \in md
                 PROVE  ms[c] = Held(place, c) \cup jk[c]
      BY DEF Exact
    <3> QED
      BY <2>1, <2>3 DEF Inv, Exact, TypeOK
  <2>5. Apart(jk, place)
    BY <1>1, <2>2 DEF Inv, Apart, TypeOK
  <2> QED
    BY <2>1, <2>4, <2>5 DEF Prepared, Inv
<1>5. Waiting(md, ms, jk, dropped) = {b}
  <2>1. /\ \A c \in md : c # b => ms[c] = mask[c] /\ jk[c] = junk[c]
        /\ b \notin dropped /\ ms[b] = m /\ jk[b] = m
    BY <1>1 DEF Inv, TypeOK
  <2> QED
    BY <1>1, <2>1, EmptyStack DEF Waiting
<1>6. \E s : StackIs(1, s, nx, b, Waiting(md, ms, jk, dropped))
  <2> DEFINE s == [i \in 1 .. 1 |-> b]
  <2>1. nx[b] = Null
    BY DEF Inv, TypeOK
  <2>2. StackIs(1, s, nx, b, {b})
    BY <2>1 DEF StackIs
  <2> QED
    BY <1>5, <2>2
<1>7. /\ dropped \subseteq md \ {b} /\ \A c \in dropped : ms[c] # Bits
      /\ nx \in [Bucket -> md \cup {Null}] /\ nx[b] = Null
  BY <1>1 DEF Inv, TypeOK, DroppedHaveRoom
<1> HIDE DEF md, nx, ms, jk
<1>8. /\ mask' \in [Bucket -> SUBSET Bits] /\ junk' \in [Bucket -> SUBSET Bits]
      /\ place' \in [Obj -> (md \X Bits) \cup {Null}]
      /\ Exact(md, mask', junk', place')
      /\ Apart(junk', place')
      /\ OnePlaceEach'
  BY <1>1, <1>2, <1>4, AssignKeepsPlaces DEF ms, jk
<1>9. /\ next' = nx
      /\ empty' \in md \cup {Null}
      /\ \E l, r : StackIs(l, r, nx, empty', Waiting(md, mask', junk', dropped'))
      /\ dropped' \subseteq md /\ dropped \subseteq dropped'
      /\ \A c \in dropped' : mask'[c] # Bits
      /\ \A c \in md : junk'[c] = Bits => c # b /\ jk[c] = Bits
  <2>1. PICK s : StackIs(1, s, nx, b, Waiting(md, ms, jk, dropped))
    BY <1>6
  <2>2. Assign(o, b, nx[b], ms, nx, jk)
    BY <1>2, <1>7 DEF ms, jk
  <2> QED
    BY <1>4, <1>7, <2>1, <2>2, AssignKeepsStack
<1>10. TypeOK'
  BY <1>1, <1>7, <1>8, <1>9 DEF Inv, TypeOK, md
<1>11. DroppedHaveRoom'
  BY <1>9 DEF DroppedHaveRoom
<1>12. Stacked'
  BY <1>1, <1>9 DEF Stacked
<1>13. Descending'
  <2>1. PICK rank : Descends(next, rank)
    BY DEF Inv, Descending
  <2>2. Descends(nx, rank)
    BY <2>1 DEF Descends, nx, Inv, TypeOK
  <2> QED
    BY <1>9, <2>2 DEF Descending
<1>14. FullIsFirst'
  <2> SUFFICES ASSUME NEW c \in md \ dropped', junk'[c] = Bits
               PROVE  FALSE
    BY <1>1 DEF FullIsFirst
  <2>1. c # b /\ jk[c] = Bits /\ c \in made \ dropped
    BY <1>9 DEF md
  <2>2. junk[c] = Bits
    BY <2>1 DEF jk, Inv, TypeOK
  <2> QED
    BY <1>1, <2>1, <2>2, EmptyStack
<1> QED
  BY <1>1, <1>8, <1>10, <1>11, <1>12, <1>13, <1>14 DEF Inv

-----------------------------------------------------------------------------
(* Deletion                                                                *)

(* A deletion clears the bit of its object alone, and pushes the bucket if *)
(* it was full, which only a bucket off the stack is.                      *)
LEMMA DelObjectKeepsInv ==
  ASSUME Inv, NEW o \in Obj, DelObject(o)
  PROVE  Inv'
<1> DEFINE b == place[o][1]
           i == place[o][2]
           W == Waiting(made, mask, junk, dropped)
<1>1. /\ place[o] = <<b, i>> /\ b \in made /\ b \in Bucket /\ i \in Bits
      /\ place[o] # Null
  BY PlaceShape DEF Inv, TypeOK, DelObject
<1>2. /\ IF mask[b] = Bits
         THEN next' = [next EXCEPT ![b] = empty] /\ empty' = b
         ELSE next' = next /\ empty' = empty
      /\ mask' = [mask EXCEPT ![b] = mask[b] \ {i}]
      /\ place' = [place EXCEPT ![o] = Null]
      /\ UNCHANGED <<made, list, junk, dropped, freed, status>>
  BY DEF DelObject, WasFull, Without
<1>3. i \notin junk[b]
  BY <1>1 DEF Inv, Apart
<1> HIDE DEF b, i
<1>4. TypeOK'
  BY <1>1, <1>2 DEF Inv, TypeOK
<1>5. Apart(junk', place') /\ OnePlaceEach'
  BY <1>2 DEF Inv, TypeOK, Apart, OnePlaceEach
<1>6. Exact(made', mask', junk', place')
  <2> SUFFICES ASSUME NEW c \in made
               PROVE  mask'[c] = Held(place', c) \cup junk[c]
    BY <1>2 DEF Exact
  <2>1. mask[c] = Held(place, c) \cup junk[c]
    BY DEF Inv, Exact
  <2>2. CASE c # b
    <3>1. Held(place', c) = Held(place, c)
      BY <1>1, <1>2, <2>2, PlaceIsNotNull DEF Held, Inv, TypeOK
    <3> QED
      BY <1>2, <2>1, <2>2, <3>1 DEF Inv, TypeOK
  <2>3. CASE c = b
    <3>1. Held(place', b) = Held(place, b) \ {i}
      <4>1. \A p \in Obj : place[p] = <<b, i>> => p = o
        BY <1>1 DEF Inv, OnePlaceEach
      <4>2. \A p \in Obj : p # o => place'[p] = place[p]
        BY <1>2 DEF Inv, TypeOK
      <4>3. \A j \in Bits : place'[o] # <<b, j>>
        BY <1>1, <1>2, PlaceIsNotNull DEF Inv, TypeOK
      <4>4. \A j \in Bits : j # i => place[o] # <<b, j>>
        BY <1>1
      <4> QED
        BY <1>1, <4>1, <4>2, <4>3, <4>4 DEF Held
    <3> QED
      BY <1>1, <1>2, <1>3, <2>1, <2>3, <3>1 DEF Inv, TypeOK
  <2> QED
    BY <2>2, <2>3
<1>7. DroppedHaveRoom'
  BY <1>1, <1>2 DEF Inv, DroppedHaveRoom, TypeOK
<1>8. PICK k, s : StackIs(k, s, next, empty, W)
  BY DEF Inv, Stacked
<1>9. /\ b \notin dropped => b \in Waiting(made', mask', junk', dropped')
      /\ \A c \in made : c # b =>
           (c \in Waiting(made', mask', junk', dropped') <=> c \in W)
  BY <1>1, <1>2 DEF Waiting, Inv, TypeOK
<1>10. W \subseteq Bucket /\ next \in [Bucket -> Bucket \cup {Null}]
  BY DEF Waiting, Inv, TypeOK
<1>11. CASE mask[b] = Bits
  <2>1. b \notin dropped /\ b \notin W
    BY <1>1, <1>3, <1>11 DEF Inv, DroppedHaveRoom, Waiting
  <2>2. Waiting(made', mask', junk', dropped') = W \cup {b}
    BY <1>1, <1>2, <1>9, <2>1 DEF Waiting
  <2> HIDE DEF W
  <2>3. Stacked'
    <3>1. \E r : StackIs(k + 1, r, [next EXCEPT ![b] = empty], b, W \cup {b})
      BY <1>1, <1>8, <1>10, <2>1, PushStack
    <3> QED
      BY <1>2, <1>11, <2>2, <3>1 DEF Stacked
  <2>4. Descending'
    <3>1. PICK rank : Descends(next, rank)
      BY DEF Inv, Descending
    <3>2. b \in Bucket \ W
      BY <1>1, <2>1
    <3>3. \E up : Descends([next EXCEPT ![b] = empty], up)
      BY <1>8, <1>10, <3>1, <3>2, PushDescends
    <3> QED
      BY <1>2, <1>11, <3>3 DEF Descending
  <2>5. FullIsFirst'
    BY <1>2 DEF Inv, FullIsFirst
  <2> QED
    BY <1>4, <1>5, <1>6, <1>7, <2>3, <2>4, <2>5 DEF Inv
<1>12. CASE mask[b] # Bits
  <2>1. Waiting(made', mask', junk', dropped') = W
    BY <1>1, <1>2, <1>9, <1>12 DEF Waiting
  <2>2. Stacked'
    BY <1>2, <1>8, <1>12, <2>1 DEF Stacked
  <2>3. Descending' /\ FullIsFirst'
    BY <1>2, <1>12 DEF Inv, Descending, FullIsFirst
  <2> QED
    BY <1>4, <1>5, <1>6, <1>7, <2>2, <2>3 DEF Inv
<1> QED
  BY <1>11, <1>12

-----------------------------------------------------------------------------
(* The invariant                                                           *)

(* The first bucket is alone on the stack.                                 *)
LEMMA InitInv == Init => Inv
<1> SUFFICES ASSUME Init PROVE Inv
  OBVIOUS
<1>1. PICK b \in Bucket, m \in Junk :
        /\ made = {b} /\ list = b /\ empty = b
        /\ mask = [c \in Bucket |-> IF c = b THEN m ELSE {}] /\ junk = mask
        /\ next = [c \in Bucket |-> Null]
        /\ place = [o \in Obj |-> Null]
        /\ dropped = {} /\ freed = {} /\ status = "running"
  BY DEF Init
<1>2. m \subseteq Bits
  BY ManagerAssumption
<1>3. TypeOK
  BY <1>1, <1>2 DEF TypeOK
<1>4. Exact(made, mask, junk, place)
  <2>1. Held(place, b) = {}
    BY <1>1, PlaceIsNotNull DEF Held
  <2> QED
    BY <1>1, <2>1 DEF Exact
<1>5. Apart(junk, place) /\ OnePlaceEach /\ DroppedHaveRoom /\ FullIsFirst
  BY <1>1 DEF Apart, OnePlaceEach, DroppedHaveRoom, FullIsFirst
<1>6. Stacked
  <2>1. Waiting(made, mask, junk, dropped) = {b}
    BY <1>1 DEF Waiting
  <2>2. StackIs(1, [i \in 1 .. 1 |-> b], next, empty, {b})
    BY <1>1 DEF StackIs
  <2> QED
    BY <2>1, <2>2 DEF Stacked
<1>7. Descending
  <2>1. Descends(next, [c \in Bucket |-> 0])
    BY <1>1 DEF Descends
  <2> QED
    BY <2>1 DEF Descending
<1> QED
  BY <1>3, <1>4, <1>5, <1>6, <1>7 DEF Inv

-----------------------------------------------------------------------------
(* Chains                                                                  *)

(* Addresses are finitely many.                                            *)
LEMMA BucketsAreCounted == Cardinality(Bucket) \in Nat
BY ManagerAssumption, FS_CardinalityType

(* f follows nx from b for n steps, as Met does.                           *)
Follows(f, b, nx, n) ==
  f = [i \in 0 .. n |-> IF i = 0 THEN b
                        ELSE IF f[i - 1] = Null THEN Null ELSE nx[f[i - 1]]]

(* The definition of Met determines a function: following next_bucket for  *)
(* any number of steps gives a result.                                     *)
LEMMA FollowingExists ==
  ASSUME NEW b, NEW nx, NEW n \in Nat
  PROVE  \E f : Follows(f, b, nx, n)
<1> DEFINE S == {m \in Nat : \E f : Follows(f, b, nx, m)}
<1>1. 0 \in S
  <2>1. Follows([i \in 0 .. 0 |-> b], b, nx, 0)
    BY DEF Follows
  <2> QED
    BY <2>1
<1>2. ASSUME NEW m \in Nat, m \in S
      PROVE  m + 1 \in S
  <2>1. PICK f : Follows(f, b, nx, m)
    BY <1>2
  <2> DEFINE g == [i \in 0 .. m + 1 |-> IF i = m + 1
                                        THEN IF f[m] = Null THEN Null ELSE nx[f[m]]
                                        ELSE f[i]]
  <2>2. Follows(g, b, nx, m + 1)
    <3> SUFFICES ASSUME NEW i \in 0 .. m + 1
                 PROVE  g[i] = IF i = 0 THEN b
                               ELSE IF g[i - 1] = Null THEN Null ELSE nx[g[i - 1]]
      BY DEF Follows
    <3>1. CASE i = m + 1
      <4>1. i # 0 /\ i - 1 = m /\ m \in 0 .. m + 1 /\ g[m] = f[m]
        BY <3>1
      <4> QED
        BY <3>1, <4>1
    <3>2. CASE i \in 0 .. m
      <4>1. g[i] = f[i] /\ (i # 0 => i - 1 \in 0 .. m + 1 /\ g[i - 1] = f[i - 1])
        BY <3>2
      <4>2. f[i] = IF i = 0 THEN b
                   ELSE IF f[i - 1] = Null THEN Null ELSE nx[f[i - 1]]
        BY <2>1, <3>2 DEF Follows
      <4> QED
        BY <4>1, <4>2
    <3> QED
      BY <3>1, <3>2
  <2> HIDE DEF g
  <2> QED
    BY <2>2
<1> HIDE DEF S
<1>3. n \in S
  BY <1>1, <1>2, SetInduction
<1> QED
  BY <1>3 DEF S

(* What Met gives after each step.                                         *)
LEMMA MetStep ==
  ASSUME NEW b
  PROVE  /\ Met(b)[0] = b
         /\ \A n \in 1 .. Cardinality(Bucket) :
              Met(b)[n] = IF Met(b)[n - 1] = Null THEN Null ELSE next[Met(b)[n - 1]]
<1> DEFINE C == Cardinality(Bucket)
<1>1. Met(b) = [i \in 0 .. C |-> IF i = 0 THEN b
                                 ELSE IF Met(b)[i - 1] = Null THEN Null
                                 ELSE next[Met(b)[i - 1]]]
  <2>1. \E f : Follows(f, b, next, C)
    BY BucketsAreCounted, FollowingExists
  <2> QED
    BY <2>1 DEF Met, Follows
<1> QED
  BY <1>1, BucketsAreCounted

(* Whoever starts among buckets that link only to each other stays there.  *)
LEMMA ChainStays ==
  ASSUME NEW X, \A c \in X : next[c] \in X \cup {Null}, NEW b \in X \cup {Null}
  PROVE  /\ \A n \in 0 .. Cardinality(Bucket) : Met(b)[n] \in X \cup {Null}
         /\ Chain(b) \subseteq X
<1> DEFINE C == Cardinality(Bucket)
           S == {n \in Nat : n <= C => Met(b)[n] \in X \cup {Null}}
<1>1. 0 \in S
  BY MetStep
<1>2. ASSUME NEW n \in Nat, n \in S
      PROVE  n + 1 \in S
  <2> SUFFICES ASSUME n + 1 <= C
               PROVE  Met(b)[n + 1] \in X \cup {Null}
    OBVIOUS
  <2>1. n + 1 \in 1 .. C /\ n + 1 - 1 = n /\ Met(b)[n] \in X \cup {Null}
    BY <1>2, BucketsAreCounted
  <2>2. Met(b)[n + 1] = IF Met(b)[n] = Null THEN Null ELSE next[Met(b)[n]]
    BY <2>1, MetStep
  <2> QED
    BY <2>1, <2>2
<1>3. \A n \in Nat : n \in S
  <2> HIDE DEF S
  <2> QED
    BY <1>1, <1>2, SetInduction
<1>4. \A n \in 0 .. C : Met(b)[n] \in X \cup {Null}
  BY <1>3
<1> QED
  BY <1>4 DEF Chain

(* Links that descend lead to NULL in as many steps as there are buckets.  *)
LEMMA ChainEnds ==
  ASSUME next \in [Bucket -> Bucket \cup {Null}], NEW rank, Descends(next, rank),
         NEW b \in Bucket \cup {Null}
  PROVE  Met(b)[Cardinality(Bucket)] = Null
<1> DEFINE C == Cardinality(Bucket)
           S == {d \in Nat : \A n \in 0 .. C : n + d + 1 <= C /\ Met(b)[n + d + 1] # Null =>
                   Met(b)[n] # Null /\ rank[Met(b)[n + d + 1]] < rank[Met(b)[n]]}
<1>1. C \in Nat
  BY BucketsAreCounted
<1>2. \A n \in 0 .. C : Met(b)[n] \in Bucket \cup {Null}
  BY ChainStays
<1>3. ASSUME NEW n \in 0 .. C, n + 1 <= C, Met(b)[n + 1] # Null
      PROVE  Met(b)[n] # Null /\ rank[Met(b)[n + 1]] < rank[Met(b)[n]]
  <2>1. n + 1 \in 1 .. C /\ n + 1 - 1 = n
    BY <1>1, <1>3
  <2>2. Met(b)[n + 1] = IF Met(b)[n] = Null THEN Null ELSE next[Met(b)[n]]
    BY <2>1, MetStep
  <2> QED
    BY <1>2, <1>3, <2>2 DEF Descends
<1>4. 0 \in S
  BY <1>3
<1>5. ASSUME NEW d \in Nat, d \in S
      PROVE  d + 1 \in S
  <2> SUFFICES ASSUME NEW n \in 0 .. C, n + (d + 1) + 1 <= C,
                      Met(b)[n + (d + 1) + 1] # Null
               PROVE  /\ Met(b)[n] # Null
                      /\ rank[Met(b)[n + (d + 1) + 1]] < rank[Met(b)[n]]
    OBVIOUS
  <2>1. n + d + 1 \in 0 .. C /\ n + (d + 1) + 1 = n + d + 1 + 1
    BY <1>1
  <2>2. /\ Met(b)[n + d + 1] # Null
        /\ rank[Met(b)[n + (d + 1) + 1]] < rank[Met(b)[n + d + 1]]
    BY <1>3, <2>1
  <2>3. Met(b)[n] # Null /\ rank[Met(b)[n + d + 1]] < rank[Met(b)[n]]
    BY <1>1, <1>5, <2>1, <2>2
  <2>4. /\ n + (d + 1) + 1 \in 0 .. C
        /\ Met(b)[n] \in Bucket /\ Met(b)[n + d + 1] \in Bucket
        /\ Met(b)[n + (d + 1) + 1] \in Bucket
    BY <1>1, <1>2, <2>1, <2>2, <2>3
  <2>5. /\ rank[Met(b)[n]] \in Nat /\ rank[Met(b)[n + d + 1]] \in Nat
        /\ rank[Met(b)[n + (d + 1) + 1]] \in Nat
    BY <2>4 DEF Descends
  <2> QED
    BY <2>2, <2>3, <2>5
<1>6. \A d \in Nat : d \in S
  <2> HIDE DEF S
  <2> QED
    BY <1>4, <1>5, SetInduction
<1>7. ASSUME NEW n \in 0 .. C, NEW m \in 0 .. C, n < m, Met(b)[m] # Null
      PROVE  Met(b)[n] # Null /\ Met(b)[n] # Met(b)[m]
  <2>1. m - n - 1 \in Nat /\ n + (m - n - 1) + 1 = m /\ m <= C
    <3> HIDE DEF S
    <3> QED
      BY <1>1, <1>7
  <2>2. Met(b)[n] # Null /\ rank[Met(b)[m]] < rank[Met(b)[n]]
    BY <1>6, <1>7, <2>1
  <2>3. rank[Met(b)[m]] \in Nat
    BY <1>2, <1>7 DEF Descends
  <2> QED
    BY <2>2, <2>3
<1> SUFFICES ASSUME Met(b)[C] # Null
             PROVE  FALSE
  OBVIOUS
<1> HIDE DEF S
<1>8. \A n \in 0 .. C : Met(b)[n] \in Bucket
  <2> SUFFICES ASSUME NEW n \in 0 .. C
               PROVE  Met(b)[n] # Null
    BY <1>2
  <2>1. (n = C \/ n < C) /\ C \in 0 .. C
    BY <1>1
  <2> QED
    BY <1>7, <2>1
<1> DEFINE f == [n \in 0 .. C |-> Met(b)[n]]
<1>9. f \in [0 .. C -> Bucket]
  BY <1>8
<1>10. IsFiniteSet(0 .. C) /\ Cardinality(0 .. C) = C + 1
  BY <1>1, FS_Interval
<1>11. PICK x, y \in 0 .. C : x # y /\ f[x] = f[y]
  <2> HIDE DEF f
  <2> QED
    BY <1>1, <1>9, <1>10, ManagerAssumption, FS_PigeonHole
<1>12. x < y \/ y < x
  BY <1>1, <1>11
<1> QED
  BY <1>7, <1>8, <1>11, <1>12, ManagerAssumption

(* The chain of the stack is the stack.                                    *)
LEMMA ChainOfStack ==
  ASSUME next \in [Bucket -> Bucket \cup {Null}], Descending,
         NEW k, NEW s, NEW W, StackIs(k, s, next, empty, W), W \subseteq Bucket
  PROVE  Chain(empty) = W
<1> DEFINE C == Cardinality(Bucket)
           S == {n \in Nat : n <= C => Met(empty)[n] = IF n < k THEN s[k - n] ELSE Null}
<1> USE DEF StackIs
<1>1. C \in Nat /\ Null \notin W /\ k \in Nat
  BY BucketsAreCounted, ManagerAssumption
<1>2. 0 \in S
  BY MetStep
<1>3. ASSUME NEW n \in Nat, n \in S
      PROVE  n + 1 \in S
  <2> SUFFICES ASSUME n + 1 <= C
               PROVE  Met(empty)[n + 1] = IF n + 1 < k THEN s[k - (n + 1)] ELSE Null
    OBVIOUS
  <2>1. n + 1 \in 1 .. C /\ n + 1 - 1 = n
    BY <1>1
  <2>2. Met(empty)[n] = IF n < k THEN s[k - n] ELSE Null
    BY <1>1, <1>3
  <2>3. Met(empty)[n + 1] = IF Met(empty)[n] = Null THEN Null ELSE next[Met(empty)[n]]
    BY <2>1, MetStep
  <2>4. CASE n < k
    <3>1. k - n \in 1 .. k /\ k - n - 1 = k - (n + 1) /\ (k - n = 1 <=> ~(n + 1 < k))
      BY <1>1, <2>4
    <3>2. s[k - n] # Null /\ next[s[k - n]] = IF k - n = 1 THEN Null ELSE s[k - n - 1]
      BY <1>1, <3>1
    <3> QED
      BY <2>2, <2>3, <2>4, <3>1, <3>2
  <2>5. CASE ~(n < k)
    BY <1>1, <2>2, <2>3, <2>5
  <2> QED
    BY <2>4, <2>5
<1>4. \A n \in Nat : n \in S
  <2> HIDE DEF S
  <2> QED
    BY <1>2, <1>3, SetInduction
<1>5. \A n \in 0 .. C : Met(empty)[n] = IF n < k THEN s[k - n] ELSE Null
  BY <1>1, <1>4
<1>6. k <= C
  <2>1. empty \in Bucket \cup {Null}
    BY <1>1
  <2>2. Met(empty)[C] = Null
    BY <2>1, ChainEnds DEF Descending
  <2>3. C < k => Met(empty)[C] \in W
    BY <1>1, <1>5
  <2> QED
    BY <1>1, <2>2, <2>3
<1>7. Chain(empty) \subseteq W
  BY <1>1, <1>5 DEF Chain
<1>8. ASSUME NEW c \in W
      PROVE  c \in Chain(empty)
  <2>1. PICK i \in 1 .. k : s[i] = c
    OBVIOUS
  <2>2. k - i \in 0 .. C /\ k - i < k /\ k - (k - i) = i
    BY <1>1, <1>6
  <2>3. Met(empty)[k - i] = c
    BY <1>5, <2>1, <2>2
  <2> QED
    BY <1>1, <2>2, <2>3 DEF Chain
<1> QED
  BY <1>7, <1>8

(* The invariant's stack is the chain that the code walks.                 *)
LEMMA InvImpliesStackExact == Inv => StackExact
<1> SUFFICES ASSUME Inv PROVE StackExact
  OBVIOUS
<1> DEFINE W == Waiting(made, mask, junk, dropped)
<1>1. PICK k, s : StackIs(k, s, next, empty, W)
  BY DEF Inv, Stacked
<1>2. W \subseteq Bucket /\ next \in [Bucket -> Bucket \cup {Null}] /\ Descending
  BY DEF Inv, TypeOK, Waiting
<1>3. Chain(empty) = W
  <2> HIDE DEF W
  <2> QED
    BY <1>1, <1>2, ChainOfStack
<1> QED
  BY <1>3 DEF StackExact, Waiting

(* The invariant's order bounds every walk.                                *)
LEMMA InvImpliesChainsEnd == Inv => ChainsEnd
<1> SUFFICES ASSUME Inv PROVE ChainsEnd
  OBVIOUS
<1>1. /\ next \in [Bucket -> Bucket \cup {Null}]
      /\ empty \in Bucket \cup {Null} /\ list \in Bucket \cup {Null}
  BY DEF Inv, TypeOK
<1>2. PICK rank : Descends(next, rank)
  BY DEF Inv, Descending
<1> QED
  BY <1>1, <1>2, ChainEnds DEF ChainsEnd

-----------------------------------------------------------------------------
(* The end of the run                                                      *)

(* ct_objects_end frees buckets that exist.                                *)
LEMMA EndKeepsInv ==
  ASSUME Inv, End
  PROVE  Inv'
<1>1. freed' \subseteq made
  BY ChainStays DEF End, Inv, TypeOK
<1>2. TypeOK'
  BY <1>1 DEF End, Inv, TypeOK
<1> QED
  BY <1>2 DEF End, Inv, OnePlaceEach, DroppedHaveRoom, Stacked, Descending, FullIsFirst

(* Every step keeps the invariant.                                         *)
LEMMA NextInv == Inv /\ [Next]_vars => Inv'
<1> SUFFICES ASSUME Inv, [Next]_vars PROVE Inv'
  OBVIOUS
<1>1. ASSUME NEW o \in Obj, NewObject(o) PROVE Inv'
  BY <1>1, NewObjectKeepsInv
<1>2. ASSUME NEW o \in Obj, DelObject(o) PROVE Inv'
  BY <1>2, DelObjectKeepsInv
<1>3. ASSUME NEW o \in Obj, NEW b \in Bucket, NewObjectInNewBucket(o, b) PROVE Inv'
  BY <1>3, NewObjectInNewBucketKeepsInv
<1>4. CASE NewBucketFails
  BY <1>4 DEF NewBucketFails, Inv, TypeOK, OnePlaceEach, DroppedHaveRoom, Stacked, Descending, FullIsFirst
<1>5. CASE End
  BY <1>5, EndKeepsInv
<1>6. CASE UNCHANGED vars
  BY <1>6 DEF vars, Inv, TypeOK, OnePlaceEach, DroppedHaveRoom, Stacked, Descending, FullIsFirst
<1> QED
  BY <1>1, <1>2, <1>3, <1>4, <1>5, <1>6 DEF Next

(* The inductive invariant holds in every state.                           *)
THEOREM InvHolds == Spec => []Inv
BY InitInv, NextInv, PTL DEF Spec

(* Every pointer is NULL or to a bucket that exists.                       *)
THEOREM ObjectTypes == Spec => []TypeOK
<1>1. Inv => TypeOK
  BY DEF Inv
<1> QED
  BY <1>1, InvHolds, PTL

(* No two live objects are recorded at the same bit of a bucket.           *)
THEOREM PlacesAreOwn == Spec => []OnePlaceEach
<1>1. Inv => OnePlaceEach
  BY DEF Inv
<1> QED
  BY <1>1, InvHolds, PTL

(* A bit is set exactly for a live object, or since its bucket was made,   *)
(* however allocations, failures and deletions followed each other.        *)
THEOREM MasksAreExact == Spec => []MaskExact
<1>1. Inv => MaskExact
  BY DEF Inv, Exact, Held, MaskExact
<1> QED
  BY <1>1, InvHolds, PTL

(* The stack holds exactly the buckets that ct_objects_new_object may pop. *)
THEOREM StackIsExact == Spec => []StackExact
BY InvImpliesStackExact, InvHolds, PTL

(* next_bucket, which serves the list and the stack at once, never closes a *)
(* cycle: every walk along it ends.                                        *)
THEOREM ChainsAreFinite == Spec => []ChainsEnd
BY InvImpliesChainsEnd, InvHolds, PTL

-----------------------------------------------------------------------------
(* The refinement                                                          *)

(* Initially no object has a place.                                        *)
LEMMA InitImplementsPool == Init => Pool!Init
BY ManagerAssumption DEF Init, Pool!Init, Room, Place

(* With the stack empty, every place of the pool is taken.                 *)
LEMMA EmptyStackMeansNoRoom ==
  ASSUME Inv, empty = Null
  PROVE  Room \subseteq Pool!Taken
<1> SUFFICES ASSUME NEW b \in made \ dropped, NEW i \in Bits, i \notin junk[b]
             PROVE  <<b, i>> \in Pool!Taken
  BY DEF Room, Place
<1>1. i \in Held(place, b)
  BY EmptyStack DEF Inv, Exact
<1>2. <<b, i>> # Null
  BY PlaceIsNotNull DEF Inv, TypeOK
<1> QED
  BY <1>1, <1>2 DEF Held, Pool!Taken

(* An allocation gives out a place of the pool, or loses one: a place that *)
(* was set in the mask from the start only when the pool has none.         *)
LEMMA NewObjectImplementsPool ==
  ASSUME Inv, Inv', NEW o \in Obj, NewObject(o)
  PROVE  [Pool!Next]_<<place, Room>>
<1> DEFINE b == empty
<1>1. /\ place[o] = Null /\ b \in made /\ made' = made
      /\ Assign(o, b, next[b], mask, next, junk)
  BY DEF NewObject, Inv, TypeOK
<1>2. PICK i \in Bits :
        /\ i \notin mask[b] \/ mask[b] = Bits
        /\ junk' = [junk EXCEPT ![b] = @ \ {i}]
        /\ \/ /\ place' = [place EXCEPT ![o] = <<b, i>>]
              /\ dropped' = dropped
           \/ /\ place' = place
              /\ dropped' = IF mask[b] # Bits /\ mask[b] \cup {i} # Bits
                            THEN dropped ELSE dropped \cup {b}
  BY <1>1, AssignOutcome
<1>3. b \notin dropped /\ (mask[b] # Bits \/ junk[b] = Bits)
  <2>1. PICK k, s : StackIs(k, s, next, b, Waiting(made, mask, junk, dropped))
    BY DEF Inv, Stacked
  <2>2. b # Null /\ Null \notin Waiting(made, mask, junk, dropped)
    BY <1>1, ManagerAssumption DEF Waiting, Inv, TypeOK
  <2>3. b \in Waiting(made, mask, junk, dropped)
    BY <2>1, <2>2, PopStack
  <2> QED
    BY <2>3 DEF Waiting
<1>4. Room' \subseteq Place
  BY DEF Room
<1>5. i \notin mask[b] => i \notin junk[b]
  BY <1>1 DEF Inv, Exact
<1>6. CASE /\ place' = place
           /\ dropped' = IF mask[b] # Bits /\ mask[b] \cup {i} # Bits
                         THEN dropped ELSE dropped \cup {b}
  <2>1. Room' \subseteq Room
    BY <1>1, <1>2, <1>3, <1>5, <1>6 DEF Room, Inv, TypeOK
  <2> QED
    BY <1>4, <1>6, <2>1 DEF Pool!Next, Pool!Fail
<1>7. CASE place' = [place EXCEPT ![o] = <<b, i>>] /\ dropped' = dropped
  <2>1. <<b, i>> \in Place /\ <<b, i>> \notin Pool!Taken
    <3>1. <<b, i>> \in Place
      BY <1>1 DEF Place, Inv, TypeOK
    <3>2. ASSUME NEW p \in Obj, place[p] = <<b, i>>
          PROVE  FALSE
      <4>1. p # o /\ place'[p] = place'[o]
        BY <1>1, <1>7, <3>1, <3>2, ManagerAssumption DEF Inv, TypeOK
      <4> QED
        BY <1>7, <3>1, <4>1, ManagerAssumption DEF Inv, TypeOK, OnePlaceEach
    <3> QED
      BY <3>1, <3>2 DEF Pool!Taken
  <2>2. CASE i \notin junk[b]
    <3>1. <<b, i>> \in Room
      BY <1>1, <1>3, <2>1, <2>2 DEF Room
    <3>2. Room' = Room
      BY <1>1, <1>2, <1>7, <2>2 DEF Room, Inv, TypeOK
    <3> QED
      BY <1>1, <1>7, <2>1, <3>1, <3>2 DEF Pool!Next, Pool!Serve, Pool!New
  <2>3. CASE i \in junk[b]
    <3>1. junk[b] = Bits /\ made = {b}
      BY <1>1, <1>2, <1>3, <1>5, <2>3 DEF Inv, FullIsFirst
    <3>2. Room = {}
      BY <3>1 DEF Room, Place
    <3>3. Room' = Room \cup {<<b, i>>}
      BY <1>1, <1>2, <1>3, <1>7, <2>1, <3>1, <3>2 DEF Room, Inv, TypeOK, Place
    <3>4. {<<b, i>>} \in SUBSET (Place \ (Room \cup Pool!Taken)) /\ Room \subseteq Pool!Taken
      BY <2>1, <3>2
    <3>5. Pool!Grow(o)
      BY <1>1, <1>7, <3>3, <3>4 DEF Pool!Grow
    <3> QED
      BY <3>5 DEF Pool!Next
  <2> QED
    BY <2>2, <2>3
<1> QED
  BY <1>2, <1>6, <1>7

(* A new bucket is taken when no place is left: the pool grows by its clear *)
(* bits.                                                                   *)
LEMMA NewObjectInNewBucketImplementsPool ==
  ASSUME Inv, Inv', NEW o \in Obj, NEW b \in Bucket, NewObjectInNewBucket(o, b)
  PROVE  [Pool!Next]_<<place, Room>>
<1>1. /\ place[o] = Null /\ b \notin made /\ made' = made \cup {b}
      /\ empty = Null
  BY DEF NewObjectInNewBucket
<1>2. PICK m \in Junk : Assign(o, b, empty, [mask EXCEPT ![b] = m],
                               [next EXCEPT ![b] = empty], [junk EXCEPT ![b] = m])
  BY DEF NewObjectInNewBucket
<1>3. PICK i \in Bits :
        /\ junk' = [junk EXCEPT ![b] = m \ {i}]
        /\ \/ /\ place' = [place EXCEPT ![o] = <<b, i>>]
              /\ dropped' = dropped
           \/ /\ place' = place
              /\ dropped' \in {dropped, dropped \cup {b}}
  <2> DEFINE jk == [junk EXCEPT ![b] = m]
  <2>1. \A j : [jk EXCEPT ![b] = jk[b] \ {j}] = [junk EXCEPT ![b] = m \ {j}]
    BY DEF Inv, TypeOK
  <2> QED
    BY <1>2, AssignOutcome DEF Inv, TypeOK
<1>4. Room \subseteq Pool!Taken /\ Room' \subseteq Place
  BY <1>1, EmptyStackMeansNoRoom DEF Room
<1>5. CASE place' = place
  BY <1>4, <1>5 DEF Pool!Next, Pool!Fail
<1>6. CASE place' = [place EXCEPT ![o] = <<b, i>>] /\ dropped' = dropped
  <2> DEFINE more == {<<b, j>> : j \in Bits \ (m \ {i})}
  <2>1. b \notin dropped /\ junk'[b] = m \ {i}
    BY <1>1, <1>3 DEF Inv, TypeOK
  <2>2. Room' = Room \cup more
    BY <1>1, <1>3, <1>6, <2>1 DEF Room, Place, Inv, TypeOK
  <2>3. \A p \in Pool!Taken : p[1] # b
    BY <1>1, PlaceShape DEF Pool!Taken, Inv, TypeOK
  <2>4. more \in SUBSET (Place \ (Room \cup Pool!Taken)) /\ <<b, i>> \in more
    BY <1>1, <2>1, <2>3 DEF Room, Place
  <2>5. Pool!Grow(o)
    BY <1>1, <1>4, <1>6, <2>2, <2>4 DEF Pool!Grow
  <2> QED
    BY <2>5 DEF Pool!Next
<1> QED
  BY <1>3, <1>5, <1>6

(* A deletion gives its place back, to the bucket.                         *)
LEMMA DelObjectImplementsPool ==
  ASSUME NEW o \in Obj, DelObject(o)
  PROVE  [Pool!Next]_<<place, Room>>
BY DEF DelObject, Room, Pool!Next, Pool!Delete

(* The manager implements the pool: each object has a place of its own and *)
(* no bucket is allocated while one on the stack has a free index.         *)
THEOREM ManagerImplementsPool == Spec => ImplementsPool
<1>1. Init => Pool!Init
  BY InitImplementsPool
<1>2. Inv /\ Inv' /\ [Next]_vars => [Pool!Next]_<<place, Room>>
  <2> SUFFICES ASSUME Inv, Inv', [Next]_vars
               PROVE  [Pool!Next]_<<place, Room>>
    OBVIOUS
  <2>1. ASSUME NEW o \in Obj, NewObject(o)
        PROVE  [Pool!Next]_<<place, Room>>
    BY <2>1, NewObjectImplementsPool
  <2>2. ASSUME NEW o \in Obj, DelObject(o)
        PROVE  [Pool!Next]_<<place, Room>>
    BY <2>2, DelObjectImplementsPool
  <2>3. ASSUME NEW o \in Obj, NEW b \in Bucket, NewObjectInNewBucket(o, b)
        PROVE  [Pool!Next]_<<place, Room>>
    BY <2>3, NewObjectInNewBucketImplementsPool
  <2>4. CASE NewBucketFails
    BY <2>4 DEF NewBucketFails, Room
  <2>5. CASE End
    BY <2>5 DEF End, Room
  <2>6. CASE UNCHANGED vars
    BY <2>6 DEF vars, Room
  <2> QED
    BY <2>1, <2>2, <2>3, <2>4, <2>5, <2>6 DEF Next
<1> QED
  BY <1>1, <1>2, InvHolds, PTL DEF Spec, ImplementsPool, Pool!Spec
=============================================================================
