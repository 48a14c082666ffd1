--------------------------- MODULE MachineProofs ---------------------------
(***************************************************************************)
(* Proofs about Machine, for any number of objects, slots, frames and      *)
(* cells.  First: reference counts are exact and nothing dangles.  Then,   *)
(* from The kinds of steps on: what is about to be stored survives, every  *)
(* object is held between two handlers, a frame's counter is exact, a      *)
(* reference is forgotten only where the counter wraps, and nothing goes   *)
(* wrong before an error is raised.                                        *)
(***************************************************************************)
EXTENDS Machine, FiniteSetTheorems, TLAPS

-----------------------------------------------------------------------------
(* Cells                                                                   *)

(* There are finitely many cells, so every set of them can be counted.     *)
LEMMA CellsAreFinite ==
  /\ IsFiniteSet(Cell)
  /\ \A S \in SUBSET Cell : IsFiniteSet(S) /\ Cardinality(S) \in Nat
<1>1. IsFiniteSet(Frame) /\ IsFiniteSet(Slot) /\ IsFiniteSet(Index)
  BY MachineAssumption, FS_Interval DEF Frame, Slot, Index
<1>2. IsFiniteSet(Frame \X Slot)
  BY <1>1, FS_Product
<1>3. IsFiniteSet(Obj \X Index)
  BY <1>1, FS_Product, MachineAssumption
<1>4. IsFiniteSet(Cell)
  BY <1>2, <1>3, FS_Union DEF Cell
<1>5. QED
  BY <1>4, FS_Subset, FS_CardinalityType

(* A cell is a slot of a frame or an index of an object, never both.       *)
LEMMA CellShape ==
  ASSUME NEW c \in Cell
  PROVE  /\ c = <<c[1], c[2]>>
         /\ \/ c[1] \in Frame /\ c[2] \in Slot /\ c[1] \notin Obj
            \/ c[1] \in Obj /\ c[2] \in Index /\ c[1] \notin Frame
BY MachineAssumption DEF Cell

(* A slot of a frame is a cell.                                            *)
LEMMA FrameCell ==
  ASSUME NEW f \in Frame, NEW s \in Slot
  PROVE  <<f, s>> \in Cell /\ <<f, s>>[1] = f /\ <<f, s>>[2] = s
BY DEF Cell

(* A set of cells that gains or loses one cell.                            *)
LEMMA OneMore ==
  ASSUME NEW S \in SUBSET Cell, NEW c \in Cell \ S
  PROVE  Cardinality(S \cup {c}) = Cardinality(S) + 1
BY CellsAreFinite, FS_AddElement

(* A set of cells that loses one.                                          *)
LEMMA OneFewer ==
  ASSUME NEW S \in SUBSET Cell, NEW c \in S
  PROVE  /\ Cardinality(S \ {c}) = Cardinality(S) - 1
         /\ Cardinality(S) > 0
<1>1. IsFiniteSet(S) /\ Cardinality(S) \in Nat
  BY CellsAreFinite
<1>2. Cardinality(S \ {c}) = Cardinality(S) - 1
  BY <1>1, FS_RemoveElement
<1>3. Cardinality(S) # 0
  BY <1>1, FS_EmptySet
<1>4. QED
  BY <1>1, <1>2, <1>3

(* A set of cells is counted by counting its two parts.                    *)
LEMMA TwoParts ==
  ASSUME NEW S \in SUBSET Cell, NEW T \in SUBSET Cell, S \cap T = {}
  PROVE  Cardinality(S \cup T) = Cardinality(S) + Cardinality(T)
<1>1. IsFiniteSet(S) /\ IsFiniteSet(T) /\ Cardinality(S) \in Nat /\ Cardinality(T) \in Nat
  BY CellsAreFinite
<1>2. Cardinality(S \cup T) = Cardinality(S) + Cardinality(T) - Cardinality(S \cap T)
  BY <1>1, FS_Union
<1>3. Cardinality(S \cap T) = 0
  BY FS_EmptySet
<1>4. QED
  BY <1>1, <1>2, <1>3

(* The loop that stops after as many references as there are finds all.    *)
LEMMA FirstObjectsAreAll ==
  ASSUME NEW h, atom \in [Cell -> Val]
  PROVE  FirstObjects(h, Cardinality(Objects(h))) = Objects(h)
<1> SUFFICES ASSUME NEW c \in Objects(h)
             PROVE  Cardinality({d \in Objects(h) : d[2] < c[2]}) < Cardinality(Objects(h))
  BY DEF FirstObjects
<1> DEFINE S == {d \in Objects(h) : d[2] < c[2]}
<1>1. Objects(h) \in SUBSET Cell /\ S \in SUBSET Cell
  BY DEF Objects
<1>2. c \in Cell /\ c[2] \in Nat
  BY <1>1, CellShape, MachineAssumption DEF Slot, Index
<1>3. c \notin S /\ S \subseteq Objects(h) /\ S # Objects(h)
  BY <1>2
<1>4. Cardinality(S) <= Cardinality(Objects(h)) /\ Cardinality(S) # Cardinality(Objects(h))
  BY <1>1, <1>3, CellsAreFinite, FS_Subset
<1>5. QED
  BY <1>1, <1>4, CellsAreFinite

-----------------------------------------------------------------------------
(* Types                                                                   *)

(* A frame's counter stays one that a uint8_t can hold.                    *)
LEMMA CounterStaysInRange ==
  /\ 0 \in Slot
  /\ \A n \in Nat : n % NSlots \in Slot
  /\ \A n \in Slot : Plus(n) \in Slot /\ Minus(n) \in Slot
<1>1. NSlots \in Nat /\ NSlots > 0
  BY MachineAssumption
<1>2. \A n \in Nat : n % NSlots \in 0 .. NSlots - 1
  BY <1>1
<1>3. \A n \in Slot : n + 1 \in Nat /\ n + NSlots - 1 \in Nat
  BY <1>1 DEF Slot
<1>4. QED
  BY <1>1, <1>2, <1>3 DEF Plus, Minus, Slot

(* What is known between two handlers, when a frame is there.              *)
LEMMA IdleFrame ==
  ASSUME TypeOK, ~Busy, depth > 0
  PROVE  /\ doomed = {} /\ store = NoStore /\ ~popped
         /\ depth \in Frame
         /\ \A s \in Slot : <<depth, s>> \in Cell /\ atom[<<depth, s>>] \in Val
<1>1. doomed = {} /\ store = NoStore /\ ~popped
  BY DEF Busy
<1>2. depth \in Frame
  BY MachineAssumption DEF TypeOK, Frame
<1>3. QED
  BY <1>1, <1>2, FrameCell DEF TypeOK

(* The first half of a store into a frame has the right type.              *)
LEMMA BeginTyped ==
  ASSUME TypeOK, NEW c \in Cell, NEW v \in Val,
         NEW via \in {"frame", "container", "modcall"}, BeginStore(c, v, via)
  PROVE  /\ doomed' \subseteq Cell
         /\ store' \in [cell : Cell, val : Val, via : {"frame", "container", "modcall"}]
BY DEF BeginStore

(* The first half of a store into a slot, which also counts.               *)
LEMMA StoreSlotTyped ==
  ASSUME TypeOK, ~Busy, depth > 0, NEW s \in Slot, NEW v \in Val, StoreSlot(s, v)
  PROVE  /\ fields' \in [Frame -> Slot]
         /\ doomed' \subseteq Cell
         /\ store' \in [cell : Cell, val : Val, via : {"frame", "container", "modcall"}]
<1>1. depth \in Frame /\ <<depth, s>> \in Cell
  BY IdleFrame
<1>2. fields' \in [Frame -> Slot]
  BY <1>1, CounterStaysInRange DEF StoreSlot, TypeOK
<1>3. QED
  BY <1>1, <1>2, BeginTyped DEF StoreSlot

(* What the end of a handler sets has the right type.                      *)
LEMMA ControlTyped ==
  ASSUME TypeOK, NEW h \in DOMAIN After, NEW e \in BOOLEAN, GoOn(h, e)
  PROVE  /\ err' \in BOOLEAN
         /\ next' \in DOMAIN After \cup {Dispatch, "ILLEGAL"}
         /\ status' \in {"running", "stopped", "fault"}
BY DEF GoOn, TypeOK, After

(* References among cells are counted by natural numbers.                  *)
LEMMA RefsInNat ==
  ASSUME NEW C \in SUBSET Cell, NEW o
  PROVE  RefsIn(C, o) \in Nat
BY CellsAreFinite DEF RefsIn

-----------------------------------------------------------------------------
(* The two halves of the invariant                                         *)

(* Heap is about cells, objects and their counts; Control about what the *)
(* running handler has left to do.                                         *)
Heap    == NoDangling /\ RefExact /\ SubExact /\ NoWild /\ RefsInside /\ DeadHoldNothing
Control == AboveTopIsClear /\ StoreHasTarget

(* Nothing in the heap changes, but that the reference of one slot is      *)
(* about to be given up.                                                   *)
LEMMA SameHeap ==
  ASSUME TypeOK, Heap, doomed = {},
         UNCHANGED <<atom, alive, ref, sub, size, leak>>,
         doomed' \subseteq Frame \X Slot
  PROVE  Heap'
<1>1. NoDangling' /\ NoWild'
  BY DEF Heap, NoDangling, NoWild
<1>2. RefExact'
  BY DEF Heap, RefExact, Refs
<1>3. SubExact'
  <2> SUFFICES ASSUME NEW o \in alive PROVE sub[o] = Cardinality(Objects(o) \ doomed')
    BY DEF SubExact, Objects
  <2>1. o \notin Frame
    BY MachineAssumption DEF TypeOK
  <2>2. Objects(o) \ doomed' = Objects(o) \ doomed
    BY <2>1 DEF Objects
  <2>3. QED
    BY <2>2 DEF Heap, SubExact
<1>4. DeadHoldNothing'
  BY DEF Heap, DeadHoldNothing
<1>5. RefsInside'
  BY DEF Heap, RefsInside
<1>6. QED
  BY <1>1, <1>2, <1>3, <1>4, <1>5 DEF Heap

(* A handler that ends at once leaves the control part as it is.           *)
LEMMA SameControl ==
  ASSUME Control, ~Busy, UNCHANGED <<atom, doomed, store, popped>>,
         depth' = depth \/ depth' = 0
  PROVE  Control'
BY DEF Control, Busy, AboveTopIsClear, StoreHasTarget

(* A store into a slot of the current frame begins.                        *)
LEMMA StoreBegins ==
  ASSUME TypeOK, Control, ~Busy, depth > 0, UNCHANGED <<depth, popped>>,
         NEW s \in Slot, NEW v \in Val, NEW via \in {"frame", "modcall"},
         BeginStore(<<depth, s>>, v, via),
         \A c \in Cell : c[1] \in Frame => atom'[c] = atom[c]
  PROVE  Control' /\ doomed' \subseteq Frame \X Slot
<1>1. depth \in Frame /\ <<depth, s>> \in Cell /\ <<depth, s>> \in Frame \X Slot
  BY IdleFrame
<1>2. doomed' \subseteq {<<depth, s>>}
  BY DEF BeginStore
<1>3. store'.cell = <<depth, s>> /\ store'.via = via
  BY DEF BeginStore
<1>4. atom'[<<depth, s>>] = atom[<<depth, s>>]
  BY <1>1
<1>5. StoreHasTarget'
  <2>1. store'.via # "container"
    BY <1>3
  <2>2. store'.cell[1] \in Frame /\ store'.cell[1] <= depth'
    BY <1>1, <1>3, FrameCell DEF Frame
  <2>3. store'.cell \in doomed' \/ atom'[store'.cell] = Prim
    BY <1>3, <1>4 DEF BeginStore
  <2>4. QED
    BY <2>1, <2>2, <2>3 DEF StoreHasTarget
<1>6. AboveTopIsClear'
  <2>1. ASSUME NEW c \in Cell, c[1] \in Frame, c[1] > depth PROVE atom'[c] = Prim
    BY <2>1, IdleFrame DEF Control, AboveTopIsClear
  <2>2. QED
    BY <2>1 DEF AboveTopIsClear
<1>7. QED
  BY <1>1, <1>2, <1>5, <1>6 DEF Control

(* A fresh object, whose cells are zero, refers to nothing and nothing     *)
(* refers to it.                                                           *)
LEMMA FreshObject ==
  ASSUME TypeOK, Heap, doomed = {}, NEW o \in Obj, NEW n, NEW f \in [Index -> {Prim}],
         Allocate(o, n, f), sub' = [sub EXCEPT ![o] = 0], leak' = leak,
         doomed' \subseteq Frame \X Slot
  PROVE  Heap' /\ atom' = atom
<1>1. o \notin alive /\ alive' = alive \cup {o} /\ ref' = [ref EXCEPT ![o] = 0]
  BY DEF Allocate
<1>2. atom' = atom
  <2>1. atom' = [c \in Cell |-> IF c[1] = o THEN f[c[2]] ELSE atom[c]]
    BY DEF Allocate
  <2>2. ASSUME NEW c \in Cell, c[1] = o PROVE f[c[2]] = Prim /\ atom[c] = Prim
    BY <1>1, <2>2, CellShape DEF Heap, DeadHoldNothing
  <2>3. QED
    BY <2>1, <2>2 DEF TypeOK
<1>3. NoDangling' /\ NoWild'
  BY <1>1, <1>2 DEF Heap, NoDangling, NoWild
<1>4. Refs(o) = {}
  BY <1>1 DEF Heap, NoDangling, Refs
<1>5. leak[o] = 0 /\ Cardinality(Refs(o)) = 0
  BY <1>1, <1>4, FS_EmptySet DEF Heap, DeadHoldNothing
<1>6. RefExact'
  <2> SUFFICES ASSUME NEW p \in alive'
               PROVE  ref'[p] = Cardinality(Refs(p)) + leak[p]
    BY <1>2 DEF RefExact, Refs
  <2>1. CASE p = o
    BY <1>1, <1>5, <2>1 DEF TypeOK
  <2>2. CASE p # o
    BY <1>1, <2>2 DEF Heap, RefExact, TypeOK
  <2>3. QED
    BY <2>1, <2>2
<1>7. SubExact'
  <2> SUFFICES ASSUME NEW p \in alive'
               PROVE  sub'[p] = Cardinality(Objects(p) \ doomed')
    BY <1>2 DEF SubExact, Objects
  <2>1. p \in Obj /\ p \notin Frame
    BY <1>1, MachineAssumption DEF TypeOK
  <2>2. Objects(p) \ doomed' = Objects(p) \ doomed
    BY <2>1 DEF Objects
  <2>3. CASE p # o
    BY <1>1, <2>2, <2>3 DEF Heap, SubExact, TypeOK
  <2>4. CASE p = o
    <3>1. Objects(p) = {}
      BY <1>1, <2>4 DEF Objects, Heap, DeadHoldNothing
    <3>2. Cardinality(Objects(p) \ doomed') = 0
      BY <3>1, FS_EmptySet
    <3>3. QED
      BY <2>4, <3>2 DEF TypeOK
  <2>5. QED
    BY <2>3, <2>4
<1>8. DeadHoldNothing'
  BY <1>1, <1>2 DEF Heap, DeadHoldNothing
<1>9. RefsInside'
  <2> SUFFICES ASSUME NEW x \in Cell, x[1] \in alive', atom'[x] # Prim
               PROVE  x[2] < size'[x[1]]
    BY DEF RefsInside
  <2>1. x[1] # o /\ x[1] \in alive
    BY <1>1, <1>2 DEF Heap, DeadHoldNothing
  <2>2. size'[x[1]] = size[x[1]]
    BY <2>1 DEF Allocate, TypeOK
  <2>3. QED
    BY <1>2, <2>1, <2>2 DEF Heap, RefsInside
<1>10. QED
  BY <1>2, <1>3, <1>6, <1>7, <1>8, <1>9 DEF Heap

-----------------------------------------------------------------------------
(* Steps that leave the heap alone                                         *)

(* The invariant by its halves.                                            *)
LEMMA InvParts == Inv <=> TypeOK /\ Heap /\ Control
BY DEF Inv, Heap, Control

(* The types of the variables that say what runs next.                     *)
ControlVarsOK ==
  /\ err \in BOOLEAN
  /\ next \in DOMAIN After \cup {Dispatch, "ILLEGAL"}
  /\ status \in {"running", "stopped", "fault"}

(* Errors, stops and undefined behaviour: only err, next and status change. *)
LEMMA NothingElseChanges ==
  ASSUME Inv, ControlVarsOK',
         UNCHANGED <<depth, ret, atom, ref, doomed, store, popped, leak, counters, objects>>
  PROVE  Inv'
<1>1. TypeOK'
  BY DEF Inv, TypeOK, ControlVarsOK, counters, objects
<1>2. Heap'
  BY DEF Inv, Heap, NoDangling, RefExact, Refs, SubExact, Objects, NoWild,
         RefsInside, DeadHoldNothing, counters, objects
<1>3. Control'
  BY DEF Inv, Control, AboveTopIsClear, StoreHasTarget, objects
<1>4. QED
  BY <1>1, <1>2, <1>3 DEF Inv, Heap, Control

(* exec returns.                                                           *)
LEMMA StopPreserves ==
  ASSUME Inv, NEW e \in BOOLEAN, Stop(e)
  PROVE  Inv'
<1>1. ControlVarsOK'
  BY DEF Stop, ControlVarsOK, Inv, TypeOK
<1>2. QED
  BY <1>1, NothingElseChanges DEF Stop

(* Undefined behaviour is reached: the state is left as it was.            *)
LEMMA FaultPreserves ==
  ASSUME Inv, Fault
  PROVE  Inv'
<1>1. ControlVarsOK'
  BY DEF Fault, ControlVarsOK, Inv, TypeOK
<1>2. QED
  BY <1>1, NothingElseChanges DEF Fault

(* A handler ends having done nothing, but perhaps raised an error.        *)
LEMMA GoOnPreserves ==
  ASSUME Inv, NEW h \in DOMAIN After, NEW e \in BOOLEAN, GoOn(h, e),
         UNCHANGED <<depth, ret, atom, ref, doomed, store, popped, leak, counters, objects>>
  PROVE  Inv'
<1>1. ControlVarsOK'
  BY ControlTyped DEF ControlVarsOK, Inv
<1>2. QED
  BY <1>1, NothingElseChanges

(* A store into the current frame begins and nothing else happens.         *)
LEMMA StorePreserves ==
  ASSUME Inv, ~Busy, depth > 0, ControlVarsOK',
         NEW s \in Slot, NEW v \in Val, NEW via \in {"frame", "modcall"},
         BeginStore(<<depth, s>>, v, via), fields' \in [Frame -> Slot],
         UNCHANGED <<depth, ret, atom, ref, sub, popped, leak, objects>>
  PROVE  Inv'
<1>1. TypeOK /\ Heap /\ Control
  BY InvParts
<1>2. Control' /\ doomed' \subseteq Frame \X Slot
  BY <1>1, StoreBegins
<1>3. doomed = {} /\ <<depth, s>> \in Cell
  BY <1>1, IdleFrame
<1>4. Heap'
  BY <1>1, <1>2, <1>3, SameHeap DEF objects
<1>5. /\ doomed' \subseteq Cell
      /\ store' \in [cell : Cell, val : Val, via : {"frame", "container", "modcall"}]
  BY <1>1, <1>3, BeginTyped
<1>6. TypeOK'
  BY <1>1, <1>5 DEF TypeOK, ControlVarsOK, objects
<1>7. QED
  BY <1>2, <1>4, <1>6 DEF Inv, Heap, Control

(* The same with the counter of the frame.                                 *)
LEMMA StoreSlotPreserves ==
  ASSUME Inv, ~Busy, depth > 0, ControlVarsOK',
         NEW s \in Slot, NEW v \in Val, StoreSlot(s, v), InFrame,
         UNCHANGED <<atom, ref, sub, objects>>
  PROVE  Inv'
<1>1. TypeOK /\ Heap /\ Control
  BY InvParts
<1>2. fields' \in [Frame -> Slot]
  BY <1>1, StoreSlotTyped
<1>3. BeginStore(<<depth, s>>, v, "frame")
  BY DEF StoreSlot
<1>4. UNCHANGED <<depth, ret, popped, leak>>
  BY DEF InFrame
<1>5. QED
  BY <1>2, <1>3, <1>4, StorePreserves

(* A primitive is about to be written to a slot.                           *)
LEMMA StorePrimPreserves ==
  ASSUME Inv, NEW d \in Slot, StorePrim(d)
  PROVE  Inv'
<1>1. ~Busy /\ depth > 0 /\ ControlVarsOK' /\ Prim \in Val
  BY DEF StorePrim, In, At, GoOnPlain, control, ControlVarsOK, Inv, TypeOK, Val
<1>2. QED
  BY <1>1, StoreSlotPreserves DEF StorePrim

(* mov: the content of a slot is about to be written to another.           *)
LEMMA MovPreserves ==
  ASSUME Inv, NEW d \in Slot, NEW s \in Slot, Mov(d, s)
  PROVE  Inv'
<1>1. ~Busy /\ depth > 0 /\ ControlVarsOK' /\ TypeOK
  BY DEF Mov, In, At, GoOnPlain, control, ControlVarsOK, Inv, TypeOK
<1>2. atom[<<depth, s>>] \in Val
  BY <1>1, IdleFrame
<1>3. QED
  BY <1>1, <1>2, StoreSlotPreserves DEF Mov

(* connew and concopy without memory.                                      *)
LEMMA ConNewFailsPreserves ==
  ASSUME Inv, NEW d \in Slot, NEW h \in {"CON_NEW", "CON_COPY"}, ConNewFails(h, d)
  PROVE  Inv'
<1>1. ~Busy /\ depth > 0 /\ Wild \in Val /\ TypeOK /\ h \in DOMAIN After
  BY DEF ConNewFails, In, At, Inv, Val, After
<1>2. ControlVarsOK'
  BY <1>1, ControlTyped DEF ConNewFails, ControlVarsOK
<1>3. QED
  BY <1>1, <1>2, StoreSlotPreserves DEF ConNewFails

(* consize: the size is about to be written to a slot.                     *)
LEMMA ConSizePreserves ==
  ASSUME Inv, NEW d \in Slot, NEW c \in Slot, ConSize(d, c)
  PROVE  Inv'
<1>1. ~Busy /\ depth > 0 /\ Prim \in Val /\ TypeOK /\ "CON_SIZE" \in DOMAIN After
  BY DEF ConSize, In, At, Inv, Val, After
<1>2. ControlVarsOK'
  BY <1>1, ControlTyped DEF ConSize, ControlVarsOK
<1>3. QED
  BY <1>1, <1>2, StoreSlotPreserves DEF ConSize

(* An index below the size of a container is a cell of it.                 *)
LEMMA ContainerCell ==
  ASSUME TypeOK, ~Busy, depth > 0, NEW h, NEW c \in Slot, Container(h, c), NEW i \in Nat,
         i < size[atom[<<depth, c>>]]
  PROVE  /\ atom[<<depth, c>>] \in Obj
         /\ <<atom[<<depth, c>>], i>> \in Cell
         /\ atom[<<atom[<<depth, c>>], i>>] \in Val
<1>1. atom[<<depth, c>>] \in Obj
  BY DEF Container, TypeOK
<1>2. size[atom[<<depth, c>>]] \in 0 .. MaxSize
  BY <1>1 DEF TypeOK
<1>3. i \in Index
  BY <1>2, MachineAssumption DEF Index
<1>4. <<atom[<<depth, c>>], i>> \in Cell
  BY <1>1, <1>3 DEF Cell
<1>5. QED
  BY <1>1, <1>4 DEF TypeOK

(* conget: the content of a container's cell is about to be written.       *)
LEMMA ConGetPreserves ==
  ASSUME Inv, NEW d \in Slot, NEW c \in Slot, NEW i \in 0 .. MaxSize, ConGet(d, c, i)
  PROVE  Inv'
<1> DEFINE o == atom[<<depth, c>>]
<1>1. ~Busy /\ depth > 0 /\ Prim \in Val /\ TypeOK /\ "CON_GET" \in DOMAIN After
  BY DEF ConGet, Container, In, At, Inv, Val, After
<1>2. CASE i >= size[o] /\ StoreSlot(d, Prim) /\ GoOn("CON_GET", TRUE)
  <2>1. ControlVarsOK'
    BY <1>1, <1>2, ControlTyped DEF ControlVarsOK
  <2>2. QED
    BY <1>1, <1>2, <2>1, StoreSlotPreserves DEF ConGet
<1>3. CASE i < size[o] /\ StoreSlot(d, atom[<<o, i>>]) /\ GoOn("CON_GET", FALSE)
  <2>1. ControlVarsOK'
    BY <1>1, <1>3, ControlTyped DEF ControlVarsOK
  <2>2. Container("CON_GET", c) /\ i \in Nat
    BY MachineAssumption DEF ConGet
  <2>3. atom[<<o, i>>] \in Val
    BY <1>1, <1>3, <2>2, ContainerCell
  <2>4. QED
    BY <1>1, <1>3, <2>1, <2>3, StoreSlotPreserves DEF ConGet
<1>4. QED
  BY <1>2, <1>3 DEF ConGet

(* A module call whose result is a primitive.                              *)
LEMMA ModCallPrimPreserves ==
  ASSUME Inv, NEW r \in Slot, ModCallPrim(r)
  PROVE  Inv'
<1>1. ~Busy /\ depth > 0 /\ Prim \in Val /\ TypeOK /\ "MOD_CALL" \in DOMAIN After
  BY DEF ModCallPrim, In, At, Inv, Val, After
<1>2. ControlVarsOK'
  BY <1>1, ControlTyped DEF ModCallPrim, ControlVarsOK
<1>3. fields' \in [Frame -> Slot] /\ UNCHANGED <<depth, ret, popped, leak, sub>>
  BY <1>1 DEF ModCallPrim, InFrame, counters, TypeOK
<1>4. QED
  BY <1>1, <1>2, <1>3, StorePreserves DEF ModCallPrim

(* A return: the result goes to the caller's frame, which is now on top.   *)
LEMMA ReturnValuePreserves ==
  ASSUME Inv, ~Busy, NEW h \in DOMAIN After, NEW v,
         depth > 0 => v \in Val, ReturnValue(h, v)
  PROVE  Inv'
<1>1. TypeOK /\ Heap /\ Control
  BY InvParts
<1>2. ControlVarsOK'
  BY <1>1, ControlTyped DEF ReturnValue, ControlVarsOK
<1>3. CASE depth' = 0 /\ UNCHANGED <<ret, atom, ref, doomed, store, popped, leak, counters, objects>>
  <2>1. TypeOK'
    BY <1>1, <1>2, <1>3, MachineAssumption DEF TypeOK, ControlVarsOK, counters, objects
  <2>2. doomed = {} /\ doomed' = {}
    BY <1>3 DEF Busy
  <2>3. Heap'
    BY <1>1, <1>3, <2>2, SameHeap DEF counters, objects
  <2>4. Control'
    BY <1>1, <1>3, SameControl
  <2>5. QED
    BY <2>1, <2>3, <2>4 DEF Inv, Heap, Control
<1>4. CASE /\ depth > 1
           /\ depth' = depth - 1 /\ popped' = TRUE
           /\ BeginStore(<<depth - 1, ret[depth]>>, v, "frame")
           /\ fields' = IF atom[<<depth - 1, ret[depth]>>] = Prim THEN fields
                        ELSE [fields EXCEPT ![depth - 1] = Minus(@)]
           /\ UNCHANGED <<ret, atom, ref, leak, sub, objects>>
  <2> DEFINE c == <<depth - 1, ret[depth]>>
  <2>1. /\ doomed = {} /\ store = NoStore /\ ~popped
        /\ depth \in Frame /\ depth - 1 \in Frame /\ v \in Val
    BY <1>1, <1>4, IdleFrame, MachineAssumption DEF Frame, TypeOK
  <2>2. ret[depth] \in Slot /\ c \in Cell /\ c \in Frame \X Slot /\ c[1] = depth - 1
    BY <1>1, <2>1, FrameCell DEF TypeOK
  <2>3. doomed' \subseteq {c} /\ store'.cell = c /\ store'.via = "frame"
    BY <1>4 DEF BeginStore
  <2>4. TypeOK'
    <3>1. fields' \in [Frame -> Slot]
      BY <1>1, <1>4, <2>1, CounterStaysInRange DEF TypeOK
    <3>2. /\ doomed' \subseteq Cell
          /\ store' \in [cell : Cell, val : Val, via : {"frame", "container", "modcall"}]
      BY <1>1, <1>4, <2>1, <2>2, BeginTyped
    <3>3. depth' \in 0 .. MaxDepth /\ depth' < MaxDepth
      BY <1>4, <2>1, MachineAssumption DEF Frame
    <3>4. QED
      BY <1>1, <1>2, <1>4, <3>1, <3>2, <3>3 DEF TypeOK, ControlVarsOK, objects
  <2>5. Heap'
    <3>1. doomed' \subseteq Frame \X Slot
      BY <2>2, <2>3
    <3>2. QED
      BY <1>1, <1>4, <2>1, <3>1, SameHeap DEF objects
  <2>6. StoreHasTarget'
    <3>1. c \in doomed' \/ atom'[c] = Prim
      BY <1>4 DEF BeginStore
    <3>2. c[1] \in Frame /\ c[1] <= depth'
      BY <1>4, <2>1, <2>2 DEF Frame
    <3>3. QED
      BY <2>3, <3>1, <3>2 DEF StoreHasTarget
  <2>7. AboveTopIsClear'
    <3> SUFFICES ASSUME NEW x \in Cell, x[1] \in Frame, x[1] > depth', x[1] # depth' + 1
                 PROVE  atom'[x] = Prim
      BY <1>4 DEF AboveTopIsClear
    <3>1. x[1] > depth /\ depth > 0
      BY <1>4, <2>1 DEF Frame
    <3>2. AboveTopIsClear /\ x \notin doomed /\ ~popped
      BY <1>1, <2>1 DEF Control
    <3>3. atom[x] = Prim
      BY <3>1, <3>2 DEF AboveTopIsClear
    <3>4. QED
      BY <1>4, <3>3
  <2>8. QED
    BY <2>4, <2>5, <2>6, <2>7 DEF Inv, Heap
<1>5. QED
  BY <1>3, <1>4 DEF ReturnValue

-----------------------------------------------------------------------------
(* Steps that change the heap: the rest of a handler                       *)

(* The pending write takes a reference in a cell that holds none.          *)
LEMMA FinishStorePreserves ==
  ASSUME Inv, FinishStore
  PROVE  Inv'
<1> DEFINE c == store.cell
           v == store.val
<1>1. TypeOK /\ Heap /\ Control
  BY InvParts
<1>2. CASE Fault
  BY <1>2, FaultPreserves
<1>3. CASE /\ v \in alive \cup {Prim}
           /\ atom' = [atom EXCEPT ![c] = v] /\ store' = NoStore
           /\ IF v = Prim
              THEN UNCHANGED <<ref, fields, sub>>
              ELSE /\ ref' = [ref EXCEPT ![v] = @ + 1]
                   /\ fields' = IF store.via = "frame"
                                THEN [fields EXCEPT ![c[1]] = Plus(@)] ELSE fields
                   /\ sub' = IF store.via = "container"
                             THEN [sub EXCEPT ![c[1]] = @ + 1] ELSE sub
           /\ UNCHANGED <<doomed, control, objects>> /\ InFrame
  <2>1. /\ doomed = {} /\ doomed' = {} /\ c \in Cell /\ v \in Val
        /\ UNCHANGED <<depth, popped, leak, alive>>
    BY <1>1, <1>3 DEF FinishStore, TypeOK, InFrame, objects
  <2>2. atom[c] = Prim /\ atom \in [Cell -> Val]
    BY <1>1, <2>1 DEF FinishStore, Control, StoreHasTarget, TypeOK
  <2>3. TypeOK'
    <3>1. fields' \in [Frame -> Slot]
      <4>1. CASE fields' = fields
        BY <1>1, <4>1 DEF TypeOK
      <4>2. CASE fields' = [fields EXCEPT ![c[1]] = Plus(@)]
        BY <1>1, <4>2, CounterStaysInRange DEF TypeOK
      <4>3. QED
        BY <1>3, <4>1, <4>2
    <3>2. ref' \in [Obj -> Nat] /\ sub' \in [Obj -> Nat]
      BY <1>1, <1>3 DEF TypeOK
    <3>3. atom' \in [Cell -> Val]
      BY <1>3, <2>1, <2>2
    <3>4. QED
      BY <1>1, <1>3, <2>1, <3>1, <3>2, <3>3 DEF TypeOK, control, objects, InFrame
  <2>4. CASE v = Prim
    <3>1. atom' = atom
      BY <1>3, <2>2, <2>4
    <3>2. Heap'
      BY <1>1, <1>3, <2>1, <2>4, <3>1, SameHeap DEF objects
    <3>3. Control'
      BY <1>1, <1>3, <2>1, <3>1 DEF Control, AboveTopIsClear, StoreHasTarget
    <3>4. QED
      BY <2>3, <3>2, <3>3 DEF Inv, Heap, Control
  <2>5. CASE v # Prim
    <3>1. /\ v \in alive /\ v \in Obj /\ v # Wild /\ v # Prim
          /\ ref' = [ref EXCEPT ![v] = @ + 1]
          /\ sub' = IF store.via = "container" THEN [sub EXCEPT ![c[1]] = @ + 1] ELSE sub
      BY <1>1, <1>3, <2>5, MachineAssumption DEF TypeOK
    <3>2. \A x \in Cell : atom'[x] = IF x = c THEN v ELSE atom[x]
      BY <1>3, <2>1, <2>2
    <3>3. /\ store.via # "container" => c[1] \in Frame /\ c[1] <= depth
          /\ store.via = "container" => c[1] \in Obj /\ c[1] \in alive
      BY <1>1, <2>1 DEF FinishStore, Control, StoreHasTarget, Heap, NoDangling
    <3>4. NoDangling' /\ NoWild'
      BY <1>1, <2>1, <3>1, <3>2 DEF Heap, NoDangling, NoWild
    <3>5. RefExact'
      <4> SUFFICES ASSUME NEW o \in alive
                   PROVE  ref'[o] = Cardinality({x \in Cell : atom'[x] = o}) + leak[o]
        BY <2>1 DEF RefExact, Refs
      <4>1. o \in Obj /\ ref[o] = Cardinality(Refs(o)) + leak[o] /\ Refs(o) \in SUBSET Cell
            /\ leak[o] \in Nat /\ ref[o] \in Nat
        BY <1>1 DEF TypeOK, Heap, RefExact, Refs
      <4>2. CASE o = v
        <5>1. {x \in Cell : atom'[x] = o} = Refs(o) \cup {c} /\ c \notin Refs(o)
          BY <2>1, <2>2, <3>1, <3>2, <4>2 DEF Refs
        <5>2. Cardinality({x \in Cell : atom'[x] = o}) = Cardinality(Refs(o)) + 1
          BY <2>1, <4>1, <5>1, OneMore
        <5>3. ref'[o] = ref[o] + 1
          BY <1>1, <3>1, <4>1, <4>2 DEF TypeOK
        <5>4. QED
          BY <4>1, <5>2, <5>3, CellsAreFinite
      <4>3. CASE o # v
        <5>1. {x \in Cell : atom'[x] = o} = Refs(o)
          BY <2>1, <2>2, <3>1, <3>2, <4>1, <4>3, MachineAssumption DEF Refs
        <5>2. ref'[o] = ref[o]
          BY <1>1, <3>1, <4>1, <4>3 DEF TypeOK
        <5>3. QED
          BY <4>1, <5>1, <5>2
      <4>4. QED
        BY <4>2, <4>3
    <3>6. SubExact'
      <4> SUFFICES ASSUME NEW o \in alive
                   PROVE  sub'[o] = Cardinality({x \in Cell : x[1] = o /\ atom'[x] # Prim})
        BY <2>1 DEF SubExact, Objects
      <4>1. /\ o \in Obj /\ o \notin Frame
            /\ sub[o] = Cardinality(Objects(o)) /\ Objects(o) \in SUBSET Cell
        BY <1>1, <2>1, MachineAssumption DEF TypeOK, Heap, SubExact, Objects
      <4>2. CASE o = c[1]
        <5>1. store.via = "container" /\ sub'[o] = sub[o] + 1
          BY <1>1, <3>1, <3>3, <4>1, <4>2 DEF TypeOK
        <5>2. /\ {x \in Cell : x[1] = o /\ atom'[x] # Prim} = Objects(o) \cup {c}
              /\ c \notin Objects(o)
          BY <2>1, <2>2, <3>1, <3>2, <4>2 DEF Objects
        <5>3. QED
          BY <2>1, <4>1, <5>1, <5>2, OneMore
      <4>3. CASE o # c[1]
        <5>1. sub'[o] = sub[o]
          BY <1>1, <3>1, <3>3, <4>1, <4>3 DEF TypeOK
        <5>2. {x \in Cell : x[1] = o /\ atom'[x] # Prim} = Objects(o)
          BY <3>2, <4>3 DEF Objects
        <5>3. QED
          BY <4>1, <5>1, <5>2
      <4>4. QED
        BY <4>2, <4>3
    <3>7. DeadHoldNothing'
      <4>1. c[1] \notin Obj \ alive
        BY <3>3, MachineAssumption
      <4>2. QED
        BY <1>1, <2>1, <3>2, <4>1 DEF Heap, DeadHoldNothing
    <3>8. AboveTopIsClear'
      <4> SUFFICES ASSUME depth > 0, NEW x \in Cell, x[1] \in Frame, x[1] > depth,
                          ~(popped /\ x[1] = depth + 1)
                   PROVE  atom'[x] = Prim
        BY <2>1 DEF AboveTopIsClear
      <4>1. atom[x] = Prim
        BY <1>1, <2>1 DEF Control, AboveTopIsClear
      <4>2. x # c
        BY <1>1, <3>3, MachineAssumption DEF Frame, TypeOK
      <4>3. QED
        BY <3>2, <4>1, <4>2
    <3>9. StoreHasTarget'
      BY <1>3 DEF StoreHasTarget
    <3>10. RefsInside'
      <4> SUFFICES ASSUME NEW x \in Cell, x[1] \in alive, atom'[x] # Prim
                   PROVE  x[2] < size[x[1]]
        BY <1>3, <2>1 DEF RefsInside, objects
      <4>1. CASE x = c
        <5>1. store.via = "container"
          BY <1>1, <3>3, <4>1, MachineAssumption DEF TypeOK
        <5>2. QED
          BY <1>1, <4>1, <5>1 DEF FinishStore, Control, StoreHasTarget
      <4>2. CASE x # c
        BY <1>1, <3>2, <4>2 DEF Heap, RefsInside
      <4>3. QED
        BY <4>1, <4>2
    <3>11. QED
      BY <2>3, <3>4, <3>5, <3>6, <3>7, <3>8, <3>9, <3>10 DEF Inv
  <2>6. QED
    BY <2>4, <2>5
<1>4. v \notin Stray /\ store # NoStore => v \in alive \cup {Prim}
  BY <1>1 DEF TypeOK, Stray, Val
<1>5. QED
  BY <1>2, <1>3, <1>4 DEF FinishStore

(* One reference is given up; the object is freed if it was the last.      *)
LEMMA DropRefPreserves ==
  ASSUME Inv, NEW c \in doomed, DropRef(c)
  PROVE  Inv'
<1> DEFINE o    == atom[c]
           mine == FirstObjects(o, sub[o])
           lost == Objects(o) \ mine
           safe == o \in alive /\ (ref[o] = 1 => sub[o] <= Cardinality(Objects(o)))
<1>1. TypeOK /\ Heap /\ Control
  BY InvParts
<1>2. c \in Cell /\ o \in Val
  BY <1>1 DEF TypeOK
<1>3. CASE Fault
  BY <1>3, FaultPreserves
<1>4. CASE /\ safe /\ ref[o] # 1
           /\ atom' = [atom EXCEPT ![c] = Prim]
           /\ ref'  = [ref EXCEPT ![o] = @ - 1]
           /\ doomed' = doomed \ {c}
           /\ UNCHANGED <<depth, ret, store, popped, leak, counters, objects, control>>
  <2>1. o \in alive /\ o \in Obj /\ o # Prim
    BY <1>1, <1>4, MachineAssumption DEF TypeOK
  <2>2. \A x \in Cell : atom'[x] = IF x = c THEN Prim ELSE atom[x]
    BY <1>1, <1>4 DEF TypeOK
  <2>3. /\ ref[o] = Cardinality(Refs(o)) + leak[o] /\ Refs(o) \in SUBSET Cell /\ c \in Refs(o)
        /\ leak[o] \in Nat /\ ref[o] \in Nat
    BY <1>1, <1>2, <2>1 DEF TypeOK, Heap, RefExact, Refs
  <2>4. Cardinality(Refs(o) \ {c}) = Cardinality(Refs(o)) - 1 /\ Cardinality(Refs(o)) > 0
    BY <2>3, OneFewer
  <2>5. ref[o] > 0
    BY <2>3, <2>4, CellsAreFinite
  <2>6. TypeOK'
    <3>1. ref' \in [Obj -> Nat]
      BY <1>1, <1>4, <2>1, <2>3, <2>5 DEF TypeOK
    <3>2. atom' \in [Cell -> Val]
      BY <1>1, <1>4 DEF TypeOK, Val
    <3>3. QED
      BY <1>1, <1>4, <3>1, <3>2 DEF TypeOK, counters, objects, control
  <2>7. NoDangling' /\ NoWild'
    BY <1>1, <1>4, <2>2, MachineAssumption DEF Heap, NoDangling, NoWild, objects
  <2>8. RefExact'
    <3> SUFFICES ASSUME NEW p \in alive
                 PROVE  ref'[p] = Cardinality({x \in Cell : atom'[x] = p}) + leak[p]
      BY <1>4 DEF RefExact, Refs, objects
    <3>1. p \in Obj /\ p # Prim /\ ref[p] = Cardinality(Refs(p)) + leak[p]
      BY <1>1, MachineAssumption DEF TypeOK, Heap, RefExact
    <3>2. CASE p = o
      <4>1. {x \in Cell : atom'[x] = p} = Refs(o) \ {c}
        BY <2>2, <3>1, <3>2 DEF Refs
      <4>2. ref'[p] = ref[o] - 1
        BY <1>1, <1>4, <2>1, <3>2 DEF TypeOK
      <4>3. Cardinality(Refs(o)) \in Nat
        BY <2>3, CellsAreFinite
      <4>4. ref[o] - 1 = Cardinality(Refs(o)) - 1 + leak[o]
        BY <2>3, <4>3
      <4>5. QED
        BY <2>4, <3>2, <4>1, <4>2, <4>4
    <3>3. CASE p # o
      <4>1. {x \in Cell : atom'[x] = p} = Refs(p)
        BY <2>2, <3>1, <3>3 DEF Refs
      <4>2. ref'[p] = ref[p]
        <5>1. ref \in [Obj -> Nat] /\ ref' = [ref EXCEPT ![o] = @ - 1]
          BY <1>1, <1>4 DEF TypeOK
        <5>2. QED
          BY <3>1, <3>3, <5>1
      <4>3. QED
        BY <3>1, <4>1, <4>2
    <3>4. QED
      BY <3>2, <3>3
  <2>9. SubExact'
    <3> SUFFICES ASSUME NEW p \in alive
                 PROVE  sub[p] = Cardinality({x \in Cell : x[1] = p /\ atom'[x] # Prim} \ doomed')
      BY <1>4 DEF SubExact, Objects, objects, counters
    <3>1. {x \in Cell : x[1] = p /\ atom'[x] # Prim} \ doomed' = Objects(p) \ doomed
      BY <1>4, <2>2 DEF Objects
    <3>2. QED
      BY <1>1, <3>1 DEF Heap, SubExact
  <2>10. DeadHoldNothing'
    BY <1>1, <1>4, <2>2 DEF Heap, DeadHoldNothing, objects
  <2>11. Control'
    <3>1. AboveTopIsClear'
      <4> SUFFICES ASSUME depth > 0, NEW x \in Cell, x[1] \in Frame, x[1] > depth, x \notin doomed',
                          ~(popped /\ x[1] = depth + 1)
                   PROVE  atom'[x] = Prim
        BY <1>4 DEF AboveTopIsClear
      <4>1. x = c \/ x \notin doomed
        BY <1>4
      <4>2. QED
        BY <1>1, <2>2, <4>1 DEF Control, AboveTopIsClear
    <3>2. StoreHasTarget'
      <4> SUFFICES ASSUME store # NoStore
                   PROVE  /\ store.cell \in doomed' \/ atom'[store.cell] = Prim
                          /\ store.via = "container" =>
                               \E s \in Slot : /\ <<depth, s>> \in Cell \ doomed'
                                               /\ atom'[<<depth, s>>] = store.cell[1]
        BY <1>1, <1>4 DEF Control, StoreHasTarget, objects
      <4>1. store.cell \in Cell
        BY <1>1 DEF TypeOK
      <4>2. store.cell \in doomed \/ atom[store.cell] = Prim
        BY <1>1 DEF Control, StoreHasTarget
      <4>3. store.cell \in doomed' \/ atom'[store.cell] = Prim
        BY <1>4, <2>2, <4>1, <4>2
      <4>4. ASSUME store.via = "container"
            PROVE  \E s \in Slot : /\ <<depth, s>> \in Cell \ doomed'
                                   /\ atom'[<<depth, s>>] = store.cell[1]
        <5>1. PICK s \in Slot : /\ <<depth, s>> \in Cell \ doomed
                                /\ atom[<<depth, s>>] = store.cell[1]
          BY <1>1, <4>4 DEF Control, StoreHasTarget
        <5>2. <<depth, s>> # c
          BY <5>1
        <5>3. QED
          BY <1>4, <2>2, <5>1, <5>2
      <4>5. QED
        BY <4>3, <4>4
    <3>3. QED
      BY <3>1, <3>2 DEF Control
  <2>12. RefsInside'
    BY <1>1, <1>4, <2>2 DEF Heap, RefsInside, objects
  <2>13. QED
    BY <2>6, <2>7, <2>8, <2>9, <2>10, <2>11, <2>12 DEF Inv, Control
<1>5. CASE /\ safe /\ ref[o] = 1
           /\ alive' = alive \ {o}
           /\ atom' = [d \in Cell |-> IF d \in lost \cup {c} THEN Prim ELSE atom[d]]
           /\ ref'  = [ref EXCEPT ![o] = 0]
           /\ doomed' = (doomed \cup mine) \ {c}
           /\ Forget(lost \ {c})
           /\ buffers' = buffers \ {o}
           /\ size' = [size EXCEPT ![o] = 0] /\ sub' = [sub EXCEPT ![o] = 0]
           /\ UNCHANGED <<depth, fields, ret, store, popped, control>>
  <2>1. o \in alive /\ o \in Obj /\ o # Prim /\ o \notin Frame
    BY <1>1, <1>5, MachineAssumption DEF TypeOK
  <2>2. \A x \in Cell : atom'[x] = IF x \in lost \cup {c} THEN Prim ELSE atom[x]
    BY <1>5
  <2>3. /\ 1 = Cardinality(Refs(o)) + leak[o] /\ Refs(o) \in SUBSET Cell /\ c \in Refs(o)
        /\ leak[o] \in Nat
    BY <1>1, <1>2, <1>5, <2>1 DEF TypeOK, Heap, RefExact, Refs
  <2>4. Refs(o) = {c} /\ leak[o] = 0
    <3>1. Cardinality(Refs(o) \ {c}) = Cardinality(Refs(o)) - 1 /\ Cardinality(Refs(o)) > 0
      BY <2>3, OneFewer
    <3>2. Cardinality(Refs(o)) = 1 /\ leak[o] = 0
      BY <2>3, <3>1, CellsAreFinite
    <3>3. Refs(o) \ {c} = {}
      BY <2>3, <3>1, <3>2, CellsAreFinite, FS_EmptySet
    <3>4. QED
      BY <2>3, <3>2, <3>3
  <2>5. /\ mine \subseteq Objects(o) /\ lost \subseteq Objects(o)
        /\ Objects(o) = mine \cup lost /\ Objects(o) \in SUBSET Cell
        /\ \A x \in Objects(o) : x[1] = o
    BY DEF FirstObjects, Objects
  <2>6. \A p \in Obj : leak'[p] = leak[p] + RefsIn(lost \ {c}, p)
    BY <1>5 DEF Forget
  <2>7. TypeOK'
    <3>1. leak' \in [Obj -> Nat]
      <4>1. lost \ {c} \in SUBSET Cell
        BY <2>5
      <4>2. QED
        BY <1>1, <1>5, <4>1, RefsInNat DEF TypeOK, Forget
    <3>2. ref' \in [Obj -> Nat] /\ sub' \in [Obj -> Nat] /\ size' \in [Obj -> 0 .. MaxSize]
      BY <1>1, <1>5, MachineAssumption DEF TypeOK
    <3>3. atom' \in [Cell -> Val]
      BY <1>1, <1>5 DEF TypeOK, Val
    <3>4. doomed' \subseteq Cell
      BY <1>1, <1>5, <2>5 DEF TypeOK
    <3>5. QED
      BY <1>1, <1>5, <3>1, <3>2, <3>3, <3>4 DEF TypeOK, control
  <2>8. NoDangling' /\ NoWild'
    <3> SUFFICES ASSUME NEW x \in Cell
                 PROVE  (atom'[x] \in Obj => atom'[x] \in alive') /\ atom'[x] # Wild
      BY DEF NoDangling, NoWild
    <3>1. atom'[x] = Prim \/ (atom'[x] = atom[x] /\ x # c)
      BY <2>2
    <3>2. x # c => atom[x] # o
      BY <2>4 DEF Refs
    <3>3. QED
      BY <1>1, <1>5, <3>1, <3>2, MachineAssumption DEF Heap, NoDangling, NoWild
  <2>9. RefExact'
    <3> SUFFICES ASSUME NEW p \in alive, p # o
                 PROVE  ref'[p] = Cardinality({x \in Cell : atom'[x] = p}) + leak'[p]
      BY <1>5 DEF RefExact, Refs
    <3> DEFINE gone == {x \in lost \ {c} : atom[x] = p}
               rest == {x \in Cell : atom'[x] = p}
    <3>1. /\ p \in Obj /\ p # Prim /\ ref[p] = Cardinality(Refs(p)) + leak[p]
          /\ leak[p] \in Nat /\ ref'[p] = ref[p]
      BY <1>1, <1>5, <2>1, MachineAssumption DEF TypeOK, Heap, RefExact
    <3>2. gone \in SUBSET Cell /\ rest \in SUBSET Cell /\ gone \cap rest = {}
      BY <2>2, <2>5, <3>1
    <3>3. Refs(p) = gone \cup rest
      BY <2>2, <2>5, <3>1 DEF Refs
    <3>4. Cardinality(Refs(p)) = Cardinality(gone) + Cardinality(rest)
      BY <3>2, <3>3, TwoParts
    <3>5. leak'[p] = leak[p] + Cardinality(gone)
      BY <2>6, <3>1 DEF RefsIn
    <3>6. Cardinality(gone) \in Nat /\ Cardinality(rest) \in Nat
      BY <3>2, CellsAreFinite
    <3>7. QED
      BY <3>1, <3>4, <3>5, <3>6
  <2>10. SubExact'
    <3> SUFFICES ASSUME NEW p \in alive, p # o
                 PROVE  sub'[p] = Cardinality({x \in Cell : x[1] = p /\ atom'[x] # Prim} \ doomed')
      BY <1>5 DEF SubExact, Objects
    <3>1. {x \in Cell : x[1] = p /\ atom'[x] # Prim} \ doomed' = Objects(p) \ doomed
      BY <1>5, <2>2, <2>5 DEF Objects
    <3>2. p \in Obj /\ sub'[p] = sub[p]
      BY <1>1, <1>5 DEF TypeOK
    <3>3. QED
      BY <1>1, <3>1, <3>2 DEF Heap, SubExact
  <2>11. DeadHoldNothing'
    <3>1. ASSUME NEW x \in Cell, x[1] \in Obj \ alive', x \notin doomed' PROVE atom'[x] = Prim
      <4>1. CASE x[1] = o
        BY <1>5, <2>2, <2>5, <3>1, <4>1 DEF Objects
      <4>2. CASE x[1] # o
        <5>1. x[1] \in Obj \ alive
          BY <1>5, <3>1, <4>2
        <5>2. x = c \/ x \notin doomed
          BY <1>5, <3>1
        <5>3. QED
          BY <1>1, <2>2, <5>1, <5>2 DEF Heap, DeadHoldNothing
      <4>3. QED
        BY <4>1, <4>2
    <3>2. ASSUME NEW p \in Obj \ alive' PROVE leak'[p] = 0
      <4>1. leak[p] = 0
        BY <1>1, <1>5, <2>4 DEF Heap, DeadHoldNothing
      <4>2. {x \in lost \ {c} : atom[x] = p} = {}
        <5>1. CASE p = o
          BY <2>4, <2>5, <5>1 DEF Refs
        <5>2. CASE p # o
          BY <1>1, <1>5, <2>5, <5>2, <3>2 DEF Heap, NoDangling
        <5>3. QED
          BY <5>1, <5>2
      <4>3. QED
        BY <2>6, <4>1, <4>2, FS_EmptySet DEF RefsIn
    <3>3. QED
      BY <3>1, <3>2 DEF DeadHoldNothing
  <2>12. AboveTopIsClear'
    <3> SUFFICES ASSUME depth > 0, NEW x \in Cell, x[1] \in Frame, x[1] > depth, x \notin doomed',
                        ~(popped /\ x[1] = depth + 1)
                 PROVE  atom'[x] = Prim
      BY <1>5 DEF AboveTopIsClear
    <3>1. x = c \/ x \notin doomed
      BY <1>5
    <3>2. QED
      BY <1>1, <2>2, <3>1 DEF Control, AboveTopIsClear
  <2>13. StoreHasTarget'
    <3> SUFFICES ASSUME store # NoStore
                 PROVE  /\ store.cell \in doomed' \/ atom'[store.cell] = Prim
                        /\ store.via = "container" =>
                             /\ size'[store.cell[1]] = size[store.cell[1]]
                             /\ \E s \in Slot : /\ <<depth, s>> \in Cell \ doomed'
                                                /\ atom'[<<depth, s>>] = store.cell[1]
      BY <1>1, <1>5 DEF Control, StoreHasTarget
    <3>1. store.cell \in Cell
      BY <1>1 DEF TypeOK
    <3>2. store.cell \in doomed \/ atom[store.cell] = Prim
      BY <1>1 DEF Control, StoreHasTarget
    <3>3. store.cell \in doomed' \/ atom'[store.cell] = Prim
      BY <1>5, <2>2, <3>1, <3>2
    <3>4. ASSUME store.via = "container"
          PROVE  /\ size'[store.cell[1]] = size[store.cell[1]]
                 /\ \E s \in Slot : /\ <<depth, s>> \in Cell \ doomed'
                                    /\ atom'[<<depth, s>>] = store.cell[1]
      <4>1. PICK s \in Slot : /\ <<depth, s>> \in Cell \ doomed
                              /\ atom[<<depth, s>>] = store.cell[1]
        BY <1>1, <3>4 DEF Control, StoreHasTarget
      <4>2. depth \in Frame
        BY <1>1, <3>4, MachineAssumption DEF Control, StoreHasTarget, TypeOK, Frame
      <4>0. <<depth, s>>[1] # o
        BY <2>1, <4>2
      <4>3. <<depth, s>> \notin mine /\ <<depth, s>> \notin lost /\ <<depth, s>> # c
        BY <2>5, <4>1, <4>0
      <4>4. store.cell[1] # o
        BY <2>4, <4>1 DEF Refs
      <4>5. size'[store.cell[1]] = size[store.cell[1]]
        BY <1>1, <1>5, <3>4, <4>4 DEF Control, StoreHasTarget, TypeOK
      <4>6. QED
        BY <1>5, <2>2, <4>1, <4>3, <4>5
    <3>5. QED
      BY <3>3, <3>4
  <2>14. RefsInside'
    <3> SUFFICES ASSUME NEW x \in Cell, x[1] \in alive, x[1] # o, atom'[x] # Prim
                 PROVE  x[2] < size'[x[1]]
      BY <1>5 DEF RefsInside
    <3>1. size'[x[1]] = size[x[1]]
      BY <1>1, <1>5 DEF TypeOK
    <3>2. QED
      BY <1>1, <2>2, <3>1 DEF Heap, RefsInside
  <2>15. QED
    BY <2>7, <2>8, <2>9, <2>10, <2>11, <2>12, <2>13, <2>14 DEF Inv
<1>6. QED
  BY <1>3, <1>4, <1>5 DEF DropRef

(* References forgotten with the cells C: those cells lose what they hold, *)
(* and each object's count still accounts for it.                          *)
LEMMA ForgetKeepsRefExact ==
  ASSUME TypeOK, RefExact, NEW C \in SUBSET Cell, Forget(C),
         atom' = [x \in Cell |-> IF x \in C THEN Prim ELSE atom[x]],
         NEW p \in alive, ref'[p] = ref[p]
  PROVE  ref'[p] = Cardinality({x \in Cell : atom'[x] = p}) + leak'[p]
<1> DEFINE gone == {x \in C : atom[x] = p}
           rest == {x \in Cell : atom'[x] = p}
<1>1. /\ p \in Obj /\ p # Prim /\ ref[p] = Cardinality(Refs(p)) + leak[p]
      /\ leak[p] \in Nat
  BY MachineAssumption DEF TypeOK, RefExact
<1>2. gone \in SUBSET Cell /\ rest \in SUBSET Cell /\ gone \cap rest = {}
  BY <1>1
<1>3. Refs(p) = gone \cup rest
  BY <1>1 DEF Refs
<1>4. Cardinality(Refs(p)) = Cardinality(gone) + Cardinality(rest)
  BY <1>2, <1>3, TwoParts
<1>5. leak'[p] = leak[p] + Cardinality(gone)
  BY <1>1 DEF RefsIn, Forget
<1>6. Cardinality(gone) \in Nat /\ Cardinality(rest) \in Nat
  BY <1>2, CellsAreFinite
<1>7. QED
  BY <1>1, <1>4, <1>5, <1>6

(* The references of a popped frame begin to be released.                  *)
LEMMA ReleaseFramePreserves ==
  ASSUME Inv, ReleaseFrame
  PROVE  Inv'
<1> DEFINE top  == depth + 1
           mine == FirstObjects(top, fields[top])
           lost == Objects(top) \ mine
<1>1. TypeOK /\ Heap /\ Control
  BY InvParts
<1>2. /\ doomed = {} /\ store = NoStore /\ popped
      /\ popped' = FALSE /\ doomed' = mine
      /\ atom' = [x \in Cell |-> IF x \in lost THEN Prim ELSE atom[x]]
      /\ Forget(lost)
      /\ fields' = [fields EXCEPT ![top] = 0] /\ ret' = [ret EXCEPT ![top] = 0]
      /\ UNCHANGED <<depth, ref, sub, store, objects, control>>
  BY DEF ReleaseFrame, Stored
<1>3. top \in Frame /\ top \notin Obj /\ depth \in Nat
  <2>1. depth \in 0 .. MaxDepth /\ depth < MaxDepth /\ MaxDepth \in Nat
    BY <1>1, <1>2, MachineAssumption DEF TypeOK
  <2>2. top \in Frame
    BY <2>1 DEF Frame
  <2>3. QED
    BY <2>1, <2>2, MachineAssumption
<1>4. /\ mine \subseteq Objects(top) /\ lost \subseteq Objects(top)
      /\ Objects(top) = mine \cup lost /\ Objects(top) \in SUBSET Cell
      /\ \A x \in Objects(top) : x[1] = top
  BY DEF FirstObjects, Objects
<1>5. lost \in SUBSET Cell
  BY <1>4
<1>6. TypeOK'
  <2>1. leak' \in [Obj -> Nat]
    BY <1>1, <1>2, <1>5, RefsInNat DEF TypeOK, Forget
  <2>2. fields' \in [Frame -> Slot] /\ ret' \in [Frame -> Slot]
    BY <1>1, <1>2, CounterStaysInRange DEF TypeOK
  <2>3. atom' \in [Cell -> Val]
    BY <1>1, <1>2 DEF TypeOK, Val
  <2>4. doomed' \subseteq Cell
    BY <1>2, <1>4
  <2>5. QED
    BY <1>1, <1>2, <2>1, <2>2, <2>3, <2>4 DEF TypeOK, control, objects
<1>7. NoDangling' /\ NoWild'
  BY <1>1, <1>2, MachineAssumption DEF Heap, NoDangling, NoWild, objects
<1>8. RefExact'
  <2> SUFFICES ASSUME NEW p \in alive
               PROVE  ref'[p] = Cardinality({x \in Cell : atom'[x] = p}) + leak'[p]
    BY <1>2 DEF RefExact, Refs, objects
  <2>1. QED
    BY <1>1, <1>2, <1>5, ForgetKeepsRefExact DEF Heap
<1>9. SubExact'
  <2> SUFFICES ASSUME NEW p \in alive
               PROVE  sub[p] = Cardinality({x \in Cell : x[1] = p /\ atom'[x] # Prim} \ doomed')
    BY <1>2 DEF SubExact, Objects, objects
  <2>1. p \in Obj /\ p # top
    BY <1>1, <1>3 DEF TypeOK
  <2>2. {x \in Cell : x[1] = p /\ atom'[x] # Prim} \ doomed' = Objects(p) \ doomed
    BY <1>2, <1>4, <2>1 DEF Objects
  <2>3. QED
    BY <1>1, <2>2 DEF Heap, SubExact
<1>10. DeadHoldNothing'
  <2>1. ASSUME NEW x \in Cell, x[1] \in Obj \ alive PROVE atom'[x] = Prim
    BY <1>1, <1>2, <2>1 DEF Heap, DeadHoldNothing
  <2>2. ASSUME NEW p \in Obj \ alive PROVE leak'[p] = 0
    <3>1. leak[p] = 0
      BY <1>1, <2>2 DEF Heap, DeadHoldNothing
    <3>2. {x \in lost : atom[x] = p} = {}
      BY <1>1, <1>5, <2>2 DEF Heap, NoDangling
    <3>3. leak'[p] = leak[p] + Cardinality({x \in lost : atom[x] = p})
      BY <1>2, <2>2 DEF Forget, RefsIn
    <3>4. QED
      BY <3>1, <3>2, <3>3, FS_EmptySet
  <2>3. QED
    BY <1>2, <2>1, <2>2 DEF DeadHoldNothing, objects
<1>11. AboveTopIsClear'
  <2> SUFFICES ASSUME depth > 0, NEW x \in Cell, x[1] \in Frame, x[1] > depth, x \notin mine
               PROVE  atom'[x] = Prim
    BY <1>2 DEF AboveTopIsClear
  <2>1. CASE x[1] = top
    BY <1>2, <2>1 DEF Objects
  <2>2. CASE x[1] # top
    BY <1>1, <1>2, <2>2 DEF Control, AboveTopIsClear
  <2>3. QED
    BY <2>1, <2>2
<1>12. StoreHasTarget'
  BY <1>2 DEF StoreHasTarget
<1>13. RefsInside'
  BY <1>1, <1>2 DEF Heap, RefsInside, objects
<1>14. QED
  BY <1>6, <1>7, <1>8, <1>9, <1>10, <1>11, <1>12, <1>13 DEF Inv

(* Two sets of cells that correspond one to one have the same size.        *)
LEMMA SameNumber ==
  ASSUME NEW S \in SUBSET Cell, NEW T \in SUBSET Cell, NEW f \in [S -> T],
         \A x, y \in S : f[x] = f[y] => x = y,
         \A t \in T : \E x \in S : f[x] = t
  PROVE  Cardinality(S) = Cardinality(T)
<1>1. f \in Bijection(S, T)
  <2>1. f \in Injection(S, T)
    BY DEF Injection, IsInjective
  <2>2. f \in Surjection(S, T)
    BY DEF Surjection
  <2>3. QED
    BY <2>1, <2>2 DEF Bijection
<1>2. ExistsBijection(S, T)
  BY <1>1 DEF ExistsBijection
<1>3. QED
  BY <1>2, CellsAreFinite, FS_Bijection

(* A call copies the arguments into the new frame and counts them.         *)
LEMMA CallPreserves ==
  ASSUME Inv, NEW n \in ArgCounts, NEW a \in Slot, NEW r \in Slot, Call(n, a, r)
  PROVE  Inv'
<1>1. TypeOK /\ Heap /\ Control
  BY InvParts
<1>2. /\ ~Busy /\ depth > 0 /\ depth < MaxDepth /\ n < NSlots /\ a + n <= NSlots
      /\ n \in Nat /\ a \in Nat /\ NSlots \in Nat
  BY MachineAssumption DEF Call, In, At, Slot
<1>3. doomed = {} /\ store = NoStore /\ ~popped /\ depth \in Frame
  BY <1>1, <1>2, IdleFrame
<1>4. depth \in Nat /\ depth + 1 \in Frame /\ depth + 1 \notin Obj
  <2>1. depth \in Nat /\ depth < MaxDepth /\ MaxDepth \in Nat
    BY <1>1, <1>2, MachineAssumption DEF TypeOK
  <2>2. depth + 1 \in Frame
    BY <2>1 DEF Frame
  <2>3. QED
    BY <2>1, <2>2, MachineAssumption
<1>5. /\ depth' = depth + 1
      /\ ref' = [o \in Obj |-> ref[o] + RefsIn(Arg(n, a), o)]
      /\ UNCHANGED <<sub, doomed, store, popped, leak, objects>>
  BY DEF Call
<1>6. \A i \in 0 .. n - 1 : /\ a + i \in Slot /\ i \in Slot
                            /\ <<depth, a + i>> \in Cell /\ <<depth + 1, i>> \in Cell
  BY <1>2, <1>3, <1>4, FrameCell DEF Slot
<1>7. Arg(n, a) \in SUBSET Cell
  BY <1>6 DEF Arg
<1>8. \A x \in Cell : x[1] = depth + 1 => x[2] \in Slot /\ x[2] \in Nat /\ atom[x] = Prim
  BY <1>1, <1>2, <1>3, <1>4, CellShape DEF Control, AboveTopIsClear, Slot
<1>9. atom' = [x \in Cell |-> IF x[1] # depth + 1 THEN atom[x]
                              ELSE IF x[2] < n THEN atom[<<depth, a + x[2]>>] ELSE Prim]
  BY DEF Call
<1>10. \A x \in Cell : x[1] = depth + 1 /\ x[2] < n =>
          x[2] \in 0 .. n - 1 /\ <<depth, a + x[2]>> \in Arg(n, a)
  BY <1>2, <1>8 DEF Arg
<1>11. atom' \in [Cell -> Val]
  <2> SUFFICES ASSUME NEW x \in Cell PROVE atom'[x] \in Val
    BY <1>9
  <2>1. CASE x[1] # depth + 1
    BY <1>1, <1>9, <2>1 DEF TypeOK
  <2>2. CASE x[1] = depth + 1 /\ x[2] < n
    BY <1>1, <1>7, <1>9, <1>10, <2>2 DEF TypeOK
  <2>3. CASE x[1] = depth + 1 /\ ~(x[2] < n)
    BY <1>9, <2>3 DEF Val
  <2>4. QED
    BY <2>1, <2>2, <2>3
<1>12. TypeOK'
  <2>1. ref' \in [Obj -> Nat]
    BY <1>1, <1>5, <1>7, RefsInNat DEF TypeOK
  <2>2. fields' \in [Frame -> Slot]
    <3>1. {x \in Arg(n, a) : atom[x] # Prim} \in SUBSET Cell
      BY <1>7
    <3>2. Cardinality({x \in Arg(n, a) : atom[x] # Prim}) % NSlots \in Slot
      BY <3>1, CellsAreFinite, CounterStaysInRange
    <3>3. QED
      BY <1>1, <3>2 DEF Call, TypeOK
  <2>3. ret' \in [Frame -> Slot]
    BY <1>1 DEF Call, TypeOK
  <2>4. ControlVarsOK'
    <3>1. "CALL" \in DOMAIN After
      BY DEF After
    <3>2. QED
      BY <1>1, <3>1, ControlTyped DEF Call, ControlVarsOK
  <2>5. depth' \in 0 .. MaxDepth
    BY <1>2, <1>4, <1>5, MachineAssumption
  <2>6. QED
    BY <1>1, <1>3, <1>5, <1>11, <2>1, <2>2, <2>3, <2>4, <2>5 DEF TypeOK, ControlVarsOK, objects
<1>13. \A x \in Cell : \/ atom'[x] = Prim
                       \/ \E y \in Cell : atom'[x] = atom[y]
  BY <1>7, <1>9, <1>10
<1>14. NoDangling' /\ NoWild'
  BY <1>1, <1>5, <1>13, MachineAssumption DEF Heap, NoDangling, NoWild, objects
<1>15. RefExact'
  <2> SUFFICES ASSUME NEW p \in alive
               PROVE  ref'[p] = Cardinality({x \in Cell : atom'[x] = p}) + leak[p]
    BY <1>5 DEF RefExact, Refs, objects
  <2> DEFINE S == {x \in Cell : x[1] = depth + 1 /\ atom'[x] = p}
             T == {x \in Arg(n, a) : atom[x] = p}
             f == [x \in S |-> <<depth, a + x[2]>>]
  <2>1. /\ p \in Obj /\ p # Prim /\ ref[p] = Cardinality(Refs(p)) + leak[p]
        /\ leak[p] \in Nat /\ Refs(p) \in SUBSET Cell
    BY <1>1, MachineAssumption DEF TypeOK, Heap, RefExact, Refs
  <2>2. ref'[p] = ref[p] + Cardinality(T)
    BY <1>5, <2>1 DEF RefsIn
  <2>3. S \in SUBSET Cell /\ T \in SUBSET Cell /\ S \cap Refs(p) = {}
    BY <1>7, <1>8, <2>1 DEF Refs
  <2>4. {x \in Cell : atom'[x] = p} = Refs(p) \cup S
    BY <1>8, <1>9, <2>1 DEF Refs
  <2>5. Cardinality(Refs(p) \cup S) = Cardinality(Refs(p)) + Cardinality(S)
    BY <2>1, <2>3, TwoParts
  <2>6. \A x \in S : /\ x[2] \in 0 .. n - 1 /\ x[2] \in Nat
                     /\ <<depth, a + x[2]>> \in T /\ x = <<depth + 1, x[2]>>
    BY <1>8, <1>9, <1>10, <2>1, CellShape
  <2>7. f \in [S -> T]
    BY <2>6
  <2>8. \A x, y \in S : f[x] = f[y] => x = y
    <3> SUFFICES ASSUME NEW x \in S, NEW y \in S, <<depth, a + x[2]>> = <<depth, a + y[2]>>
                 PROVE  x = y
      OBVIOUS
    <3>1. a + x[2] = a + y[2]
      OBVIOUS
    <3>2. x[2] \in Nat /\ y[2] \in Nat
      BY <2>6
    <3>3. x[2] = y[2]
      BY <1>2, <3>1, <3>2
    <3>4. QED
      BY <2>6, <3>3
  <2>9. \A t \in T : \E x \in S : f[x] = t
    <3> SUFFICES ASSUME NEW t \in T PROVE \E x \in S : f[x] = t
      OBVIOUS
    <3>1. PICK i \in 0 .. n - 1 : t = <<depth, a + i>>
      BY DEF Arg
    <3>2. <<depth + 1, i>> \in Cell /\ <<depth + 1, i>>[1] = depth + 1 /\ <<depth + 1, i>>[2] = i
      BY <1>6
    <3>3. i < n
      BY <1>2
    <3>4. atom'[<<depth + 1, i>>] = atom[<<depth, a + i>>]
      BY <1>9, <3>2, <3>3
    <3>5. <<depth + 1, i>> \in S
      BY <3>1, <3>2, <3>4
    <3>6. f[<<depth + 1, i>>] = t
      BY <3>1, <3>2, <3>5
    <3>7. QED
      BY <3>5, <3>6
  <2>10. Cardinality(S) = Cardinality(T)
    <3> HIDE DEF f
    <3>1. QED
      BY <2>3, <2>7, <2>8, <2>9, SameNumber
  <2>11. /\ Cardinality(Refs(p)) \in Nat /\ Cardinality(T) \in Nat
    BY <2>1, <2>3, CellsAreFinite
  <2>12. ref[p] + Cardinality(T) = Cardinality(Refs(p)) + Cardinality(T) + leak[p]
    BY <2>1, <2>11
  <2>13. QED
    BY <2>2, <2>4, <2>5, <2>10, <2>12
<1>16. SubExact'
  <2> SUFFICES ASSUME NEW p \in alive
               PROVE  sub[p] = Cardinality({x \in Cell : x[1] = p /\ atom'[x] # Prim} \ doomed)
    BY <1>5 DEF SubExact, Objects, objects
  <2>1. p \in Obj /\ p # depth + 1
    BY <1>1, <1>4 DEF TypeOK
  <2>2. {x \in Cell : x[1] = p /\ atom'[x] # Prim} = Objects(p)
    BY <1>9, <2>1 DEF Objects
  <2>3. QED
    BY <1>1, <2>2 DEF Heap, SubExact
<1>17. DeadHoldNothing'
  BY <1>1, <1>4, <1>5, <1>9 DEF Heap, DeadHoldNothing, objects
<1>18. AboveTopIsClear'
  <2> SUFFICES ASSUME NEW x \in Cell, x[1] \in Frame, x[1] > depth + 1
               PROVE  atom'[x] = Prim
    BY <1>5 DEF AboveTopIsClear
  <2>1. x[1] > depth /\ x[1] # depth + 1
    BY <1>4 DEF Frame
  <2>2. QED
    BY <1>1, <1>2, <1>3, <1>9, <2>1 DEF Control, AboveTopIsClear
<1>19. StoreHasTarget'
  BY <1>3, <1>5 DEF StoreHasTarget
<1>20. RefsInside'
  <2> SUFFICES ASSUME NEW x \in Cell, x[1] \in alive, atom'[x] # Prim
               PROVE  x[2] < size[x[1]]
    BY <1>5 DEF RefsInside, objects
  <2>1. x[1] # depth + 1
    BY <1>1, <1>4 DEF TypeOK
  <2>2. QED
    BY <1>1, <1>9, <2>1 DEF Heap, RefsInside
<1>21. QED
  BY <1>12, <1>14, <1>15, <1>16, <1>17, <1>18, <1>19, <1>20 DEF Inv

(* A new object whose cells are zero is made and stored in a slot.         *)
LEMMA NewObjectPreserves ==
  ASSUME Inv, ~Busy, depth > 0, ControlVarsOK',
         NEW o \in Obj, NEW n \in 0 .. MaxSize, NEW f \in [Index -> {Prim}], Allocate(o, n, f),
         sub' = [sub EXCEPT ![o] = 0], buffers' \subseteq Obj,
         NEW s \in Slot, NEW via \in {"frame", "modcall"},
         BeginStore(<<depth, s>>, o, via), fields' \in [Frame -> Slot],
         UNCHANGED <<depth, ret, popped, leak>>
  PROVE  Inv'
<1>1. TypeOK /\ Heap /\ Control /\ o \in Val
  BY InvParts DEF Val
<1>2. doomed = {} /\ store = NoStore /\ ~popped /\ depth \in Frame /\ <<depth, s>> \in Cell
  BY <1>1, IdleFrame
<1>3. doomed' \subseteq Frame \X Slot
  BY <1>2 DEF BeginStore
<1>4. Heap' /\ atom' = atom
  BY <1>1, <1>2, <1>3, FreshObject
<1>5. Control'
  BY <1>1, <1>4, StoreBegins
<1>6. /\ doomed' \subseteq Cell
      /\ store' \in [cell : Cell, val : Val, via : {"frame", "container", "modcall"}]
  BY <1>1, <1>2, BeginTyped
<1>7. TypeOK'
  <2>1. /\ alive' \subseteq Obj /\ ref' \in [Obj -> Nat] /\ sub' \in [Obj -> Nat]
        /\ size' \in [Obj -> 0 .. MaxSize]
    BY <1>1 DEF Allocate, TypeOK
  <2>2. QED
    BY <1>1, <1>4, <1>6, <2>1 DEF TypeOK, ControlVarsOK
<1>8. QED
  BY <1>4, <1>5, <1>7 DEF Inv, Heap, Control

(* connew: a container is made and stored.                                 *)
LEMMA ConNewPreserves ==
  ASSUME Inv, "garbage" \notin Risks, NEW d \in Slot, NEW n \in 0 .. MaxSize, ConNew(d, n)
  PROVE  Inv'
<1>1. TypeOK /\ ~Busy /\ depth > 0 /\ "CON_NEW" \in DOMAIN After
  BY DEF ConNew, In, At, Inv, After
<1>2. ControlVarsOK'
  BY <1>1, ControlTyped DEF ConNew, ControlVarsOK
<1>3. PICK o \in Obj, f \in Fresh(n) :
        /\ Allocate(o, n, f)
        /\ buffers' = buffers \ {o} /\ sub' = [sub EXCEPT ![o] = 0]
        /\ StoreSlot(d, o)
  BY DEF ConNew
<1>4. f \in [Index -> {Prim}] /\ o \in Val
  BY DEF Fresh, Val
<1>5. fields' \in [Frame -> Slot] /\ BeginStore(<<depth, d>>, o, "frame")
  BY <1>1, <1>3, <1>4, StoreSlotTyped DEF StoreSlot
<1>6. buffers' \subseteq Obj /\ UNCHANGED <<depth, ret, popped, leak>>
  BY <1>1, <1>3 DEF TypeOK, ConNew, InFrame
<1>7. QED
  BY <1>1, <1>2, <1>3, <1>4, <1>5, <1>6, NewObjectPreserves

(* A module call that makes a buffer, which is stored.                     *)
LEMMA ModCallBufferPreserves ==
  ASSUME Inv, NEW r \in Slot, ModCallBuffer(r)
  PROVE  Inv'
<1>1. TypeOK /\ ~Busy /\ depth > 0 /\ "MOD_CALL" \in DOMAIN After
  BY DEF ModCallBuffer, In, At, Inv, After
<1>2. ControlVarsOK'
  BY <1>1, ControlTyped DEF ModCallBuffer, ControlVarsOK
<1>3. PICK o \in Obj :
        /\ Allocate(o, 0, [i \in Index |-> Prim])
        /\ buffers' = buffers \cup {o} /\ sub' = [sub EXCEPT ![o] = 0]
        /\ BeginStore(<<depth, r>>, o, "modcall")
  BY DEF ModCallBuffer
<1>4. /\ [i \in Index |-> Prim] \in [Index -> {Prim}] /\ 0 \in 0 .. MaxSize
      /\ fields' \in [Frame -> Slot] /\ buffers' \subseteq Obj
      /\ UNCHANGED <<depth, ret, popped, leak>>
  BY <1>1, <1>3, MachineAssumption DEF TypeOK, ModCallBuffer, InFrame
<1>5. QED
  BY <1>1, <1>2, <1>3, <1>4, NewObjectPreserves

(* A module call that makes a buffer, which is not stored.                 *)
LEMMA ModCallOrphanPreserves ==
  ASSUME Inv, ModCallOrphan
  PROVE  Inv'
<1>1. TypeOK /\ Heap /\ Control /\ ~Busy /\ depth > 0 /\ "MOD_CALL" \in DOMAIN After
  BY InvParts DEF ModCallOrphan, In, At, After
<1>2. ControlVarsOK'
  BY <1>1, ControlTyped DEF ModCallOrphan, ControlVarsOK
<1>3. PICK o \in Obj :
        /\ Allocate(o, 0, [i \in Index |-> Prim])
        /\ buffers' = buffers \cup {o} /\ sub' = [sub EXCEPT ![o] = 0]
  BY DEF ModCallOrphan
<1>4. doomed = {} /\ UNCHANGED <<depth, ret, popped, leak, fields, doomed, store>>
  BY <1>1, IdleFrame DEF ModCallOrphan, InFrame
<1>5. [i \in Index |-> Prim] \in [Index -> {Prim}] /\ doomed' \subseteq Frame \X Slot
  BY <1>4
<1>6. Heap' /\ atom' = atom
  BY <1>1, <1>3, <1>4, <1>5, FreshObject
<1>7. Control'
  BY <1>1, <1>4, <1>6, SameControl
<1>8. TypeOK'
  <2>1. /\ alive' \subseteq Obj /\ ref' \in [Obj -> Nat] /\ sub' \in [Obj -> Nat]
        /\ size' \in [Obj -> 0 .. MaxSize] /\ buffers' \subseteq Obj
    BY <1>1, <1>3, MachineAssumption DEF Allocate, TypeOK
  <2>2. QED
    BY <1>1, <1>2, <1>4, <1>6, <2>1 DEF TypeOK, ControlVarsOK
<1>9. QED
  BY <1>6, <1>7, <1>8 DEF Inv, Heap, Control

(* conset: the cell of the container is given up, and counted out of it.   *)
LEMMA ConSetPreserves ==
  ASSUME Inv, NEW c \in Slot, NEW i \in 0 .. MaxSize, NEW s \in Slot, ConSet(c, i, s)
  PROVE  Inv'
<1> DEFINE o == atom[<<depth, c>>]
           x == <<o, i>>
           v == atom[<<depth, s>>]
<1>1. TypeOK /\ Heap /\ Control /\ ~Busy /\ depth > 0 /\ i \in Nat
      /\ Container("CON_SET", c) /\ "CON_SET" \in DOMAIN After
  BY InvParts, MachineAssumption DEF ConSet, Container, In, At, After
<1>2. /\ doomed = {} /\ store = NoStore /\ ~popped /\ depth \in Frame
      /\ <<depth, c>> \in Cell /\ v \in Val
  BY <1>1, IdleFrame
<1>3. UNCHANGED <<depth, ret, popped, leak, atom, ref, fields, objects>>
  BY DEF ConSet, InFrame
<1>4. CASE i >= size[o] /\ GoOn("CON_SET", TRUE) /\ UNCHANGED <<doomed, store, sub>>
  BY <1>1, <1>3, <1>4, GoOnPreserves DEF counters
<1>5. CASE /\ i < size[o]
           /\ BeginStore(x, v, "container")
           /\ sub' = IF atom[x] = Prim THEN sub ELSE [sub EXCEPT ![o] = OneLess(@)]
           /\ GoOn("CON_SET", FALSE)
  <2>1. /\ o \in Obj /\ o \in alive /\ x \in Cell /\ x[1] = o /\ x[2] = i
        /\ o \notin Frame
    <3>1. o \in Obj /\ x \in Cell
      BY <1>1, <1>5, ContainerCell DEF Container
    <3>2. o \in alive
      BY <1>1, <1>2, <3>1 DEF Heap, NoDangling
    <3>3. QED
      BY <3>1, <3>2, MachineAssumption
  <2>2. ControlVarsOK'
    BY <1>1, <1>5, ControlTyped DEF ControlVarsOK
  <2>3. TypeOK'
    <3>1. /\ doomed' \subseteq Cell
          /\ store' \in [cell : Cell, val : Val, via : {"frame", "container", "modcall"}]
      BY <1>1, <1>2, <1>5, <2>1, BeginTyped
    <3>2. sub' \in [Obj -> Nat]
      <4>1. \A n \in Nat : OneLess(n) \in Nat
        BY DEF OneLess
      <4>2. QED
        BY <1>1, <1>5, <2>1, <4>1 DEF TypeOK
    <3>3. QED
      BY <1>1, <1>3, <2>2, <3>1, <3>2 DEF TypeOK, ControlVarsOK, objects
  <2>4. doomed' = IF atom[x] = Prim THEN {} ELSE {x}
    BY <1>5 DEF BeginStore
  <2>5. NoDangling' /\ NoWild' /\ RefExact' /\ RefsInside' /\ DeadHoldNothing'
    BY <1>1, <1>2, <1>3 DEF Heap, NoDangling, NoWild, RefExact, Refs, RefsInside,
       DeadHoldNothing, objects
  <2>6. SubExact'
    <3> SUFFICES ASSUME NEW p \in alive PROVE sub'[p] = Cardinality(Objects(p) \ doomed')
      BY <1>3 DEF SubExact, Objects, objects
    <3>1. p \in Obj /\ sub[p] = Cardinality(Objects(p)) /\ Objects(p) \in SUBSET Cell
      BY <1>1, <1>2 DEF TypeOK, Heap, SubExact, Objects
    <3>2. CASE p # o \/ atom[x] = Prim
      <4>1. Objects(p) \ doomed' = Objects(p)
        BY <2>1, <2>4, <3>2 DEF Objects
      <4>2. sub'[p] = sub[p]
        BY <1>1, <1>5, <3>1, <3>2 DEF TypeOK
      <4>3. QED
        BY <3>1, <4>1, <4>2
    <3>3. CASE p = o /\ atom[x] # Prim
      <4>1. x \in Objects(p) /\ Objects(p) \ doomed' = Objects(p) \ {x}
        BY <2>1, <2>4, <3>3 DEF Objects
      <4>2. Cardinality(Objects(p) \ {x}) = Cardinality(Objects(p)) - 1 /\ sub[p] > 0
        BY <3>1, <4>1, OneFewer
      <4>3. sub'[p] = OneLess(sub[p])
        BY <1>1, <1>5, <3>1, <3>3 DEF TypeOK
      <4>4. sub'[p] = sub[p] - 1
        BY <4>2, <4>3 DEF OneLess
      <4>5. QED
        BY <3>1, <4>1, <4>2, <4>4
    <3>4. QED
      BY <3>2, <3>3
  <2>7. AboveTopIsClear'
    BY <1>1, <1>2, <1>3 DEF Control, AboveTopIsClear
  <2>8. StoreHasTarget'
    <3>1. store'.cell = x /\ store'.via = "container"
      BY <1>5 DEF BeginStore
    <3>2. <<depth, c>> \in Cell \ doomed'
      BY <1>2, <2>1, <2>4
    <3>3. x \in doomed' \/ atom'[x] = Prim
      BY <1>3, <2>4
    <3>4. size'[x[1]] = size[o]
      BY <1>3, <2>1 DEF objects
    <3>5. /\ <<depth', c>> \in Cell \ doomed' /\ atom'[<<depth', c>>] = o
          /\ depth' > 0
      BY <1>1, <1>3, <3>2
    <3>6. QED
      BY <1>5, <2>1, <3>1, <3>3, <3>4, <3>5 DEF StoreHasTarget
  <2>9. QED
    BY <2>3, <2>5, <2>6, <2>7, <2>8 DEF Inv
<1>6. QED
  BY <1>4, <1>5 DEF ConSet

(* The cells of object o whose content, in a, is one of V.                 *)
Held(a, o, V) == {x \in Cell : x[1] = o /\ a[x] \in V}

(* The cells of one object and those of an equal one correspond.           *)
LEMMA EqualObjects ==
  ASSUME NEW o \in Obj, NEW p \in Obj, NEW a, NEW b, NEW V,
         \A i \in Index : b[<<p, i>>] = a[<<o, i>>]
  PROVE  Cardinality(Held(b, p, V)) = Cardinality(Held(a, o, V))
<1> DEFINE S == {x \in Cell : x[1] = p /\ b[x] \in V}
           T == {x \in Cell : x[1] = o /\ a[x] \in V}
           g == [x \in S |-> <<o, x[2]>>]
<1>1. \A x \in S : x[2] \in Index /\ x = <<p, x[2]>>
  BY CellShape
<1>2. \A x \in T : x[2] \in Index /\ x = <<o, x[2]>>
  BY CellShape
<1>3. \A i \in Index : <<o, i>> \in Cell /\ <<p, i>> \in Cell
  BY DEF Cell
<1>4. \A x \in S : <<o, x[2]>> \in T
  BY <1>1, <1>3
<1>5. g \in [S -> T]
  BY <1>4
<1>6. \A x, y \in S : g[x] = g[y] => x = y
  BY <1>1
<1>7. \A t \in T : \E x \in S : g[x] = t
  <2> SUFFICES ASSUME NEW t \in T PROVE \E x \in S : g[x] = t
    OBVIOUS
  <2>1. <<p, t[2]>> \in S /\ <<p, t[2]>>[2] = t[2]
    BY <1>2, <1>3
  <2>2. g[<<p, t[2]>>] = t
    BY <1>2, <2>1
  <2>3. QED
    BY <2>1, <2>2
<1>8. S \in SUBSET Cell /\ T \in SUBSET Cell
  OBVIOUS
<1> HIDE DEF g, S, T
<1>9. Cardinality(S) = Cardinality(T)
  BY <1>5, <1>6, <1>7, <1>8, SameNumber
<1>10. QED
  BY <1>9 DEF S, T, Held

(* concopy: the references of the original are taken once more.            *)
LEMMA ConCopyPreserves ==
  ASSUME Inv, "garbage" \notin Risks, NEW d \in Slot, NEW c \in Slot, ConCopy(d, c)
  PROVE  Inv'
<1> DEFINE o == atom[<<depth, c>>]
           counted == FirstObjects(o, sub[o])
           n == ByteSize(size[o])
<1>1. TypeOK /\ Heap /\ Control /\ ~Busy /\ depth > 0 /\ "CON_COPY" \in DOMAIN After
  BY InvParts DEF ConCopy, Container, In, At, After
<1>2. /\ doomed = {} /\ store = NoStore /\ ~popped /\ depth \in Frame
      /\ <<depth, c>> \in Cell /\ <<depth, d>> \in Cell
  BY <1>1, IdleFrame
<1>3. o \in Obj /\ o \in alive /\ o \notin Frame
  <2>1. o \in Obj /\ o \in alive
    BY <1>1 DEF ConCopy, Container, TypeOK
  <2>2. QED
    BY <2>1, MachineAssumption
<1>4. counted = Objects(o) /\ sub[o] = Cardinality(Objects(o)) /\ Objects(o) \in SUBSET Cell
  <2>1. sub[o] = Cardinality(Objects(o))
    BY <1>1, <1>2, <1>3 DEF Heap, SubExact
  <2>2. counted = Objects(o)
    BY <1>1, <2>1, FirstObjectsAreAll DEF TypeOK
  <2>3. QED
    BY <2>1, <2>2 DEF Objects
<1>5. CASE Fault
  BY <1>5, FaultPreserves
<1>6. ASSUME n <= MaxSize,
             NEW p \in Obj \ alive, NEW f \in Fresh(n),
             alive' = alive \cup {p},
             ref' = [q \in Obj |-> IF q = p THEN 0 ELSE ref[q] + RefsIn(counted, q)],
             size' = [size EXCEPT ![p] = n],
             atom' = [x \in Cell |-> IF x[1] = p THEN CopyOf(o, f)[x[2]] ELSE atom[x]],
             buffers' = buffers \ {p}, sub' = [sub EXCEPT ![p] = sub[o]],
             StoreSlot(d, p), GoOn("CON_COPY", FALSE), InFrame
      PROVE  Inv'
  <2>1. /\ f \in [Index -> {Prim}] /\ p \in Val /\ p # o /\ p \notin Frame
        /\ UNCHANGED <<depth, ret, popped, leak>>
    BY <1>3, <1>6, MachineAssumption DEF Fresh, Val, InFrame
  <2>2. size[o] \in Nat /\ n = size[o] + 1 /\ n \in 0 .. MaxSize
    <3>1. size[o] \in Nat
      BY <1>1, <1>3, MachineAssumption DEF TypeOK
    <3>2. n = size[o] + 1
      BY DEF ByteSize
    <3>3. QED
      BY <1>6, <3>1, <3>2, MachineAssumption
  <2>3. \A i \in Index : /\ <<o, i>> \in Cell /\ <<p, i>> \in Cell
                         /\ atom'[<<p, i>>] = atom[<<o, i>>]
                         /\ atom[<<o, i>>] # Prim => i < size[o]
    <3> SUFFICES ASSUME NEW i \in Index
                 PROVE  /\ <<o, i>> \in Cell /\ <<p, i>> \in Cell
                        /\ atom'[<<p, i>>] = atom[<<o, i>>]
                        /\ atom[<<o, i>>] # Prim => i < size[o]
      OBVIOUS
    <3>1. /\ <<o, i>> \in Cell /\ <<o, i>>[1] = o /\ <<o, i>>[2] = i
          /\ <<p, i>> \in Cell /\ <<p, i>>[1] = p /\ <<p, i>>[2] = i
      BY <1>3, <2>1 DEF Cell
    <3>2. atom[<<o, i>>] # Prim => i < size[o]
      BY <1>1, <1>3, <3>1 DEF Heap, RefsInside
    <3>3. atom'[<<p, i>>] = CopyOf(o, f)[i]
      BY <1>6, <3>1
    <3>4. atom'[<<p, i>>] = atom[<<o, i>>]
      BY <2>1, <3>2, <3>3 DEF CopyOf
    <3>5. QED
      BY <3>1, <3>2, <3>4
  <2>4. \A x \in Cell : /\ x[1] = p => x[2] \in Index /\ x = <<p, x[2]>> /\ atom[x] = Prim
                        /\ x[1] # p => atom'[x] = atom[x]
    BY <1>1, <1>2, <1>6, CellShape DEF Heap, DeadHoldNothing
  <2>5. \A x \in Cell : \E y \in Cell : atom'[x] = atom[y]
    BY <2>3, <2>4
  <2>6. atom' \in [Cell -> Val]
    BY <1>1, <1>6, <2>5 DEF TypeOK
  <2>7. /\ fields' \in [Frame -> Slot] /\ doomed' \subseteq Cell
        /\ store' \in [cell : Cell, val : Val, via : {"frame", "container", "modcall"}]
    BY <1>1, <1>6, <2>1, StoreSlotTyped
  <2>8. TypeOK'
    <3>1. ref' \in [Obj -> Nat]
      BY <1>1, <1>4, <1>6, RefsInNat DEF TypeOK
    <3>2. sub' \in [Obj -> Nat] /\ size' \in [Obj -> 0 .. MaxSize] /\ buffers' \subseteq Obj
      BY <1>1, <1>3, <1>6, <2>2 DEF TypeOK
    <3>3. ControlVarsOK'
      BY <1>1, <1>6, ControlTyped DEF ControlVarsOK
    <3>4. QED
      BY <1>1, <1>6, <2>1, <2>6, <2>7, <3>1, <3>2, <3>3 DEF TypeOK, ControlVarsOK
  <2>9. Control' /\ doomed' \subseteq Frame \X Slot
    <3>1. \A x \in Cell : x[1] \in Frame => atom'[x] = atom[x]
      BY <2>1, <2>4
    <3>2. BeginStore(<<depth, d>>, p, "frame")
      BY <1>6 DEF StoreSlot
    <3>3. QED
      BY <1>1, <2>1, <3>1, <3>2, StoreBegins
  <2>10. NoDangling' /\ NoWild'
    BY <1>1, <1>6, <2>5 DEF Heap, NoDangling, NoWild
  <2>11. \A x \in Cell : atom'[x] # p
    BY <1>1, <1>6, <2>5 DEF Heap, NoDangling
  <2>same. ASSUME NEW V
         PROVE  Cardinality({x \in Cell : x[1] = p /\ atom'[x] \in V})
                  = Cardinality({x \in Cell : x[1] = o /\ atom[x] \in V})
    <3> DEFINE b == atom'
    <3>0. \A i \in Index : b[<<p, i>>] = atom[<<o, i>>]
      BY <2>3
    <3>3. p \in Obj
      BY <1>6
    <3> HIDE DEF b
    <3>4. Cardinality(Held(b, p, V)) = Cardinality(Held(atom, o, V))
      BY <1>3, <3>0, <3>3, EqualObjects
    <3>5. QED
      BY <3>4 DEF b, Held
  <2>12. RefExact'
    <3> SUFFICES ASSUME NEW q \in alive \cup {p}
                 PROVE  ref'[q] = Cardinality({x \in Cell : atom'[x] = q}) + leak[q]
      BY <1>6, <2>1 DEF RefExact, Refs
    <3>1. CASE q = p
      <4>1. {x \in Cell : atom'[x] = q} = {} /\ leak[q] = 0
        BY <1>1, <1>6, <2>11, <3>1 DEF Heap, DeadHoldNothing
      <4>2. ref'[q] = 0
        BY <1>6, <3>1
      <4>3. QED
        BY <4>1, <4>2, FS_EmptySet
    <3>2. CASE q # p
      <4> DEFINE V == {q}
                 S == {x \in Cell : x[1] = p /\ atom'[x] \in V}
                 T == {x \in Cell : x[1] = o /\ atom[x] \in V}
      <4>1. /\ q \in Obj /\ q # Prim /\ ref[q] = Cardinality(Refs(q)) + leak[q]
            /\ leak[q] \in Nat /\ Refs(q) \in SUBSET Cell
        BY <1>1, <3>2, MachineAssumption DEF TypeOK, Heap, RefExact, Refs
      <4>2. T = {x \in counted : atom[x] = q}
        BY <1>4, <4>1 DEF Objects
      <4>3. ref'[q] = ref[q] + Cardinality(T)
        BY <1>6, <3>2, <4>1, <4>2 DEF RefsIn
      <4>4. Cardinality(S) = Cardinality(T)
        <5> HIDE DEF V
        <5>1. QED
          BY <2>same
      <4>5. S \in SUBSET Cell /\ T \in SUBSET Cell /\ S \cap Refs(q) = {}
        BY <2>4, <4>1 DEF Refs
      <4>6. {x \in Cell : atom'[x] = q} = Refs(q) \cup S
        BY <2>4, <4>1 DEF Refs
      <4>7. Cardinality(Refs(q) \cup S) = Cardinality(Refs(q)) + Cardinality(S)
        BY <4>1, <4>5, TwoParts
      <4>8. Cardinality(Refs(q)) \in Nat /\ Cardinality(T) \in Nat
        BY <4>1, <4>5, CellsAreFinite
      <4>9. ref[q] + Cardinality(T) = Cardinality(Refs(q)) + Cardinality(T) + leak[q]
        BY <4>1, <4>8
      <4>10. QED
        BY <4>3, <4>4, <4>6, <4>7, <4>9
    <3>3. QED
      BY <3>1, <3>2
  <2>13. SubExact'
    <3> SUFFICES ASSUME NEW q \in alive \cup {p}
                 PROVE  sub'[q] = Cardinality({x \in Cell : x[1] = q /\ atom'[x] # Prim})
      <4>1. ASSUME NEW q \in alive \cup {p}
            PROVE  {x \in Cell : x[1] = q /\ atom'[x] # Prim} \ doomed'
                     = {x \in Cell : x[1] = q /\ atom'[x] # Prim}
        <5>1. q \notin Frame
          BY <1>1, <2>1, <4>1, MachineAssumption DEF TypeOK
        <5>2. QED
          BY <2>9, <5>1
      <4>2. QED
        BY <1>6, <4>1 DEF SubExact, Objects
    <3>1. CASE q = p
      <4> DEFINE V == Val \ {Prim}
      <4>1. {x \in Cell : x[1] = p /\ atom'[x] # Prim} = {x \in Cell : x[1] = p /\ atom'[x] \in V}
        BY <2>6
      <4>2. Objects(o) = {x \in Cell : x[1] = o /\ atom[x] \in V}
        BY <1>1 DEF Objects, TypeOK
      <4>3. Cardinality({x \in Cell : x[1] = p /\ atom'[x] \in V})
              = Cardinality({x \in Cell : x[1] = o /\ atom[x] \in V})
        <5> HIDE DEF V
        <5>1. QED
          BY <2>same
      <4>4. sub'[p] = sub[o]
        BY <1>1, <1>6 DEF TypeOK
      <4>5. QED
        BY <1>4, <3>1, <4>1, <4>2, <4>3, <4>4
    <3>2. CASE q # p
      <4>1. {x \in Cell : x[1] = q /\ atom'[x] # Prim} = Objects(q) \ doomed
        BY <1>2, <2>4, <3>2 DEF Objects
      <4>2. sub'[q] = sub[q]
        BY <1>1, <1>6, <3>2 DEF TypeOK
      <4>3. QED
        BY <1>1, <3>2, <4>1, <4>2 DEF Heap, SubExact
    <3>3. QED
      BY <3>1, <3>2
  <2>14. RefsInside'
    <3> SUFFICES ASSUME NEW x \in Cell, x[1] \in alive \cup {p}, atom'[x] # Prim
                 PROVE  x[2] < size'[x[1]]
      BY <1>6 DEF RefsInside
    <3>1. CASE x[1] = p
      <4>1. x[2] \in Index /\ x = <<p, x[2]>>
        BY <2>4, <3>1
      <4>2. x[2] < size[o] /\ x[2] \in Nat
        <5>1. atom'[<<p, x[2]>>] # Prim
          BY <4>1
        <5>2. x[2] < size[o]
          BY <2>3, <4>1, <5>1
        <5>3. QED
          BY <4>1, <5>2, MachineAssumption DEF Index
      <4>3. size'[p] = size[o] + 1
        BY <1>1, <1>6, <2>2 DEF TypeOK
      <4>4. QED
        BY <2>2, <3>1, <4>2, <4>3
    <3>2. CASE x[1] # p
      <4>1. size'[x[1]] = size[x[1]]
        BY <1>1, <1>6, <3>2 DEF TypeOK
      <4>2. QED
        BY <1>1, <2>4, <3>2, <4>1 DEF Heap, RefsInside
    <3>3. QED
      BY <3>1, <3>2
  <2>15. DeadHoldNothing'
    <3>1. \A x \in Cell : x[1] \in Obj \ (alive \cup {p}) => atom'[x] = Prim
      BY <1>1, <1>2, <2>4 DEF Heap, DeadHoldNothing
    <3>2. \A q \in Obj \ (alive \cup {p}) : leak[q] = 0
      BY <1>1 DEF Heap, DeadHoldNothing
    <3>3. QED
      BY <1>6, <2>1, <3>1, <3>2 DEF DeadHoldNothing
  <2>16. QED
    BY <2>8, <2>9, <2>10, <2>12, <2>13, <2>14, <2>15 DEF Inv, Control
<1>7. QED
  BY <1>5, <1>6 DEF ConCopy

-----------------------------------------------------------------------------
(* The whole machine                                                       *)

(* Handlers that only raise an error, stop the run or go wrong.            *)
LEMMA OnlyControlPreserves ==
  ASSUME Inv
  PROVE  /\ CallFails => Inv'
         /\ ModCallFails => Inv'
         /\ \A n, a : CallFaults(n, a) => Inv'
         /\ \A h, c : TypeError(h, c) \/ Confusion(h, c) => Inv'
         /\ Halt \/ FailedJump \/ FailedCast \/ Illegal => Inv'
         /\ ModCallFaults \/ NullFrame => Inv'
<1>1. "CALL" \in DOMAIN After /\ "MOD_CALL" \in DOMAIN After
  BY DEF After
<1>2. CallFails => Inv'
  BY <1>1, GoOnPreserves DEF CallFails
<1>3. ModCallFails => Inv'
  BY <1>1, GoOnPreserves DEF ModCallFails
<1>4. \A n, a : CallFaults(n, a) => Inv'
  BY FaultPreserves DEF CallFaults
<1>5. \A h, c : TypeError(h, c) \/ Confusion(h, c) => Inv'
  BY FaultPreserves, StopPreserves DEF TypeError, Confusion
<1>6. Halt \/ FailedJump \/ FailedCast \/ Illegal => Inv'
  BY StopPreserves DEF Halt, FailedJump, FailedCast, Illegal
<1>7. ModCallFaults \/ NullFrame => Inv'
  BY FaultPreserves DEF ModCallFaults, NullFrame
<1>8. QED
  BY <1>2, <1>3, <1>4, <1>5, <1>6, <1>7

(* return and returnval.                                                   *)
LEMMA ReturnPreserves ==
  ASSUME Inv
  PROVE  (Return => Inv') /\ \A s \in Slot : ReturnVal(s) => Inv'
<1>1. "RETURN" \in DOMAIN After /\ "RETURN_VAL" \in DOMAIN After /\ Prim \in Val /\ TypeOK
  BY DEF After, Val, Inv
<1>2. Return => Inv'
  BY <1>1, ReturnValuePreserves DEF Return, At
<1>3. ASSUME NEW s \in Slot, ReturnVal(s) PROVE Inv'
  <2>1. ~Busy /\ depth > 0 /\ ReturnValue("RETURN_VAL", atom[<<depth, s>>])
    BY <1>3 DEF ReturnVal, In, At
  <2>2. atom[<<depth, s>>] \in Val
    BY <1>1, <2>1, IdleFrame
  <2>3. QED
    BY <1>1, <2>1, <2>2, ReturnValuePreserves
<1>4. QED
  BY <1>2, <1>3

(* The machine starts with one empty frame and no object.                  *)
LEMMA InitInv == Init => Inv
<1> SUFFICES ASSUME Init PROVE Inv
  OBVIOUS
<1>1. MaxDepth \in Nat /\ MaxDepth >= 1 /\ 0 \in Slot /\ Prim \in Val
  BY MachineAssumption, CounterStaysInRange DEF Val
<1>2. TypeOK
  <2>1. 1 \in 0 .. MaxDepth /\ 0 \in 0 .. MaxSize
    BY <1>1, MachineAssumption
  <2>2. /\ fields \in [Frame -> Slot] /\ ret \in [Frame -> Slot] /\ atom \in [Cell -> Val]
        /\ ref \in [Obj -> Nat] /\ sub \in [Obj -> Nat] /\ leak \in [Obj -> Nat]
        /\ size \in [Obj -> 0 .. MaxSize]
    BY <1>1, <2>1 DEF Init
  <2>3. QED
    BY <2>1, <2>2 DEF Init, TypeOK
<1>3. NoDangling /\ RefExact /\ SubExact /\ NoWild /\ RefsInside /\ DeadHoldNothing
  BY MachineAssumption DEF Init, NoDangling, RefExact, SubExact, NoWild, RefsInside,
     DeadHoldNothing
<1>4. AboveTopIsClear /\ StoreHasTarget
  BY DEF Init, AboveTopIsClear, StoreHasTarget
<1>5. QED
  BY <1>2, <1>3, <1>4 DEF Inv

(* Every step preserves the invariant, where malloc returns zeroed types.  *)
LEMMA NextInv ==
  ASSUME "garbage" \notin Risks, Inv, [Next]_vars
  PROVE  Inv'
<1>1. CASE Continue
  BY <1>1, FinishStorePreserves, ReleaseFramePreserves, DropRefPreserves DEF Continue
<1>2. CASE Calls
  BY <1>2, CallPreserves, OnlyControlPreserves, ReturnPreserves DEF Calls
<1>3. CASE Containers
  BY <1>3, ConNewPreserves, ConNewFailsPreserves, OnlyControlPreserves, ConGetPreserves,
     ConSetPreserves, ConSizePreserves, ConCopyPreserves DEF Containers
<1>4. CASE ModCalls
  BY <1>4, OnlyControlPreserves, ModCallOrphanPreserves, ModCallPrimPreserves,
     ModCallBufferPreserves DEF ModCalls
<1>5. CASE Others
  BY <1>5, OnlyControlPreserves, StorePrimPreserves, MovPreserves DEF Others
<1>6. CASE UNCHANGED vars
  <2>1. ControlVarsOK'
    BY <1>6 DEF Inv, TypeOK, ControlVarsOK, vars
  <2>2. QED
    BY <1>6, <2>1, NothingElseChanges DEF vars, counters, objects
<1>7. QED
  BY <1>1, <1>2, <1>3, <1>4, <1>5, <1>6 DEF Next

(* The invariant holds of every run in which malloc returns memory whose   *)
(* type bytes are zero, whatever the program does and whenever memory runs *)
(* out, up to a step that is undefined behaviour.                          *)
THEOREM InvHolds == "garbage" \notin Risks /\ Spec => []Inv
<1>1. ASSUME "garbage" \notin Risks PROVE Spec => []Inv
  <2>1. Init => Inv
    BY InitInv
  <2>2. Inv /\ [Next]_vars => Inv'
    BY <1>1, NextInv
  <2>3. QED
    BY <2>1, <2>2, PTL DEF Spec
<1>2. QED
  BY <1>1

(* The counters of the runtime stay in the ranges of their C types, and no *)
(* step writes a cell that does not exist.                                 *)
THEOREM TypeCorrect == "garbage" \notin Risks /\ Spec => []TypeOK
<1>1. Inv => TypeOK
  BY DEF Inv
<1>2. QED
  BY <1>1, InvHolds, PTL

(* ct_objects_dec_ref frees an object only when no slot of any frame and   *)
(* no cell of any container refers to it any more.                         *)
THEOREM NothingDangles == "garbage" \notin Risks /\ Spec => []NoDangling
<1>1. Inv => NoDangling
  BY DEF Inv
<1>2. QED
  BY <1>1, InvHolds, PTL

(* ref_count is the number of cells that hold the object, plus those that  *)
(* were forgotten.                                                         *)
THEOREM RefCountsAreExact == "garbage" \notin Risks /\ Spec => []RefExact
<1>1. Inv => RefExact
  BY DEF Inv
<1>2. QED
  BY <1>1, InvHolds, PTL

(* sub_objects is the number of references that a container holds, so its  *)
(* deleter gives back all of them and stops before its last cell.          *)
THEOREM SubCountsAreExact == "garbage" \notin Risks /\ Spec => []SubExact
<1>1. Inv => SubExact
  BY DEF Inv
<1>2. QED
  BY <1>1, InvHolds, PTL

-----------------------------------------------------------------------------
(* The kinds of steps                                                      *)

(* Value v is held outside the cells C: by a slot of a frame, or by a cell  *)
(* of a container that a slot of a frame outside C holds.                  *)
HeldOutside(v, C) ==
  \E x \in Cell \ C :
    /\ atom[x] = v
    /\ \/ x[1] \in Frame
       \/ \E y \in Cell \ C : y[1] \in Frame /\ atom[y] = x[1]

(* No object is freed, v at most is made, and no cell but those of a new    *)
(* object changes.                                                         *)
Grows(v) ==
  /\ alive \subseteq alive' /\ alive' \subseteq alive \cup {v}
  /\ \A o \in alive : ref'[o] >= ref[o]
  /\ \A x \in Cell : x[1] \notin Obj \ alive => atom'[x] = atom[x]

(* Giving up the reference in c cannot free v.                              *)
Survives(v, c) ==
  \/ v = Prim
  \/ v \in alive' \ alive /\ ref'[v] = 0
  \/ HeldOutside(v, {c})
  \/ err'
  \/ {"movself", "getself"} \cap Risks # {}

(* A handler begins to overwrite cell c by v.                               *)
Begins(c, v, via) ==
  /\ status = "running" /\ status' = "running"
  /\ ~Busy /\ BeginStore(c, v, via)
  /\ via = "container" => c[1] \in alive
  /\ via # "container" => c[1] \in Frame
  /\ via = "modcall" => "modcall" \in Risks
  /\ fields' = IF via = "frame" /\ atom[c] # Prim
               THEN [fields EXCEPT ![c[1]] = Minus(@)] ELSE fields
  /\ leak' = leak
  /\ Grows(v) /\ Survives(v, c)

(* Nothing happens that the properties below are about.                     *)
Quiet ==
  /\ UNCHANGED <<fields, atom, alive, ref, doomed, store, popped, leak>>
  /\ status' = "running" => status = "running"

(* What a step does, by its kind.                                           *)
Via == {"frame", "container", "modcall"}
Kinds ==
  \/ Quiet
  \/ \E c \in Cell, v \in Val, via \in Via : Begins(c, v, via)
  \/ \E n \in ArgCounts, a \in Slot, r \in Slot : Call(n, a, r)
  \/ ModCallOrphan
  \/ FinishStore /\ status' = "running"
  \/ \E c \in doomed : DropRef(c) /\ status' = "running"
  \/ ReleaseFrame

(* A handler that stops, faults or only raises an error.                    *)
LEMMA QuietSteps ==
  /\ Fault => Quiet
  /\ \A e : Stop(e) => Quiet
  /\ \A h, e : /\ GoOn(h, e)
               /\ UNCHANGED <<ret, atom, ref, doomed, store, popped, leak, counters, objects>>
               => Quiet
<1>1. Fault => Quiet
  BY DEF Fault, Quiet, counters, objects
<1>2. \A e : Stop(e) => Quiet
  BY DEF Stop, Quiet, counters, objects
<1>3. \A h, e : /\ GoOn(h, e)
                /\ UNCHANGED <<ret, atom, ref, doomed, store, popped, leak, counters, objects>>
                => Quiet
  BY DEF GoOn, Quiet, counters, objects
<1>4. QED
  BY <1>1, <1>2, <1>3

(* An error, once raised, stays raised.                                     *)
LEMMA ErrorStays ==
  ASSUME [Next]_vars
  PROVE  err => err'
<1>1. /\ Fault => err' = err
      /\ \A e : Stop(e) => err' = (err \/ e)
      /\ \A h, e : GoOn(h, e) => err' = (err \/ e)
      /\ UNCHANGED control => err' = err
  BY DEF Fault, Stop, GoOn, control
<1>2. CASE Continue
  BY <1>1, <1>2 DEF Continue, FinishStore, ReleaseFrame, DropRef
<1>3. CASE Calls
  BY <1>1, <1>3 DEF Calls, Call, CallFaults, CallFails, Return, ReturnVal, ReturnValue
<1>4. CASE Containers
  BY <1>1, <1>4 DEF Containers, ConNew, ConNewFails, TypeError, Confusion, ConGet, ConSet,
     ConSize, ConCopy
<1>5. CASE ModCalls
  BY <1>1, <1>5 DEF ModCalls, ModCallFails, ModCallOrphan, ModCallFaults, ModCallPrim,
     ModCallBuffer
<1>6. CASE Others
  BY <1>1, <1>6 DEF Others, StorePrim, Mov, Halt, FailedJump, FailedCast, Illegal, NullFrame,
     GoOnPlain
<1>7. CASE UNCHANGED vars
  BY <1>7 DEF vars
<1>8. QED
  BY <1>2, <1>3, <1>4, <1>5, <1>6, <1>7 DEF Next

(* A store into a slot of the current frame, counted in the frame.          *)
LEMMA SlotBegins ==
  ASSUME Inv, status = "running", status' = "running", ~Busy, depth > 0, leak' = leak,
         NEW s \in Slot, NEW v \in Val, StoreSlot(s, v),
         Grows(v), Survives(v, <<depth, s>>)
  PROVE  Begins(<<depth, s>>, v, "frame") /\ <<depth, s>> \in Cell
<1>1. TypeOK
  BY DEF Inv
<1>2. depth \in Frame /\ <<depth, s>> \in Cell /\ <<depth, s>>[1] = depth
  BY <1>1, IdleFrame
<1>3. /\ BeginStore(<<depth, s>>, v, "frame")
      /\ fields' = IF atom[<<depth, s>>] # Prim
                   THEN [fields EXCEPT ![<<depth, s>>[1]] = Minus(@)] ELSE fields
  BY <1>2 DEF StoreSlot
<1>4. QED
  BY <1>2, <1>3 DEF Begins

(* A store of v into a slot, where nothing else changes.                    *)
LEMMA OldSlotBegins ==
  ASSUME Inv, NEW h, In(h), status' = status, InFrame, UNCHANGED <<atom, ref, sub, objects>>,
         NEW s \in Slot, NEW v \in Val, StoreSlot(s, v), Survives(v, <<depth, s>>)
  PROVE  Kinds
<1>1. Grows(v)
  <2>1. \A o \in alive : ref'[o] >= ref[o]
    BY DEF Inv, TypeOK
  <2>2. QED
    BY <2>1 DEF Grows, objects
<1>2. status = "running" /\ ~Busy /\ depth > 0 /\ leak' = leak
  BY DEF In, At, InFrame
<1>3. Begins(<<depth, s>>, v, "frame") /\ <<depth, s>> \in Cell
  BY <1>1, <1>2, SlotBegins
<1>4. QED
  BY <1>3 DEF Kinds, Via

(* A store of a fresh object into a slot.                                   *)
LEMMA FreshSlotBegins ==
  ASSUME Inv, NEW h, In(h), status' = status, UNCHANGED <<depth, leak>>,
         NEW o \in Obj \ alive, alive' = alive \cup {o}, ref'[o] = 0,
         \A p \in alive : ref'[p] >= ref[p],
         \A x \in Cell : x[1] # o => atom'[x] = atom[x],
         NEW s \in Slot, NEW via \in {"frame", "modcall"}, via = "modcall" => "modcall" \in Risks,
         BeginStore(<<depth, s>>, o, via),
         fields' = IF via = "frame" /\ atom[<<depth, s>>] # Prim
                   THEN [fields EXCEPT ![depth] = Minus(@)] ELSE fields
  PROVE  Kinds
<1>1. TypeOK /\ status = "running" /\ ~Busy /\ depth > 0 /\ o \in Val /\ via \in Via
  BY DEF Inv, In, At, Val, Via
<1>2. <<depth, s>> \in Cell /\ <<depth, s>>[1] = depth /\ depth \in Frame
  BY <1>1, IdleFrame
<1>3. Grows(o)
  BY DEF Grows
<1>4. Survives(o, <<depth, s>>)
  BY DEF Survives
<1>5. Begins(<<depth, s>>, o, via)
  BY <1>1, <1>2, <1>3, <1>4 DEF Begins
<1>6. QED
  BY <1>1, <1>2, <1>5 DEF Kinds

(* Any handler that stores a primitive into a slot.                         *)
LEMMA PrimKinds ==
  ASSUME Inv
  PROVE  /\ \A d \in Slot : StorePrim(d) => Kinds
         /\ \A d, c \in Slot : ConSize(d, c) => Kinds
<1>1. Prim \in Val /\ \A c : Survives(Prim, c)
  BY DEF Val, Survives
<1>2. ASSUME NEW d \in Slot, StorePrim(d) PROVE Kinds
  <2>1. In("PRIM") /\ status' = status
    BY <1>2 DEF StorePrim, GoOnPlain, control
  <2>2. QED
    BY <1>1, <1>2, <2>1, OldSlotBegins DEF StorePrim
<1>3. ASSUME NEW d \in Slot, NEW c \in Slot, ConSize(d, c) PROVE Kinds
  <2>1. In("CON_SIZE") /\ status' = status
    BY <1>3 DEF ConSize, GoOn
  <2>2. QED
    BY <1>1, <1>3, <2>1, OldSlotBegins DEF ConSize
<1>4. QED
  BY <1>2, <1>3

(* mov: the slot that is read still holds the value.                        *)
LEMMA MovKinds ==
  ASSUME Inv, NEW d \in Slot, NEW s \in Slot, Mov(d, s)
  PROVE  Kinds
<1> DEFINE v == atom[<<depth, s>>]
<1>1. TypeOK /\ ~Busy /\ depth > 0 /\ In("MOV") /\ status' = status
  BY DEF Mov, In, At, Inv, GoOnPlain, control
<1>2. /\ depth \in Frame /\ <<depth, s>> \in Cell /\ <<depth, s>>[1] = depth /\ v \in Val
      /\ <<depth, s>>[2] = s /\ <<depth, d>>[2] = d
  BY <1>1, IdleFrame
<1>3. Survives(v, <<depth, d>>)
  <2>1. CASE d = s
    BY <2>1 DEF Mov, Survives
  <2>2. CASE d # s
    <3>1. <<depth, s>> \in Cell \ {<<depth, d>>}
      BY <1>2, <2>2
    <3>2. HeldOutside(v, {<<depth, d>>})
      BY <1>2, <3>1 DEF HeldOutside
    <3>3. QED
      BY <3>2 DEF Survives
  <2>3. QED
    BY <2>1, <2>2
<1>4. QED
  BY <1>1, <1>2, <1>3, OldSlotBegins DEF Mov

(* connew and concopy without memory.                                       *)
LEMMA ConNewFailsKinds ==
  ASSUME Inv, NEW d \in Slot, NEW h \in {"CON_NEW", "CON_COPY"}, ConNewFails(h, d)
  PROVE  Kinds
<1>1. In(h) /\ err' /\ status' = status /\ Wild \in Val
  BY DEF ConNewFails, GoOn, Val
<1>2. \A c : Survives(Wild, c)
  BY <1>1 DEF Survives
<1>3. QED
  BY <1>1, <1>2, OldSlotBegins DEF ConNewFails

(* conget: the container's slot and the cell that is read hold the value.   *)
LEMMA ConGetKinds ==
  ASSUME Inv, NEW d \in Slot, NEW c \in Slot, NEW i \in 0 .. MaxSize, ConGet(d, c, i)
  PROVE  Kinds
<1> DEFINE o == atom[<<depth, c>>]
<1>1. TypeOK /\ ~Busy /\ depth > 0 /\ In("CON_GET") /\ Container("CON_GET", c)
  BY DEF ConGet, Container, In, At, Inv
<1>2. InFrame /\ UNCHANGED <<atom, ref, sub, objects>>
  BY DEF ConGet
<1>3. /\ depth \in Frame /\ <<depth, c>> \in Cell /\ <<depth, c>>[1] = depth
      /\ <<depth, c>>[2] = c /\ <<depth, d>>[2] = d /\ <<depth, d>>[1] = depth
  BY <1>1, IdleFrame
<1>4. CASE i >= size[o] /\ StoreSlot(d, Prim) /\ GoOn("CON_GET", TRUE)
  <2>1. status' = status /\ Prim \in Val /\ Survives(Prim, <<depth, d>>)
    BY <1>4 DEF GoOn, Val, Survives
  <2>2. QED
    BY <1>1, <1>2, <1>4, <2>1, OldSlotBegins
<1>5. CASE i < size[o] /\ StoreSlot(d, atom[<<o, i>>]) /\ GoOn("CON_GET", FALSE)
  <2>1. status' = status /\ err' = err /\ i \in Nat
    BY <1>5, MachineAssumption DEF GoOn, Inv, TypeOK
  <2>2. o \in Obj /\ <<o, i>> \in Cell /\ atom[<<o, i>>] \in Val /\ o \notin Frame
    BY <1>1, <1>5, <2>1, ContainerCell, MachineAssumption
  <2>3. Survives(atom[<<o, i>>], <<depth, d>>)
    <3>1. CASE d = c
      BY <2>1, <3>1 DEF ConGet, Survives
    <3>2. CASE d # c
      <4>1. <<depth, c>> \in Cell \ {<<depth, d>>} /\ <<o, i>> \in Cell \ {<<depth, d>>}
        BY <1>3, <2>2, <3>2
      <4>2. <<o, i>>[1] = o
        OBVIOUS
      <4>3. HeldOutside(atom[<<o, i>>], {<<depth, d>>})
        BY <1>3, <4>1, <4>2 DEF HeldOutside
      <4>4. QED
        BY <4>3 DEF Survives
    <3>3. QED
      BY <3>1, <3>2
  <2>4. QED
    BY <1>1, <1>2, <1>5, <2>1, <2>2, <2>3, OldSlotBegins
<1>6. QED
  BY <1>4, <1>5 DEF ConGet

(* conset: the slot that is read holds the value.                           *)
LEMMA ConSetKinds ==
  ASSUME Inv, NEW c \in Slot, NEW i \in 0 .. MaxSize, NEW s \in Slot, ConSet(c, i, s)
  PROVE  Kinds
<1> DEFINE o == atom[<<depth, c>>]
           x == <<o, i>>
           v == atom[<<depth, s>>]
<1>1. TypeOK /\ NoDangling /\ status = "running" /\ ~Busy /\ depth > 0 /\ i \in Nat
      /\ Container("CON_SET", c)
  BY MachineAssumption DEF ConSet, Container, In, At, Inv
<1>2. depth \in Frame /\ <<depth, c>> \in Cell /\ <<depth, s>> \in Cell /\ v \in Val
  BY <1>1, IdleFrame
<1>3. UNCHANGED <<depth, ret, popped, leak, atom, ref, fields, alive, buffers, size>>
  BY DEF ConSet, InFrame, objects
<1>4. CASE i >= size[o] /\ GoOn("CON_SET", TRUE) /\ UNCHANGED <<doomed, store, sub>>
  BY <1>3, <1>4 DEF Kinds, Quiet, GoOn
<1>5. CASE /\ i < size[o]
           /\ BeginStore(x, v, "container")
           /\ GoOn("CON_SET", FALSE)
  <2>1. o \in Obj /\ x \in Cell /\ x[1] = o
    BY <1>1, <1>5, ContainerCell DEF Container
  <2>2. o \in alive /\ o \notin Frame
    BY <1>1, <1>2, <2>1, MachineAssumption DEF NoDangling
  <2>3. <<depth, s>> \in Cell \ {x} /\ <<depth, s>>[1] = depth
    BY <1>2, <2>1, <2>2
  <2>4. HeldOutside(v, {x})
    BY <1>2, <2>3 DEF HeldOutside
  <2>5. Grows(v)
    <3>1. \A p \in alive : ref'[p] >= ref[p]
      BY <1>1, <1>3 DEF TypeOK
    <3>2. QED
      BY <1>3, <3>1 DEF Grows
  <2>6. Begins(x, v, "container")
    BY <1>1, <1>3, <1>5, <2>1, <2>2, <2>4, <2>5 DEF Begins, Survives, GoOn
  <2>7. QED
    BY <1>2, <2>1, <2>6 DEF Kinds, Via
<1>6. QED
  BY <1>4, <1>5 DEF ConSet

(* connew: the container is new.                                            *)
LEMMA ConNewKinds ==
  ASSUME Inv, NEW d \in Slot, NEW n \in 0 .. MaxSize, ConNew(d, n)
  PROVE  Kinds
<1>1. In("CON_NEW") /\ status' = status /\ UNCHANGED <<depth, leak>>
  BY DEF ConNew, GoOn, InFrame
<1>2. PICK o \in Obj, f \in Fresh(n) : Allocate(o, n, f) /\ StoreSlot(d, o)
  BY DEF ConNew
<1>3. o \in Obj \ alive /\ alive' = alive \cup {o} /\ ref' = [ref EXCEPT ![o] = 0]
  BY <1>2 DEF Allocate
<1>4. ref \in [Obj -> Nat] /\ alive \subseteq Obj
  BY DEF Inv, TypeOK
<1>5. ref'[o] = 0 /\ \A p \in alive : ref'[p] >= ref[p]
  BY <1>3, <1>4
<1>6. \A x \in Cell : x[1] # o => atom'[x] = atom[x]
  BY <1>2 DEF Allocate
<1>7. /\ BeginStore(<<depth, d>>, o, "frame")
      /\ fields' = IF "frame" = "frame" /\ atom[<<depth, d>>] # Prim
                   THEN [fields EXCEPT ![depth] = Minus(@)] ELSE fields
  BY <1>2 DEF StoreSlot
<1>8. QED
  BY <1>1, <1>3, <1>5, <1>6, <1>7, FreshSlotBegins

(* concopy: the container is new, and every count of the old ones only      *)
(* grows.                                                                   *)
LEMMA ConCopyKinds ==
  ASSUME Inv, NEW d \in Slot, NEW c \in Slot, ConCopy(d, c)
  PROVE  Kinds
<1> DEFINE o == atom[<<depth, c>>]
           counted == FirstObjects(o, sub[o])
<1>1. CASE Fault
  BY <1>1, QuietSteps DEF Kinds
<1>2. ASSUME NEW p \in Obj \ alive,
             alive' = alive \cup {p},
             ref' = [q \in Obj |-> IF q = p THEN 0 ELSE ref[q] + RefsIn(counted, q)],
             \A x \in Cell : x[1] # p => atom'[x] = atom[x],
             StoreSlot(d, p), GoOn("CON_COPY", FALSE), InFrame
      PROVE  Kinds
  <2>1. In("CON_COPY") /\ status' = status /\ UNCHANGED <<depth, leak>>
    BY <1>2 DEF ConCopy, Container, GoOn, InFrame
  <2>2. ref \in [Obj -> Nat] /\ alive \subseteq Obj /\ counted \in SUBSET Cell
    BY DEF Inv, TypeOK, FirstObjects, Objects
  <2>3. ref'[p] = 0 /\ \A q \in alive : ref'[q] >= ref[q]
    <3>1. ref'[p] = 0
      BY <1>2
    <3>2. ASSUME NEW q \in alive PROVE ref'[q] >= ref[q]
      <4>1. ref'[q] = ref[q] + RefsIn(counted, q) /\ ref[q] \in Nat
        BY <1>2, <2>2
      <4>2. RefsIn(counted, q) \in Nat
        BY <2>2, RefsInNat
      <4>3. QED
        BY <4>1, <4>2
    <3>3. QED
      BY <3>1, <3>2
  <2>4. /\ BeginStore(<<depth, d>>, p, "frame")
        /\ fields' = IF "frame" = "frame" /\ atom[<<depth, d>>] # Prim
                     THEN [fields EXCEPT ![depth] = Minus(@)] ELSE fields
    BY <1>2 DEF StoreSlot
  <2>5. QED
    BY <1>2, <2>1, <2>3, <2>4, FreshSlotBegins
<1>3. QED
  BY <1>1, <1>2 DEF ConCopy

(* A module call: the result is a primitive or a new buffer.                *)
LEMMA ModCallKinds ==
  ASSUME Inv, NEW r \in Slot
  PROVE  /\ ModCallPrim(r) => Kinds
         /\ ModCallBuffer(r) => Kinds
<1>1. TypeOK
  BY DEF Inv
<1>2. ASSUME ModCallPrim(r) PROVE Kinds
  <2>1. /\ status = "running" /\ status' = "running" /\ ~Busy /\ depth > 0
        /\ leak' = leak /\ fields' = fields /\ "modcall" \in Risks
        /\ UNCHANGED <<alive, atom, ref>>
        /\ BeginStore(<<depth, r>>, Prim, "modcall")
    BY <1>2 DEF ModCallPrim, In, At, GoOn, InFrame, counters, objects
  <2>2. <<depth, r>> \in Cell /\ <<depth, r>>[1] = depth /\ depth \in Frame
    BY <1>1, <2>1, IdleFrame
  <2>3. Grows(Prim)
    <3>1. \A o \in alive : ref'[o] >= ref[o]
      BY <1>1, <2>1 DEF TypeOK
    <3>2. QED
      BY <2>1, <3>1 DEF Grows
  <2>4. Begins(<<depth, r>>, Prim, "modcall")
    BY <2>1, <2>2, <2>3 DEF Begins, Survives
  <2>5. QED
    BY <2>2, <2>4 DEF Kinds, Via, Val
<1>3. ASSUME ModCallBuffer(r) PROVE Kinds
  <2>1. /\ In("MOD_CALL") /\ status' = status /\ UNCHANGED <<depth, leak>>
        /\ "modcall" \in Risks /\ fields' = fields
    BY <1>3 DEF ModCallBuffer, GoOn, InFrame
  <2>2. PICK o \in Obj : /\ Allocate(o, 0, [i \in Index |-> Prim])
                         /\ BeginStore(<<depth, r>>, o, "modcall")
    BY <1>3 DEF ModCallBuffer
  <2>3. o \in Obj \ alive /\ alive' = alive \cup {o} /\ ref' = [ref EXCEPT ![o] = 0]
    BY <2>2 DEF Allocate
  <2>4. ref'[o] = 0 /\ \A p \in alive : ref'[p] >= ref[p]
    BY <1>1, <2>3 DEF TypeOK
  <2>5. \A x \in Cell : x[1] # o => atom'[x] = atom[x]
    BY <2>2 DEF Allocate
  <2>6. fields' = IF "modcall" = "frame" /\ atom[<<depth, r>>] # Prim
                  THEN [fields EXCEPT ![depth] = Minus(@)] ELSE fields
    BY <2>1
  <2>7. QED
    BY <2>1, <2>2, <2>3, <2>4, <2>5, <2>6, FreshSlotBegins
<1>4. QED
  BY <1>2, <1>3

(* A return: the frame that is popped holds the result until it is stored.  *)
LEMMA ReturnValueKinds ==
  ASSUME Inv, status = "running", ~Busy, NEW h, NEW v, ReturnValue(h, v),
         depth > 0 => v \in Val,
         v = Prim \/ \E s \in Slot : v = atom[<<depth, s>>]
  PROVE  Kinds
<1>1. CASE GoOn(h, FALSE) /\ UNCHANGED <<ret, atom, ref, doomed, store, popped, leak, counters, objects>>
  BY <1>1, QuietSteps DEF Kinds
<1>2. CASE /\ depth > 1
           /\ depth' = depth - 1 /\ popped' = TRUE
           /\ BeginStore(<<depth - 1, ret[depth]>>, v, "frame")
           /\ fields' = IF atom[<<depth - 1, ret[depth]>>] = Prim THEN fields
                        ELSE [fields EXCEPT ![depth - 1] = Minus(@)]
           /\ GoOn(h, FALSE)
           /\ UNCHANGED <<ret, atom, ref, leak, sub, objects>>
  <2> DEFINE c == <<depth - 1, ret[depth]>>
  <2>1. TypeOK /\ depth > 0 /\ depth \in Nat
    BY <1>2, MachineAssumption DEF Inv, TypeOK
  <2>2. depth \in Frame /\ depth - 1 \in Frame /\ v \in Val /\ depth - 1 # depth
    BY <1>2, <2>1, MachineAssumption DEF Frame, TypeOK
  <2>3. c \in Cell /\ c[1] = depth - 1
    <3>1. ret[depth] \in Slot
      BY <2>1, <2>2 DEF TypeOK
    <3>2. QED
      BY <2>2, <3>1, FrameCell
  <2>4. Survives(v, c)
    <3>1. CASE v = Prim
      BY <3>1 DEF Survives
    <3>2. ASSUME NEW s \in Slot, v = atom[<<depth, s>>] PROVE Survives(v, c)
      <4>1. <<depth, s>> \in Cell \ {c} /\ <<depth, s>>[1] = depth
        BY <2>2, FrameCell
      <4>2. HeldOutside(v, {c})
        BY <2>2, <3>2, <4>1 DEF HeldOutside
      <4>3. QED
        BY <4>2 DEF Survives
    <3>3. QED
      BY <3>1, <3>2
  <2>5. Grows(v)
    <3>1. \A o \in alive : ref'[o] >= ref[o]
      BY <1>2, <2>1 DEF TypeOK
    <3>2. QED
      BY <1>2, <3>1 DEF Grows, objects
  <2>6. Begins(c, v, "frame")
    <3>1. status' = "running" /\ leak' = leak
      BY <1>2 DEF GoOn
    <3>2. fields' = IF "frame" = "frame" /\ atom[c] # Prim
                    THEN [fields EXCEPT ![c[1]] = Minus(@)] ELSE fields
      BY <1>2, <2>3
    <3>3. QED
      BY <1>2, <2>2, <2>3, <2>4, <2>5, <3>1, <3>2 DEF Begins
  <2>7. QED
    BY <2>2, <2>3, <2>6 DEF Kinds, Via
<1>3. QED
  BY <1>1, <1>2 DEF ReturnValue

(* return and returnval.                                                    *)
LEMMA ReturnKinds ==
  ASSUME Inv
  PROVE  (Return => Kinds) /\ \A s \in Slot : ReturnVal(s) => Kinds
<1>1. Prim \in Val /\ TypeOK
  BY DEF Val, Inv
<1>2. Return => Kinds
  BY <1>1, ReturnValueKinds DEF Return, At
<1>3. ASSUME NEW s \in Slot, ReturnVal(s) PROVE Kinds
  <2>1. /\ status = "running" /\ ~Busy /\ depth > 0
        /\ ReturnValue("RETURN_VAL", atom[<<depth, s>>])
    BY <1>3 DEF ReturnVal, In, At
  <2>2. atom[<<depth, s>>] \in Val
    BY <1>1, <2>1, IdleFrame
  <2>3. QED
    BY <2>1, <2>2, ReturnValueKinds
<1>4. QED
  BY <1>2, <1>3

(* Every step is of one of the kinds.                                       *)
LEMMA NextKinds ==
  ASSUME Inv, [Next]_vars
  PROVE  Kinds
<1>1. CASE Continue
  <2>1. CASE FinishStore
    <3>1. CASE Fault
      BY <3>1, QuietSteps DEF Kinds
    <3>2. CASE ~Fault
      <4>1. status' = "running"
        BY <2>1, <3>2 DEF FinishStore, control
      <4>2. QED
        BY <2>1, <4>1 DEF Kinds
    <3>3. QED
      BY <3>1, <3>2
  <2>2. CASE ReleaseFrame
    BY <2>2 DEF Kinds
  <2>3. ASSUME NEW c \in doomed, DropRef(c) PROVE Kinds
    <3>1. CASE Fault
      BY <3>1, QuietSteps DEF Kinds
    <3>2. CASE ~Fault
      <4>1. status' = "running"
        BY <2>3, <3>2 DEF DropRef, control
      <4>2. QED
        BY <2>3, <4>1 DEF Kinds
    <3>3. QED
      BY <3>1, <3>2
  <2>4. QED
    BY <1>1, <2>1, <2>2, <2>3 DEF Continue
<1>2. CASE Calls
  <2>1. CallFails => Kinds
    BY QuietSteps DEF CallFails, Kinds
  <2>2. \A n, a : CallFaults(n, a) => Kinds
    BY QuietSteps DEF CallFaults, Kinds
  <2>3. \A n \in ArgCounts, a \in Slot, r \in Slot : Call(n, a, r) => Kinds
    BY DEF Kinds
  <2>4. QED
    BY <1>2, <2>1, <2>2, <2>3, ReturnKinds DEF Calls
<1>3. CASE Containers
  <2>1. \A h, c : TypeError(h, c) \/ Confusion(h, c) => Kinds
    BY QuietSteps DEF TypeError, Confusion, Kinds
  <2>2. QED
    BY <1>3, <2>1, ConNewKinds, ConNewFailsKinds, ConGetKinds, ConSetKinds, PrimKinds,
       ConCopyKinds DEF Containers
<1>4. CASE ModCalls
  <2>1. ModCallFails \/ ModCallFaults => Kinds
    BY QuietSteps DEF ModCallFails, ModCallFaults, Kinds
  <2>2. ModCallOrphan => Kinds
    BY DEF Kinds
  <2>3. QED
    BY <1>4, <2>1, <2>2, ModCallKinds DEF ModCalls
<1>5. CASE Others
  <2>1. Halt \/ FailedJump \/ FailedCast \/ Illegal \/ NullFrame => Kinds
    BY QuietSteps DEF Halt, FailedJump, FailedCast, Illegal, NullFrame, Kinds
  <2>2. QED
    BY <1>5, <2>1, PrimKinds, MovKinds DEF Others
<1>6. CASE UNCHANGED vars
  BY <1>6 DEF vars, Quiet, Kinds
<1>7. QED
  BY <1>1, <1>2, <1>3, <1>4, <1>5, <1>6 DEF Next

-----------------------------------------------------------------------------
(* Every object is held                                                    *)

(* Until an error is raised an object has a reference, or is about to be    *)
(* stored.                                                                 *)
Tended ==
  ~err /\ status = "running" =>
    \A o \in alive : ref[o] > 0 \/ (store # NoStore /\ store.val = o)

(* One reference fewer leaves one at least, as it was not the last.         *)
LEMMA DropLeavesOne ==
  ASSUME Inv, NEW c \in doomed, atom[c] \in alive, ref[atom[c]] # 1
  PROVE  ref[atom[c]] \in Nat /\ ref[atom[c]] - 1 > 0
<1> DEFINE o == atom[c]
<1>1. /\ o \in Obj /\ ref[o] \in Nat /\ leak[o] \in Nat
      /\ ref[o] = Cardinality(Refs(o)) + leak[o]
  BY DEF Inv, TypeOK, RefExact
<1>2. c \in Refs(o) /\ Refs(o) \in SUBSET Cell
  BY DEF Inv, TypeOK, Refs
<1>3. Cardinality(Refs(o)) > 0 /\ Cardinality(Refs(o)) \in Nat
  BY <1>2, OneFewer, CellsAreFinite
<1>4. QED
  BY <1>1, <1>3

(* Every kind of step leaves the objects tended to.                         *)
LEMMA TendedStep ==
  ASSUME Inv, Inv', Tended, Kinds, err => err', ~err', status' = "running"
  PROVE  Tended'
<1> SUFFICES ASSUME NEW o \in alive'
             PROVE  ref'[o] > 0 \/ (store' # NoStore /\ store'.val = o)
  BY DEF Tended
<1>1. TypeOK /\ ~err
  BY DEF Inv
<1>2. CASE Quiet
  BY <1>1, <1>2 DEF Quiet, Tended
<1>3. ASSUME NEW c \in Cell, NEW v \in Val, NEW via \in Via, Begins(c, v, via)
      PROVE  ref'[o] > 0 \/ (store' # NoStore /\ store'.val = o)
  <2>1. store' # NoStore /\ store'.val = v
    BY <1>3 DEF Begins, BeginStore, NoStore, Via
  <2>2. CASE o = v
    BY <2>1, <2>2
  <2>3. CASE o # v
    <3>1. o \in alive /\ ref'[o] >= ref[o]
      BY <1>3, <2>3 DEF Begins, Grows
    <3>2. ref[o] > 0
      BY <1>1, <1>3, <3>1 DEF Tended, Begins, Busy
    <3>3. ref[o] \in Nat
      BY <1>1, <3>1 DEF TypeOK
    <3>4. ref'[o] \in Nat
      BY DEF Inv, TypeOK
    <3>5. QED
      BY <3>1, <3>2, <3>3, <3>4
  <2>4. QED
    BY <2>2, <2>3
<1>4. ASSUME NEW n \in ArgCounts, NEW a \in Slot, NEW r \in Slot, Call(n, a, r)
      PROVE  ref'[o] > 0 \/ (store' # NoStore /\ store'.val = o)
  <2>1. /\ status = "running" /\ store = NoStore /\ alive' = alive
        /\ ref' = [p \in Obj |-> ref[p] + RefsIn(Arg(n, a), p)]
    BY <1>4 DEF Call, In, At, Busy, objects
  <2>2. Arg(n, a) \in SUBSET Cell
    <3>1. n \in Nat /\ a + n <= NSlots /\ depth \in Frame /\ NSlots \in Nat /\ a \in Nat
      BY <1>1, <1>4, IdleFrame, MachineAssumption DEF Call, In, At, Slot
    <3>2. \A i \in 0 .. n - 1 : <<depth, a + i>> \in Cell
      BY <3>1, FrameCell DEF Slot
    <3>3. QED
      BY <3>2 DEF Arg
  <2>3. o \in Obj /\ ref[o] \in Nat /\ RefsIn(Arg(n, a), o) \in Nat /\ ref[o] > 0
    BY <1>1, <2>1, <2>2, RefsInNat DEF TypeOK, Tended
  <2>4. QED
    BY <2>1, <2>3
<1>5. CASE ModCallOrphan
  BY <1>5 DEF ModCallOrphan, GoOn
<1>6. CASE FinishStore
  <2>1. ~Fault
    BY DEF Fault
  <2>2. /\ store.val \in alive \cup {Prim} /\ store # NoStore /\ alive' = alive
        /\ store.val = Prim => ref' = ref
        /\ store.val # Prim => ref' = [ref EXCEPT ![store.val] = @ + 1]
    <3>1. store # NoStore /\ store.val \notin Stray
      BY <1>6, <2>1 DEF FinishStore
    <3>2. store.val \in alive \cup {Prim}
      BY <1>1, <3>1 DEF TypeOK, Stray, Val
    <3>3. QED
      BY <1>6, <2>1, <3>1, <3>2 DEF FinishStore, objects
  <2>3. o \in Obj /\ o # Prim /\ ref[o] \in Nat /\ status = "running"
    BY <1>1, <1>6, <2>2, MachineAssumption DEF TypeOK, FinishStore
  <2>4. CASE o = store.val
    BY <1>1, <2>2, <2>3, <2>4 DEF TypeOK
  <2>5. CASE o # store.val
    <3>1. ref[o] > 0
      BY <1>1, <2>2, <2>3, <2>5 DEF Tended
    <3>2. ref'[o] = ref[o]
      BY <1>1, <2>2, <2>3, <2>5, MachineAssumption DEF TypeOK
    <3>3. QED
      BY <3>1, <3>2
  <2>6. QED
    BY <2>4, <2>5
<1>7. ASSUME NEW c \in doomed, DropRef(c)
      PROVE  ref'[o] > 0 \/ (store' # NoStore /\ store'.val = o)
  <2> DEFINE q == atom[c]
  <2>1. ~Fault /\ status = "running"
    BY <1>7 DEF Fault, DropRef
  <2>2. q \in alive /\ q \in Obj /\ store' = store /\ ref \in [Obj -> Nat] /\ o \in Obj
        /\ o \in alive /\ (ref[q] = 1 => o # q)
    BY <1>1, <1>7, <2>1 DEF TypeOK, DropRef, objects
  <2>3. CASE o # q
    <3>1. ref'[o] = ref[o]
      BY <1>7, <2>1, <2>2, <2>3 DEF DropRef
    <3>2. QED
      BY <1>1, <2>1, <2>2, <3>1 DEF Tended
  <2>4. CASE o = q
    <3>1. ref' = [ref EXCEPT ![q] = @ - 1] /\ ref[q] # 1
      BY <1>7, <2>1, <2>2, <2>4 DEF DropRef
    <3>2. ref[q] \in Nat /\ ref[q] - 1 > 0
      BY <2>2, <3>1, DropLeavesOne
    <3>3. ref'[q] = ref[q] - 1
      BY <2>2, <3>1
    <3>4. QED
      BY <2>4, <3>2, <3>3
  <2>5. QED
    BY <2>3, <2>4
<1>8. CASE ReleaseFrame
  BY <1>1, <1>8 DEF ReleaseFrame, Tended, objects
<1>9. QED
  BY <1>2, <1>3, <1>4, <1>5, <1>6, <1>7, <1>8 DEF Kinds

(* Between two handlers every object is held somewhere, or was forgotten,   *)
(* as long as no error was raised.                                         *)
THEOREM NothingIsOrphaned == "garbage" \notin Risks /\ Spec => []NoOrphan
<1>1. ASSUME "garbage" \notin Risks PROVE Spec => []NoOrphan
  <2>1. Init => Tended
    BY DEF Init, Tended
  <2>2. Inv /\ Tended /\ [Next]_vars => Tended'
    <3> SUFFICES ASSUME Inv, Tended, [Next]_vars PROVE Tended'
      OBVIOUS
    <3>1. Kinds /\ (err => err') /\ Inv'
      BY <1>1, NextKinds, ErrorStays, NextInv
    <3>2. CASE ~err' /\ status' = "running"
      BY <3>1, <3>2, TendedStep
    <3>3. CASE ~(~err' /\ status' = "running")
      BY <3>3 DEF Tended
    <3>4. QED
      BY <3>2, <3>3
  <2>3. Inv /\ Tended => NoOrphan
    <3> SUFFICES ASSUME Inv, Tended, ~Busy, ~err, status = "running", NEW o \in alive,
                        Refs(o) = {}
                 PROVE  leak[o] > 0
      BY DEF NoOrphan
    <3>1. ref[o] > 0 /\ ref[o] = Cardinality(Refs(o)) + leak[o] /\ leak[o] \in Nat
      BY DEF Busy, Tended, Inv, RefExact, TypeOK
    <3>2. QED
      BY <3>1, FS_EmptySet
  <2>4. Spec => []Inv
    BY <1>1, InvHolds
  <2>5. QED
    BY <2>1, <2>2, <2>3, <2>4, PTL DEF Spec
<1>2. QED
  BY <1>1

-----------------------------------------------------------------------------
(* What is about to be stored survives                                     *)

(* The value to be written is new, so that nothing refers to it, or is held *)
(* where the running handler gives nothing up.                             *)
StoreHeld ==
  store # NoStore /\ ~err /\ status = "running" /\ store.val # Prim =>
    store.val \in alive /\ (ref[store.val] = 0 \/ HeldOutside(store.val, doomed))

(* The last reference to an object that is freed is the one given up.       *)
LEMMA LastReference ==
  ASSUME Inv, NEW c \in doomed, atom[c] \in alive, ref[atom[c]] = 1
  PROVE  Refs(atom[c]) = {c} /\ leak[atom[c]] = 0
<1> DEFINE o == atom[c]
<1>1. /\ o \in Obj /\ leak[o] \in Nat /\ ref[o] = Cardinality(Refs(o)) + leak[o]
  BY DEF Inv, TypeOK, RefExact
<1>2. c \in Refs(o) /\ Refs(o) \in SUBSET Cell
  BY DEF Inv, TypeOK, Refs
<1>3. /\ Cardinality(Refs(o)) > 0 /\ Cardinality(Refs(o)) \in Nat
      /\ Cardinality(Refs(o) \ {c}) = Cardinality(Refs(o)) - 1
  BY <1>2, OneFewer, CellsAreFinite
<1>4. leak[o] = 0 /\ Cardinality(Refs(o) \ {c}) = 0
  BY <1>1, <1>3
<1>5. Refs(o) \ {c} = {}
  BY <1>2, <1>4, CellsAreFinite, FS_EmptySet
<1>6. QED
  BY <1>2, <1>4, <1>5

(* An object without a reference is held by no cell.                        *)
LEMMA NoReference ==
  ASSUME Inv, NEW o \in alive, ref[o] = 0, NEW x \in Cell
  PROVE  atom[x] # o
<1>1. /\ o \in Obj /\ leak[o] \in Nat /\ ref[o] = Cardinality(Refs(o)) + leak[o]
      /\ Refs(o) \in SUBSET Cell
  BY DEF Inv, TypeOK, RefExact, Refs
<1>2. Cardinality(Refs(o)) = 0
  BY <1>1, CellsAreFinite
<1>3. Refs(o) = {}
  BY <1>1, <1>2, CellsAreFinite, FS_EmptySet
<1>4. QED
  BY <1>3 DEF Refs

(* A reference is given up that is not the last to its object.              *)
LEMMA DropKeepsHeld ==
  ASSUME Inv, StoreHeld, NEW c \in doomed, DropRef(c), status' = "running", ~err,
         store # NoStore, store.val # Prim
  PROVE  /\ store.val \in alive'
         /\ ref'[store.val] = 0 \/ HeldOutside(store.val, doomed)'
<1> DEFINE v == store.val
           o == atom[c]
           mine == FirstObjects(o, sub[o])
           lost == Objects(o) \ mine
<1>1. /\ TypeOK /\ ~Fault /\ status = "running" /\ store' = store /\ c \in Cell
      /\ v \in alive /\ v \in Obj
      /\ ref[v] = 0 \/ HeldOutside(v, doomed)
  BY DEF Fault, DropRef, StoreHeld, Inv, TypeOK
<1>2. o \in alive /\ o \in Obj /\ o \notin Frame
  BY <1>1, MachineAssumption DEF DropRef, TypeOK
<1>3. ref[v] = 0 => v # o
  BY <1>1, <1>2, NoReference
<1>4. CASE ref[o] # 1
  <2>1. /\ atom' = [atom EXCEPT ![c] = Prim] /\ ref' = [ref EXCEPT ![o] = @ - 1]
        /\ doomed' = doomed \ {c} /\ alive' = alive
    BY <1>1, <1>4 DEF DropRef, objects
  <2>2. CASE ref[v] = 0
    BY <1>1, <1>2, <1>3, <2>1, <2>2 DEF TypeOK
  <2>3. CASE HeldOutside(v, doomed)
    <3>1. \A x \in Cell \ doomed : atom'[x] = atom[x] /\ x \notin doomed'
      BY <1>1, <2>1 DEF TypeOK
    <3>2. HeldOutside(v, doomed)'
      <4>1. \E x \in Cell \ doomed' :
              /\ atom'[x] = v
              /\ \/ x[1] \in Frame
                 \/ \E y \in Cell \ doomed' : y[1] \in Frame /\ atom'[y] = x[1]
        BY <2>3, <3>1 DEF HeldOutside
      <4>2. QED
        BY <1>1, <4>1 DEF HeldOutside
    <3>3. QED
      BY <1>1, <2>1, <3>2
  <2>4. QED
    BY <1>1, <2>2, <2>3
<1>5. CASE ref[o] = 1
  <2>1. /\ atom' = [d \in Cell |-> IF d \in lost \cup {c} THEN Prim ELSE atom[d]]
        /\ ref' = [ref EXCEPT ![o] = 0] /\ alive' = alive \ {o}
        /\ doomed' = (doomed \cup mine) \ {c}
    BY <1>1, <1>5 DEF DropRef
  <2>2. Refs(o) = {c}
    BY <1>2, <1>5, LastReference
  <2>3. CASE ref[v] = 0
    BY <1>1, <1>2, <1>3, <2>1, <2>3 DEF TypeOK
  <2>4. CASE HeldOutside(v, doomed)
    <3>1. \A x \in Cell \ doomed : atom[x] # o
      BY <2>2 DEF Refs
    <3>2. v # o
      BY <2>4, <3>1 DEF HeldOutside
    <3>3. \A x \in Cell \ doomed : x[1] # o => atom'[x] = atom[x] /\ x \notin doomed'
      BY <2>1 DEF FirstObjects, Objects
    <3>4. PICK x \in Cell \ doomed :
            /\ atom[x] = v
            /\ \/ x[1] \in Frame
               \/ \E y \in Cell \ doomed : y[1] \in Frame /\ atom[y] = x[1]
      BY <2>4 DEF HeldOutside
    <3>5. x[1] # o
      BY <1>2, <3>1, <3>4
    <3>6. x[1] \in Frame \/ \E y \in Cell \ doomed' : y[1] \in Frame /\ atom'[y] = x[1]
      BY <1>2, <3>3, <3>4
    <3>7. atom'[x] = v /\ x \in Cell \ doomed'
      BY <3>3, <3>4, <3>5
    <3>8. HeldOutside(v, doomed)'
      BY <1>1, <3>6, <3>7 DEF HeldOutside
    <3>9. QED
      BY <1>1, <2>1, <3>2, <3>8
  <2>5. QED
    BY <1>1, <2>3, <2>4
<1>6. QED
  BY <1>4, <1>5

(* Every kind of step keeps what is to be stored.                           *)
LEMMA StoreHeldStep ==
  ASSUME {"movself", "getself"} \cap Risks = {},
         Inv, Inv', StoreHeld, Kinds, err => err'
  PROVE  StoreHeld'
<1> SUFFICES ASSUME store' # NoStore, ~err', status' = "running", store'.val # Prim
             PROVE  /\ store'.val \in alive'
                    /\ ref'[store'.val] = 0 \/ HeldOutside(store.val, doomed)'
  BY DEF StoreHeld
<1>1. TypeOK /\ ~err
  BY DEF Inv
<1>2. CASE Quiet
  BY <1>1, <1>2 DEF Quiet, StoreHeld, HeldOutside
<1>3. ASSUME NEW c \in Cell, NEW v \in Val, NEW via \in Via, Begins(c, v, via)
      PROVE  /\ store'.val \in alive'
             /\ ref'[store'.val] = 0 \/ HeldOutside(store.val, doomed)'
  <2>1. store'.val = v /\ doomed' \subseteq {c} /\ v # Prim /\ Grows(v)
    BY <1>3 DEF Begins, BeginStore
  <2>2. CASE v \in alive' \ alive /\ ref'[v] = 0
    BY <2>1, <2>2
  <2>3. CASE HeldOutside(v, {c})
    <3>1. PICK x \in Cell \ {c} :
            /\ atom[x] = v
            /\ \/ x[1] \in Frame
               \/ \E y \in Cell \ {c} : y[1] \in Frame /\ atom[y] = x[1]
      BY <2>3 DEF HeldOutside
    <3>2. v \in alive
      BY <2>1, <3>1, MachineAssumption DEF Inv, NoDangling, NoWild, TypeOK, Val
    <3>3. \A y \in Cell : y[1] \in Frame => atom'[y] = atom[y]
      BY <2>1, MachineAssumption DEF Grows
    <3>4. x[1] \notin Obj \ alive
      BY <3>1, MachineAssumption DEF Inv, NoDangling
    <3>5. atom'[x] = v
      BY <2>1, <3>1, <3>4 DEF Grows
    <3>6. x \in Cell \ doomed' /\ \A y \in Cell \ {c} : y \in Cell \ doomed'
      BY <2>1
    <3>7. x[1] \in Frame \/ \E y \in Cell \ doomed' : y[1] \in Frame /\ atom'[y] = x[1]
      BY <3>1, <3>3, <3>6
    <3>8. HeldOutside(store.val, doomed)'
      BY <2>1, <3>5, <3>6, <3>7 DEF HeldOutside
    <3>9. QED
      BY <2>1, <3>2, <3>8 DEF Grows
  <2>4. QED
    BY <1>3, <2>1, <2>2, <2>3 DEF Begins, Survives
<1>4. ASSUME NEW n \in ArgCounts, NEW a \in Slot, NEW r \in Slot, Call(n, a, r)
      PROVE  FALSE
  BY <1>4 DEF Call, In, At, Busy
<1>5. CASE ModCallOrphan
  BY <1>5 DEF ModCallOrphan, GoOn
<1>6. CASE FinishStore
  BY <1>6 DEF FinishStore, Fault
<1>7. ASSUME NEW c \in doomed, DropRef(c)
      PROVE  /\ store'.val \in alive'
             /\ ref'[store'.val] = 0 \/ HeldOutside(store.val, doomed)'
  <2>1. store' = store
    BY <1>7 DEF DropRef, Fault
  <2>2. QED
    BY <1>1, <1>7, <2>1, DropKeepsHeld
<1>8. CASE ReleaseFrame
  BY <1>8 DEF ReleaseFrame, Stored
<1>9. QED
  BY <1>2, <1>3, <1>4, <1>5, <1>6, <1>7, <1>8 DEF Kinds

(* StoreHeld is an invariant, as long as no instruction overwrites the slot *)
(* it reads.                                                               *)
LEMMA AlwaysStoreHeld ==
  {"garbage", "movself", "getself"} \cap Risks = {} /\ Spec => []StoreHeld
<1>1. ASSUME {"garbage", "movself", "getself"} \cap Risks = {}
      PROVE  Spec => []StoreHeld
  <2>1. Init => StoreHeld
    BY DEF Init, StoreHeld
  <2>2. Inv /\ StoreHeld /\ [Next]_vars => StoreHeld'
    BY <1>1, NextKinds, ErrorStays, NextInv, StoreHeldStep
  <2>3. Spec => []Inv
    BY <1>1, InvHolds
  <2>4. QED
    BY <2>1, <2>2, <2>3, PTL DEF Spec
<1>2. QED
  BY <1>1

(* What an instruction writes to a slot or a cell has survived the release  *)
(* of what that held: the write comes after the decrement, and it is safe.  *)
THEOREM StoredSurvives ==
  {"garbage", "movself", "getself"} \cap Risks = {} /\ Spec => []StoredIsAlive
<1>1. StoreHeld => StoredIsAlive
  BY DEF StoreHeld, StoredIsAlive
<1>2. QED
  BY <1>1, AlwaysStoreHeld, PTL

-----------------------------------------------------------------------------
(* What is about to be given up                                            *)

(* A cell that is about to give up its reference has one; and if its        *)
(* container stays, it is the cell a conset overwrites.                    *)
DoomedHold == \A c \in doomed : atom[c] # Prim
DoomedApart ==
  \A c \in doomed : c[1] \in alive =>
    store # NoStore /\ store.via = "container" /\ c = store.cell
DoomedOK == DoomedHold /\ DoomedApart

(* The deleter of a container gives back every reference the container      *)
(* holds: none is counted out before, since a conset holds the container.  *)
LEMMA DeleterFindsAll ==
  ASSUME Inv, DoomedOK, NEW c \in doomed, atom[c] \in alive, ref[atom[c]] = 1
  PROVE  FirstObjects(atom[c], sub[atom[c]]) = Objects(atom[c])
<1> DEFINE o == atom[c]
<1>1. Refs(o) = {c}
  BY LastReference
<1>2. Objects(o) \cap doomed = {}
  <2> SUFFICES ASSUME NEW x \in Objects(o), x \in doomed PROVE FALSE
    OBVIOUS
  <2>1. x[1] = o /\ store # NoStore /\ store.via = "container" /\ x = store.cell
    BY DEF DoomedOK, DoomedApart, Objects
  <2>2. PICK s \in Slot : <<depth, s>> \in Cell \ doomed /\ atom[<<depth, s>>] = o
    BY <2>1 DEF Inv, StoreHasTarget
  <2>3. <<depth, s>> \in Refs(o)
    BY <2>2 DEF Refs
  <2>4. QED
    BY <1>1, <2>2, <2>3
<1>3. Objects(o) \ doomed = Objects(o)
  BY <1>2
<1>4. sub[o] = Cardinality(Objects(o))
  BY <1>3 DEF Inv, SubExact
<1>5. QED
  BY <1>4, FirstObjectsAreAll DEF Inv, TypeOK

(* Every kind of step keeps the doomed cells in order.                      *)
LEMMA DoomedStep ==
  ASSUME Inv, Inv', DoomedOK, Kinds
  PROVE  DoomedOK'
<1>1. TypeOK
  BY DEF Inv
<1>2. CASE Quiet
  BY <1>2 DEF Quiet, DoomedOK, DoomedHold, DoomedApart
<1>3. ASSUME NEW c \in Cell, NEW v \in Val, NEW via \in Via, Begins(c, v, via)
      PROVE  DoomedOK'
  <2>1. /\ doomed' = IF atom[c] = Prim THEN {} ELSE {c}
        /\ store' = [cell |-> c, val |-> v, via |-> via]
    BY <1>3 DEF Begins, BeginStore
  <2>2. store' # NoStore /\ store'.cell = c /\ store'.via = via
    BY <2>1 DEF NoStore, Via
  <2>3. atom'[c] = atom[c]
    BY <1>3, MachineAssumption DEF Begins, Grows, Via
  <2>4. c[1] \in alive' => via = "container"
    BY <1>3, MachineAssumption DEF Begins, Via, Inv, TypeOK
  <2>5. QED
    BY <2>1, <2>2, <2>3, <2>4 DEF DoomedOK, DoomedHold, DoomedApart
<1>4. ASSUME NEW n \in ArgCounts, NEW a \in Slot, NEW r \in Slot, Call(n, a, r)
      PROVE  DoomedOK'
  <2>1. doomed' = {}
    BY <1>4 DEF Call, In, At, Busy
  <2>2. QED
    BY <2>1 DEF DoomedOK, DoomedHold, DoomedApart
<1>5. CASE ModCallOrphan
  <2>1. doomed' = {}
    BY <1>5 DEF ModCallOrphan, In, At, Busy
  <2>2. QED
    BY <2>1 DEF DoomedOK, DoomedHold, DoomedApart
<1>6. CASE FinishStore /\ status' = "running"
  <2>1. doomed' = {}
    BY <1>6 DEF FinishStore, Fault
  <2>2. QED
    BY <2>1 DEF DoomedOK, DoomedHold, DoomedApart
<1>7. ASSUME NEW c \in doomed, DropRef(c), status' = "running"
      PROVE  DoomedOK'
  <2> DEFINE o == atom[c]
  <2>1. /\ o \in alive /\ store' = store /\ doomed \subseteq Cell /\ ~Fault
    BY <1>1, <1>7 DEF DropRef, Fault, TypeOK
  <2>2. CASE ref[o] # 1
    <3>1. atom' = [atom EXCEPT ![c] = Prim] /\ doomed' = doomed \ {c} /\ alive' = alive
      BY <1>7, <2>1, <2>2 DEF DropRef, objects
    <3>2. \A x \in doomed' : x \in doomed /\ atom'[x] = atom[x]
      BY <1>1, <2>1, <3>1 DEF TypeOK
    <3>3. QED
      BY <2>1, <3>1, <3>2 DEF DoomedOK, DoomedHold, DoomedApart
  <2>3. CASE ref[o] = 1
    <3>1. FirstObjects(o, sub[o]) = Objects(o)
      BY <2>1, <2>3, DeleterFindsAll
    <3>2. /\ atom' = [d \in Cell |-> IF d \in {c} THEN Prim ELSE atom[d]]
          /\ alive' = alive \ {o} /\ doomed' = (doomed \cup Objects(o)) \ {c}
      BY <1>7, <2>1, <2>3, <3>1 DEF DropRef
    <3>3. \A x \in Objects(o) : x \in Cell /\ x[1] = o /\ atom[x] # Prim
      BY DEF Objects
    <3>4. DoomedHold'
      BY <2>1, <3>2, <3>3 DEF DoomedOK, DoomedHold
    <3>5. DoomedApart'
      BY <2>1, <3>2, <3>3 DEF DoomedOK, DoomedApart
    <3>6. QED
      BY <3>4, <3>5 DEF DoomedOK
  <2>4. QED
    BY <2>2, <2>3
<1>8. CASE ReleaseFrame
  <2> DEFINE top == depth + 1
  <2>1. /\ doomed' \subseteq Objects(top) /\ alive' = alive
        /\ \A x \in doomed' : atom'[x] = atom[x]
    BY <1>8 DEF ReleaseFrame, FirstObjects, Objects, objects
  <2>2. top \in Frame
    BY <1>1, <1>8, MachineAssumption DEF ReleaseFrame, Stored, TypeOK, Frame
  <2>3. \A x \in doomed' : x[1] = top /\ atom[x] # Prim
    BY <2>1 DEF Objects
  <2>4. top \notin alive'
    BY <1>1, <2>1, <2>2, MachineAssumption DEF TypeOK
  <2>5. QED
    BY <2>1, <2>3, <2>4 DEF DoomedOK, DoomedHold, DoomedApart
<1>9. QED
  BY <1>2, <1>3, <1>4, <1>5, <1>6, <1>7, <1>8 DEF Kinds

(* The doomed cells are in order in every state.                            *)
LEMMA AlwaysDoomedOK == "garbage" \notin Risks /\ Spec => []DoomedOK
<1>1. ASSUME "garbage" \notin Risks PROVE Spec => []DoomedOK
  <2>1. Init => DoomedOK
    BY DEF Init, DoomedOK, DoomedHold, DoomedApart
  <2>2. Inv /\ DoomedOK /\ [Next]_vars => DoomedOK'
    BY <1>1, NextKinds, NextInv, DoomedStep
  <2>3. Spec => []Inv
    BY <1>1, InvHolds
  <2>4. QED
    BY <2>1, <2>2, <2>3, PTL DEF Spec
<1>2. QED
  BY <1>1

-----------------------------------------------------------------------------
(* The counter of a frame                                                  *)

(* A counter modulo the number of slots, one up and one down.               *)
LEMMA FieldArithmetic ==
  ASSUME NEW k \in Nat, k < NSlots
  PROVE  /\ Plus(k % NSlots) = (k + 1) % NSlots
         /\ Minus((k + 1) % NSlots) = k % NSlots
<1>1. NSlots \in Nat /\ NSlots > 0
  BY MachineAssumption
<1>2. k % NSlots = k
  BY <1>1
<1>3. NSlots % NSlots = 0 /\ (k + NSlots) % NSlots = k
  BY <1>1
<1>4. Plus(k % NSlots) = (k + 1) % NSlots
  BY <1>2 DEF Plus
<1>5. CASE k + 1 = NSlots
  <2>1. (k + 1) % NSlots = 0 /\ 0 + NSlots - 1 = k
    BY <1>1, <1>3, <1>5
  <2>2. QED
    BY <1>2, <1>4, <2>1 DEF Minus
<1>6. CASE k + 1 < NSlots
  <2>1. (k + 1) % NSlots = k + 1 /\ (k + 1) + NSlots - 1 = k + NSlots
    BY <1>1, <1>6
  <2>2. QED
    BY <1>2, <1>3, <1>4, <2>1 DEF Minus
<1>7. QED
  BY <1>1, <1>5, <1>6

(* A frame has NSlots slots.                                                *)
LEMMA FrameHasSlots ==
  ASSUME NEW f \in Frame, NEW S \in SUBSET {x \in Cell : x[1] = f}
  PROVE  Cardinality(S) \in Nat /\ Cardinality(S) <= NSlots /\ S \in SUBSET Cell
<1>1. {x \in Cell : x[1] = f} \subseteq {f} \X Slot
  BY CellShape, MachineAssumption
<1>2. S \subseteq {f} \X Slot /\ S \in SUBSET Cell
  BY <1>1
<1>3. IsFiniteSet(Slot) /\ Cardinality(Slot) = NSlots
  BY MachineAssumption, FS_Interval DEF Slot
<1>4. IsFiniteSet({f}) /\ Cardinality({f}) = 1
  BY FS_Singleton
<1>5. IsFiniteSet({f} \X Slot) /\ Cardinality({f} \X Slot) = 1 * NSlots
  BY <1>3, <1>4, FS_Product
<1>6. 1 * NSlots = NSlots
  BY MachineAssumption
<1>7. Cardinality(S) <= NSlots
  BY <1>2, <1>5, <1>6, FS_Subset
<1>8. QED
  BY <1>2, <1>7, CellsAreFinite

(* So it holds at most NSlots objects.                                      *)
LEMMA FrameHoldsAtMost ==
  ASSUME NEW f \in Frame
  PROVE  /\ Cardinality(Objects(f)) \in Nat /\ Cardinality(Objects(f)) <= NSlots
         /\ Objects(f) \in SUBSET Cell
<1>1. Objects(f) \subseteq {x \in Cell : x[1] = f}
  BY DEF Objects
<1>2. QED
  BY <1>1, FrameHasSlots

(* A call leaves as many references in the new frame as the arguments hold. *)
LEMMA CallFillsFrame ==
  ASSUME Inv, NEW n \in ArgCounts, NEW a \in Slot, NEW r \in Slot, Call(n, a, r)
  PROVE  /\ depth + 1 \in Frame
         /\ Cardinality({x \in Cell : x[1] = depth + 1 /\ atom'[x] # Prim})
              = Cardinality({x \in Arg(n, a) : atom[x] # Prim})
<1> DEFINE S == {x \in Cell : x[1] = depth + 1 /\ atom'[x] # Prim}
           T == {x \in Arg(n, a) : atom[x] # Prim}
           g == [x \in S |-> <<depth, a + x[2]>>]
<1>1. /\ ~Busy /\ depth > 0 /\ depth < MaxDepth /\ a + n <= NSlots
      /\ n \in Nat /\ a \in Nat /\ NSlots \in Nat /\ TypeOK
  BY MachineAssumption DEF Call, In, At, Slot, Inv
<1>2. depth \in Nat /\ depth \in Frame /\ depth + 1 \in Frame
  BY <1>1, IdleFrame, MachineAssumption DEF TypeOK, Frame
<1>3. \A i \in 0 .. n - 1 :
        /\ <<depth, a + i>> \in Cell
        /\ <<depth + 1, i>> \in Cell /\ <<depth + 1, i>>[1] = depth + 1
        /\ <<depth + 1, i>>[2] = i
  BY <1>1, <1>2, FrameCell DEF Slot
<1>4. S \in SUBSET Cell /\ T \in SUBSET Cell
  BY <1>3 DEF Arg
<1>5. atom' = [x \in Cell |-> IF x[1] # depth + 1 THEN atom[x]
                              ELSE IF x[2] < n THEN atom[<<depth, a + x[2]>>] ELSE Prim]
  BY DEF Call
<1>6. \A x \in S : /\ x[2] \in 0 .. n - 1 /\ x[2] \in Nat /\ x = <<depth + 1, x[2]>>
                   /\ <<depth, a + x[2]>> \in T
  <2> SUFFICES ASSUME NEW x \in S
               PROVE  /\ x[2] \in 0 .. n - 1 /\ x[2] \in Nat /\ x = <<depth + 1, x[2]>>
                      /\ <<depth, a + x[2]>> \in T
    OBVIOUS
  <2>1. x[2] \in Nat /\ x = <<depth + 1, x[2]>>
    BY <1>2, CellShape, MachineAssumption DEF Slot
  <2>2. x[2] < n /\ atom[<<depth, a + x[2]>>] # Prim
    BY <1>5
  <2>3. x[2] \in 0 .. n - 1
    BY <1>1, <2>1, <2>2
  <2>4. QED
    BY <2>1, <2>2, <2>3 DEF Arg
<1>7. g \in [S -> T]
  BY <1>6
<1>8. \A x, y \in S : g[x] = g[y] => x = y
  <2> SUFFICES ASSUME NEW x \in S, NEW y \in S, <<depth, a + x[2]>> = <<depth, a + y[2]>>
               PROVE  x = y
    OBVIOUS
  <2>1. a + x[2] = a + y[2]
    OBVIOUS
  <2>2. x[2] \in Nat /\ y[2] \in Nat
    BY <1>6
  <2>3. x[2] = y[2]
    BY <1>1, <2>1, <2>2
  <2>4. QED
    BY <1>6, <2>3
<1>9. \A t \in T : \E x \in S : g[x] = t
  <2> SUFFICES ASSUME NEW t \in T PROVE \E x \in S : g[x] = t
    OBVIOUS
  <2>1. PICK i \in 0 .. n - 1 : t = <<depth, a + i>>
    BY DEF Arg
  <2>2. i < n
    BY <1>1
  <2>3. atom'[<<depth + 1, i>>] = atom[<<depth, a + i>>]
    BY <1>3, <1>5, <2>2
  <2>4. <<depth + 1, i>> \in S
    BY <1>3, <2>1, <2>3
  <2>5. g[<<depth + 1, i>>] = t
    BY <1>3, <2>1, <2>4
  <2>6. QED
    BY <2>4, <2>5
<1> HIDE DEF g, S, T
<1>10. Cardinality(S) = Cardinality(T)
  BY <1>4, <1>7, <1>8, <1>9, SameNumber
<1>11. QED
  BY <1>2, <1>10 DEF S, T

(* Without module calls every store into a frame is counted.                *)
StoreCounted == store # NoStore => store.via # "modcall"
CountOK == FieldCountExact /\ StoreCounted

(* The references of frame f that it has to give back.                      *)
Counted(f) == Objects(f) \ doomed

(* A store begins: the counter goes down with the reference given up.       *)
LEMMA CountAtBegin ==
  ASSUME Inv, CountOK, NEW c \in Cell, NEW v \in Val, NEW via \in Via, Begins(c, v, via),
         "modcall" \notin Risks
  PROVE  CountOK'
<1>1. TypeOK /\ doomed = {} /\ via # "modcall"
  BY DEF Inv, Begins, Busy
<1>2. /\ store' = [cell |-> c, val |-> v, via |-> via]
      /\ doomed' = IF atom[c] = Prim THEN {} ELSE {c}
  BY DEF Begins, BeginStore
<1>3. StoreCounted'
  BY <1>1, <1>2 DEF StoreCounted
<1>4. FieldCountExact'
  <2> SUFFICES ASSUME NEW f \in Frame
               PROVE  fields'[f] = Cardinality(Counted(f)') % NSlots
    BY DEF FieldCountExact, Counted
  <2>1. \A x \in Cell : x[1] = f => atom'[x] = atom[x]
    BY MachineAssumption DEF Begins, Grows
  <2>2. Objects(f)' = Objects(f)
    BY <2>1 DEF Objects
  <2>3. fields[f] = Cardinality(Objects(f)) % NSlots
    <3>1. Objects(f) \ doomed = Objects(f)
      BY <1>1
    <3>2. QED
      BY <3>1 DEF CountOK, FieldCountExact
  <2>4. CASE c[1] = f /\ atom[c] # Prim
    <3>1. via = "frame"
      BY <1>1, <2>4, MachineAssumption DEF Begins, Via, TypeOK
    <3>2. c \in Objects(f) /\ Counted(f)' = Objects(f) \ {c}
      BY <1>2, <2>2, <2>4 DEF Objects, Counted
    <3>3. fields'[f] = Minus(fields[f])
      BY <1>1, <2>4, <3>1 DEF Begins, TypeOK
    <3>4. /\ Cardinality(Objects(f) \ {c}) = Cardinality(Objects(f)) - 1
          /\ Cardinality(Objects(f)) > 0 /\ Cardinality(Objects(f)) \in Nat
          /\ Cardinality(Objects(f)) <= NSlots
      BY <3>2, OneFewer, FrameHoldsAtMost
    <3> DEFINE k == Cardinality(Objects(f)) - 1
    <3>5. k \in Nat /\ k < NSlots /\ k + 1 = Cardinality(Objects(f))
      BY <3>4, MachineAssumption
    <3>6. Minus((k + 1) % NSlots) = k % NSlots
      <4> HIDE DEF k
      <4>1. QED
        BY <3>5, FieldArithmetic
    <3>7. QED
      BY <2>3, <3>2, <3>3, <3>4, <3>5, <3>6
  <2>5. CASE ~(c[1] = f /\ atom[c] # Prim)
    <3>1. Counted(f)' = Objects(f)
      BY <1>2, <2>2, <2>5 DEF Objects, Counted
    <3>2. fields'[f] = fields[f]
      BY <1>1, <2>5 DEF Begins, TypeOK
    <3>3. QED
      BY <2>3, <3>1, <3>2
  <2>6. QED
    BY <2>4, <2>5
<1>5. QED
  BY <1>3, <1>4 DEF CountOK

(* The store is made: the counter goes up with the reference taken.         *)
LEMMA CountAtStore ==
  ASSUME Inv, CountOK, FinishStore, status' = "running"
  PROVE  CountOK'
<1> DEFINE c == store.cell
           v == store.val
<1>1. /\ TypeOK /\ doomed = {} /\ store # NoStore /\ ~Fault
      /\ store' = NoStore /\ doomed' = doomed
      /\ atom' = [atom EXCEPT ![c] = v]
      /\ v = Prim => fields' = fields
      /\ v # Prim => fields' = IF store.via = "frame"
                               THEN [fields EXCEPT ![c[1]] = Plus(@)] ELSE fields
  BY DEF Inv, FinishStore, Fault
<1>2. c \in Cell /\ atom[c] = Prim /\ store.via \in {"frame", "container"}
  BY <1>1 DEF TypeOK, Inv, StoreHasTarget, CountOK, StoreCounted
<1>3. \A x \in Cell : atom'[x] = IF x = c THEN v ELSE atom[x]
  BY <1>1, <1>2 DEF TypeOK
<1>4. StoreCounted'
  BY <1>1 DEF StoreCounted
<1>5. FieldCountExact'
  <2> SUFFICES ASSUME NEW f \in Frame
               PROVE  fields'[f] = Cardinality(Objects(f)') % NSlots
    BY <1>1 DEF FieldCountExact
  <2>1. fields[f] = Cardinality(Objects(f)) % NSlots
    <3>1. Objects(f) \ doomed = Objects(f)
      BY <1>1
    <3>2. QED
      BY <3>1 DEF CountOK, FieldCountExact
  <2>2. CASE c[1] = f /\ v # Prim
    <3>1. store.via = "frame"
      BY <1>1, <1>2, <2>2, MachineAssumption DEF Inv, StoreHasTarget
    <3>2. Objects(f)' = Objects(f) \cup {c} /\ c \notin Objects(f)
      BY <1>2, <1>3, <2>2 DEF Objects
    <3>3. fields'[f] = Plus(fields[f])
      BY <1>1, <2>2, <3>1 DEF TypeOK
    <3> DEFINE k == Cardinality(Objects(f))
    <3>4. k \in Nat /\ Cardinality(Objects(f)') = k + 1
      BY <1>2, <3>2, FrameHoldsAtMost, OneMore
    <3>5. k < NSlots
      <4>1. Objects(f)' \subseteq {x \in Cell : x[1] = f}
        BY DEF Objects
      <4>2. Cardinality(Objects(f)') <= NSlots
        BY <4>1, FrameHasSlots
      <4>3. QED
        BY <3>4, <4>2, MachineAssumption
    <3>6. Plus(k % NSlots) = (k + 1) % NSlots
      <4> HIDE DEF k
      <4>1. QED
        BY <3>4, <3>5, FieldArithmetic
    <3>7. QED
      BY <2>1, <3>3, <3>4, <3>6
  <2>3. CASE ~(c[1] = f /\ v # Prim)
    <3>1. Objects(f)' = Objects(f)
      BY <1>2, <1>3, <2>3 DEF Objects
    <3>2. fields'[f] = fields[f]
      BY <1>1, <1>2, <2>3 DEF TypeOK
    <3>3. QED
      BY <2>1, <3>1, <3>2
  <2>4. QED
    BY <2>2, <2>3
<1>6. QED
  BY <1>4, <1>5 DEF CountOK

(* A call: the new frame's counter is that of its arguments.                *)
LEMMA CountAtCall ==
  ASSUME Inv, CountOK, NEW n \in ArgCounts, NEW a \in Slot, NEW r \in Slot, Call(n, a, r)
  PROVE  CountOK'
<1>1. /\ TypeOK /\ doomed = {} /\ doomed' = {} /\ store' = store
      /\ atom' = [x \in Cell |-> IF x[1] # depth + 1 THEN atom[x]
                                 ELSE IF x[2] < n THEN atom[<<depth, a + x[2]>>] ELSE Prim]
      /\ fields' = [fields EXCEPT ![depth + 1] =
                      Cardinality({x \in Arg(n, a) : atom[x] # Prim}) % NSlots]
  BY DEF Inv, Call, In, At, Busy
<1>2. FieldCountExact'
  <2> SUFFICES ASSUME NEW f \in Frame
               PROVE  fields'[f] = Cardinality(Objects(f)') % NSlots
    BY <1>1 DEF FieldCountExact
  <2>1. CASE f = depth + 1
    <3>1. Cardinality(Objects(f)') = Cardinality({x \in Arg(n, a) : atom[x] # Prim})
      BY <2>1, CallFillsFrame DEF Objects
    <3>2. fields'[f] = Cardinality({x \in Arg(n, a) : atom[x] # Prim}) % NSlots
      BY <1>1, <2>1 DEF TypeOK
    <3>3. QED
      BY <3>1, <3>2
  <2>2. CASE f # depth + 1
    <3>1. Objects(f)' = Objects(f) \ doomed
      BY <1>1, <2>2 DEF Objects
    <3>2. fields'[f] = fields[f]
      BY <1>1, <2>2 DEF TypeOK
    <3>3. QED
      BY <3>1, <3>2 DEF CountOK, FieldCountExact
  <2>3. QED
    BY <2>1, <2>2
<1>3. QED
  BY <1>1, <1>2 DEF CountOK, StoreCounted

(* A step that leaves the references a frame has to give back alone.        *)
LEMMA CountAlone ==
  ASSUME CountOK, fields' = fields, store' = store,
         \A f \in Frame : Counted(f)' = Counted(f)
  PROVE  CountOK'
BY DEF CountOK, FieldCountExact, StoreCounted, Counted

(* A reference given up was counted out when the store began, or with the   *)
(* frame.                                                                  *)
LEMMA CountAtDrop ==
  ASSUME Inv, CountOK, NEW c \in doomed, DropRef(c), status' = "running"
  PROVE  CountOK'
<1> DEFINE o == atom[c]
           lost == Objects(o) \ FirstObjects(o, sub[o])
<1>1. TypeOK /\ ~Fault /\ o \in Obj /\ o \notin Frame /\ c \in Cell
      /\ store' = store /\ fields' = fields
  BY MachineAssumption DEF Inv, TypeOK, DropRef, Fault, counters
<1>2. \A x \in Cell : x[1] # o => /\ x \in doomed' <=> x \in doomed \ {c}
                                  /\ atom'[x] = IF x = c THEN Prim ELSE atom[x]
  <2>1. CASE ref[o] # 1
    BY <1>1, <2>1 DEF DropRef, TypeOK
  <2>2. CASE ref[o] = 1
    <3>1. /\ atom' = [d \in Cell |-> IF d \in lost \cup {c} THEN Prim ELSE atom[d]]
          /\ doomed' = (doomed \cup FirstObjects(o, sub[o])) \ {c}
      BY <1>1, <2>2 DEF DropRef
    <3>2. \A x \in Objects(o) : x[1] = o
      BY DEF Objects
    <3>3. FirstObjects(o, sub[o]) \subseteq Objects(o)
      BY DEF FirstObjects
    <3>4. QED
      BY <3>1, <3>2, <3>3
  <2>3. QED
    BY <2>1, <2>2
<1>3. ASSUME NEW f \in Frame PROVE Counted(f)' = Counted(f)
  BY <1>1, <1>2 DEF Counted, Objects
<1>4. QED
  BY <1>1, <1>3, CountAlone

(* A popped frame has nothing left to count.                                *)
LEMMA CountAtRelease ==
  ASSUME Inv, CountOK, ReleaseFrame
  PROVE  CountOK'
<1> DEFINE top == depth + 1
           mine == FirstObjects(top, fields[top])
           lost == Objects(top) \ mine
<1>1. /\ TypeOK /\ doomed = {} /\ doomed' = mine /\ store' = store
      /\ atom' = [x \in Cell |-> IF x \in lost THEN Prim ELSE atom[x]]
      /\ fields' = [fields EXCEPT ![top] = 0]
  BY DEF Inv, ReleaseFrame, Stored
<1>2. top \in Frame /\ 0 % NSlots = 0
  BY <1>1, MachineAssumption DEF ReleaseFrame, Stored, TypeOK, Frame
<1>3. FieldCountExact'
  <2> SUFFICES ASSUME NEW f \in Frame
               PROVE  fields'[f] = Cardinality(Objects(f)' \ doomed') % NSlots
    BY DEF FieldCountExact
  <2>1. CASE f = top
    <3>1. Objects(f)' \ doomed' = {}
      BY <1>1, <2>1 DEF Objects
    <3>2. fields'[f] = 0 /\ Cardinality(Objects(f)' \ doomed') = 0
      BY <1>1, <1>2, <2>1, <3>1, FS_EmptySet DEF TypeOK
    <3>3. QED
      BY <1>2, <3>2
  <2>2. CASE f # top
    <3>1. Objects(f)' \ doomed' = Objects(f) \ doomed
      BY <1>1, <2>2 DEF Objects, FirstObjects
    <3>2. fields'[f] = fields[f]
      BY <1>1, <2>2 DEF TypeOK
    <3>3. QED
      BY <3>1, <3>2 DEF CountOK, FieldCountExact
  <2>3. QED
    BY <2>1, <2>2
<1>4. QED
  BY <1>1, <1>3 DEF CountOK, StoreCounted

(* Every kind of step keeps the counters.                                   *)
LEMMA CountStep ==
  ASSUME Inv, CountOK, Kinds, "modcall" \notin Risks
  PROVE  CountOK'
<1>1. CASE Quiet
  <2>1. \A f \in Frame : Counted(f)' = Counted(f)
    BY <1>1 DEF Quiet, Counted, Objects
  <2>2. QED
    BY <1>1, <2>1, CountAlone DEF Quiet
<1>2. CASE ModCallOrphan
  <2>1. PICK o \in Obj : Allocate(o, 0, [i \in Index |-> Prim])
    BY <1>2 DEF ModCallOrphan
  <2>2. \A x \in Cell : x[1] # o => atom'[x] = atom[x]
    BY <2>1 DEF Allocate
  <2>3. fields' = fields /\ doomed' = doomed /\ store' = store
    BY <1>2 DEF ModCallOrphan
  <2>4. ASSUME NEW f \in Frame PROVE Counted(f)' = Counted(f)
    <3>1. f # o
      BY MachineAssumption
    <3>2. QED
      BY <2>2, <2>3, <3>1 DEF Counted, Objects
  <2>5. QED
    BY <2>3, <2>4, CountAlone
<1>3. QED
  BY <1>1, <1>2, CountAtBegin, CountAtStore, CountAtCall, CountAtDrop, CountAtRelease DEF Kinds

(* Counters and stores stay as they should without module calls.            *)
LEMMA AlwaysCountOK == {"garbage", "modcall"} \cap Risks = {} /\ Spec => []CountOK
<1>1. ASSUME {"garbage", "modcall"} \cap Risks = {} PROVE Spec => []CountOK
  <2>1. Init => CountOK
    <3> SUFFICES ASSUME Init, NEW f \in Frame
                 PROVE  fields[f] = Cardinality(Objects(f) \ doomed) % NSlots
      BY DEF Init, CountOK, FieldCountExact, StoreCounted
    <3>1. Objects(f) \ doomed = {} /\ fields[f] = 0
      BY DEF Init, Objects
    <3>2. QED
      BY <3>1, FS_EmptySet, MachineAssumption
  <2>2. Inv /\ CountOK /\ [Next]_vars => CountOK'
    BY <1>1, NextKinds, CountStep
  <2>3. Spec => []Inv
    BY <1>1, InvHolds
  <2>4. QED
    BY <2>1, <2>2, <2>3, PTL DEF Spec
<1>2. QED
  BY <1>1

(* object_field_count is the number of object slots of the frame, modulo    *)
(* what a uint8_t holds, for every program without module calls.           *)
THEOREM FieldCountsAreExact ==
  {"garbage", "modcall"} \cap Risks = {} /\ Spec => []FieldCountExact
<1>1. CountOK => FieldCountExact
  BY DEF CountOK
<1>2. QED
  BY <1>1, AlwaysCountOK, PTL

-----------------------------------------------------------------------------
(* What is forgotten                                                       *)

(* Nothing is counted in no cells.                                          *)
LEMMA ForgetNothing ==
  ASSUME TypeOK, Forget({})
  PROVE  leak' = leak
<1>1. \A o \in Obj : RefsIn({}, o) = 0
  BY FS_EmptySet DEF RefsIn
<1>2. \A o \in Obj : leak[o] \in Nat /\ leak'[o] = leak[o] + RefsIn({}, o)
  BY DEF Forget, TypeOK
<1>3. leak' \in [Obj -> Nat] /\ \A o \in Obj : leak'[o] = leak[o]
  BY <1>1, <1>2 DEF Forget, TypeOK
<1>4. QED
  BY <1>3 DEF TypeOK

(* Only a popped frame that is full forgets references.                     *)
LEMMA LeakStep ==
  ASSUME Inv, DoomedOK, CountOK, Kinds, leak' # leak
  PROVE  popped /\ Cardinality(Objects(depth + 1)) = NSlots
<1>1. TypeOK
  BY DEF Inv
<1>2. CASE Quiet
  BY <1>2 DEF Quiet
<1>3. CASE \E c \in Cell, v \in Val, via \in Via : Begins(c, v, via)
  BY <1>3 DEF Begins
<1>4. CASE \E n \in ArgCounts, a \in Slot, r \in Slot : Call(n, a, r)
  BY <1>4 DEF Call
<1>5. CASE ModCallOrphan
  BY <1>5 DEF ModCallOrphan, InFrame
<1>6. CASE FinishStore
  BY <1>6 DEF FinishStore, Fault, InFrame
<1>7. ASSUME NEW c \in doomed, DropRef(c), status' = "running"
      PROVE  FALSE
  <2> DEFINE o == atom[c]
  <2>1. ~Fault /\ o \in alive
    BY <1>7 DEF Fault, DropRef
  <2>2. ref[o] = 1
    BY <1>7, <2>1 DEF DropRef
  <2>3. Forget((Objects(o) \ FirstObjects(o, sub[o])) \ {c})
    BY <1>7, <2>1, <2>2 DEF DropRef
  <2>4. (Objects(o) \ FirstObjects(o, sub[o])) \ {c} = {}
    BY <2>1, <2>2, DeleterFindsAll
  <2>5. Forget({})
    BY <2>3, <2>4
  <2>6. QED
    BY <1>1, <2>5, ForgetNothing
<1>8. CASE ReleaseFrame
  <2> DEFINE top == depth + 1
             k == Cardinality(Objects(top))
  <2>1. popped /\ doomed = {} /\ Forget(Objects(top) \ FirstObjects(top, fields[top]))
    BY <1>8 DEF ReleaseFrame, Stored
  <2>2. top \in Frame
    BY <1>1, <2>1, MachineAssumption DEF TypeOK, Frame
  <2>3. k \in Nat /\ k <= NSlots
    BY <2>2, FrameHoldsAtMost
  <2>4. fields[top] = k % NSlots
    <3>1. Objects(top) \ doomed = Objects(top)
      BY <2>1
    <3>2. QED
      BY <2>2, <3>1 DEF CountOK, FieldCountExact
  <2>5. CASE k < NSlots
    <3>1. fields[top] = k
      BY <2>3, <2>4, <2>5, MachineAssumption
    <3>2. FirstObjects(top, fields[top]) = Objects(top)
      BY <1>1, <3>1, FirstObjectsAreAll DEF TypeOK
    <3>3. Forget({})
      BY <2>1, <3>2
    <3>4. QED
      BY <1>1, <3>3, ForgetNothing
  <2>6. QED
    BY <2>1, <2>3, <2>5, MachineAssumption
<1>9. QED
  BY <1>2, <1>3, <1>4, <1>5, <1>6, <1>7, <1>8 DEF Kinds

(* A reference is only ever forgotten when a frame is popped whose slots    *)
(* are all objects, for every program without module calls.                *)
THEOREM OnlyFullFramesLeak ==
  {"garbage", "modcall"} \cap Risks = {} /\ Spec => LeakOnlyWhenFull
<1>1. ASSUME {"garbage", "modcall"} \cap Risks = {} PROVE Spec => LeakOnlyWhenFull
  <2>1. Inv /\ DoomedOK /\ CountOK /\ [Next]_vars =>
          [leak' # leak => popped /\ Cardinality(Objects(depth + 1)) = NSlots]_vars
    BY NextKinds, LeakStep
  <2>2. Spec => []Inv /\ []DoomedOK /\ []CountOK
    BY <1>1, InvHolds, AlwaysDoomedOK, AlwaysCountOK
  <2>3. QED
    BY <2>1, <2>2, PTL DEF Spec, LeakOnlyWhenFull
<1>2. QED
  BY <1>1

-----------------------------------------------------------------------------
(* What goes wrong                                                         *)

(* Only after an error can the last frame be left.                          *)
FrameUntilError == depth = 0 => err

(* A step that leaves no frame returns from the first one after an error.   *)
LEMMA LastFrameStep ==
  ASSUME Inv, "toplevel" \notin Risks, FrameUntilError, [Next]_vars
  PROVE  FrameUntilError'
<1> SUFFICES ASSUME depth' = 0 PROVE err
  BY ErrorStays DEF FrameUntilError
<1>1. depth \in Nat
  BY MachineAssumption DEF Inv, TypeOK
<1>2. /\ Fault => depth' = depth
      /\ \A e : Stop(e) => depth' = depth
      /\ InFrame => depth' = depth
  BY DEF Fault, Stop, InFrame
<1>3. ASSUME NEW h, NEW v, ReturnValue(h, v) PROVE err
  <2>1. CASE depth <= 1 /\ (depth = 1 => "toplevel" \in Risks \/ err)
    BY <1>1, <2>1 DEF FrameUntilError
  <2>2. CASE depth > 1 /\ depth' = depth - 1
    BY <1>1, <2>2
  <2>3. QED
    BY <1>3, <2>1, <2>2 DEF ReturnValue
<1>4. ASSUME NEW n, NEW a, NEW r, Call(n, a, r) PROVE FALSE
  BY <1>1, <1>4 DEF Call
<1>5. SUFFICES ASSUME depth' = depth PROVE err
  <2>1. CASE Continue
    BY <1>2, <1>5, <2>1 DEF Continue, FinishStore, ReleaseFrame, DropRef
  <2>2. CASE Calls
    BY <1>2, <1>3, <1>4, <1>5, <2>2 DEF Calls, CallFaults, CallFails, Return, ReturnVal
  <2>3. CASE Containers
    BY <1>2, <1>5, <2>3 DEF Containers, ConNew, ConNewFails, TypeError, Confusion, ConGet,
       ConSet, ConSize, ConCopy
  <2>4. CASE ModCalls
    BY <1>2, <1>5, <2>4 DEF ModCalls, ModCallFails, ModCallOrphan, ModCallFaults,
       ModCallPrim, ModCallBuffer
  <2>5. CASE Others
    BY <1>2, <1>5, <2>5 DEF Others, StorePrim, Mov, Halt, FailedJump, FailedCast, Illegal,
       NullFrame
  <2>6. CASE UNCHANGED vars
    BY <1>5, <2>6 DEF vars
  <2>7. QED
    BY <2>1, <2>2, <2>3, <2>4, <2>5, <2>6 DEF Next
<1>6. QED
  BY <1>5 DEF FrameUntilError

(* A reference to be given up is one to an object, with its counts right.   *)
LEMMA DropIsSafe ==
  ASSUME Inv, DoomedOK, NEW c \in doomed
  PROVE  atom[c] \in alive /\ sub[atom[c]] <= Cardinality(Objects(atom[c]))
<1> DEFINE o == atom[c]
<1>1. c \in Cell /\ o # Prim
  BY DEF Inv, TypeOK, DoomedOK, DoomedHold
<1>2. o \in alive
  BY <1>1 DEF Inv, TypeOK, NoWild, NoDangling, Val
<1>3. sub[o] = Cardinality(Objects(o) \ doomed)
  BY <1>2 DEF Inv, SubExact
<1>4. Objects(o) \in SUBSET Cell /\ Objects(o) \ doomed \in SUBSET Objects(o)
  BY DEF Objects
<1>5. Cardinality(Objects(o) \ doomed) <= Cardinality(Objects(o))
  BY <1>4, CellsAreFinite, FS_Subset
<1>6. QED
  BY <1>2, <1>3, <1>5

(* Where a program may do nothing it should not, undefined behaviour comes  *)
(* after an error.                                                         *)
LEMMA FaultStep ==
  ASSUME Risks \subseteq {"oom"}, Inv, StoredIsAlive, DoomedOK, FrameUntilError,
         CleanUntilError, [Next]_vars
  PROVE  CleanUntilError'
<1>1. SUFFICES ASSUME status' = "fault", status # "fault" PROVE err
  BY <1>1, ErrorStays DEF CleanUntilError
<1>2. "toplevel" \notin Risks /\ "overrun" \notin Risks /\ "confusion" \notin Risks
      /\ "modcall" \notin Risks
  OBVIOUS
<1>3. /\ \A e : ~Stop(e)
      /\ \A h, e : ~GoOn(h, e)
      /\ ~UNCHANGED control
  BY <1>1 DEF Stop, GoOn, control
<1>4. \A c \in Cell : atom[c] \notin Stray
  BY DEF Inv, NoDangling, NoWild, Stray
<1>5. CASE Continue
  <2>1. CASE FinishStore
    <3>1. SUFFICES ASSUME ~err PROVE FALSE
      OBVIOUS
    <3>2. store # NoStore /\ store.val \in alive \cup {Prim}
      BY <1>1, <3>1, <2>1 DEF FinishStore, StoredIsAlive
    <3>3. store.val \notin Stray
      BY <3>2, MachineAssumption DEF Stray, Inv, TypeOK
    <3>4. store.cell[1] \notin Obj \ alive
      <4>1. store.via \in {"frame", "modcall", "container"}
        BY <3>2 DEF Inv, TypeOK
      <4>2. CASE store.via = "container"
        BY <1>4, <3>2, <4>2 DEF Inv, StoreHasTarget, Stray
      <4>3. CASE store.via # "container"
        BY <3>2, <4>3, MachineAssumption DEF Inv, StoreHasTarget
      <4>4. QED
        BY <4>2, <4>3
    <3>5. QED
      BY <1>3, <2>1, <3>3, <3>4 DEF FinishStore
  <2>2. CASE ReleaseFrame
    BY <1>3, <2>2 DEF ReleaseFrame
  <2>3. ASSUME NEW c \in doomed, DropRef(c) PROVE err
    <3>1. atom[c] \in alive /\ sub[atom[c]] <= Cardinality(Objects(atom[c]))
      BY DropIsSafe
    <3>2. QED
      BY <1>3, <2>3, <3>1 DEF DropRef
  <2>4. QED
    BY <1>5, <2>1, <2>2, <2>3 DEF Continue
<1>6. /\ depth > 0 => depth \in Frame
      /\ \A s \in Slot : depth > 0 => atom[<<depth, s>>] \notin Stray
  BY <1>4, MachineAssumption DEF Inv, TypeOK, Frame, Cell
<1>7. CASE Calls
  <2>1. ASSUME NEW n \in ArgCounts, NEW a \in Slot, CallFaults(n, a) PROVE FALSE
    <3>1. depth \in Frame /\ n \in Nat /\ a + n <= NSlots
      BY <1>2, <1>6, <2>1, MachineAssumption DEF CallFaults, In, Slot
    <3>2. Arg(n, a) \subseteq Cell
      BY <3>1, MachineAssumption DEF Arg, Cell, Slot
    <3>3. QED
      BY <1>4, <2>1, <3>1, <3>2 DEF CallFaults
  <2>2. QED
    BY <1>2, <1>3, <1>7, <2>1 DEF Calls, Call, CallFails, Return, ReturnVal, ReturnValue
<1>8. CASE Containers
  <2>1. ASSUME NEW d \in Slot, NEW c \in Slot, ConCopy(d, c) PROVE err
    <3> DEFINE counted == FirstObjects(atom[<<depth, c>>], sub[atom[<<depth, c>>]])
    <3>1. counted \subseteq Cell
      BY DEF FirstObjects, Objects
    <3>2. ~GoOn("CON_COPY", FALSE)
      BY <1>3, Zenon
    <3>3. QED
      BY <1>4, <2>1, <3>1, <3>2 DEF ConCopy
  <2>2. ASSUME NEW c \in Slot, NEW h, Confusion(h, c) PROVE err
    BY <1>2, <1>6, <2>2 DEF Confusion, In
  <2>3. QED
    BY <1>2, <1>3, <1>8, <2>1, <2>2 DEF Containers, ConNew, ConNewFails, TypeError, ConGet,
       ConSet, ConSize
<1>9. CASE ModCalls
  BY <1>2, <1>3, <1>9 DEF ModCalls, ModCallFails, ModCallOrphan, ModCallFaults, ModCallPrim,
     ModCallBuffer
<1>10. CASE Others
  BY <1>3, <1>10 DEF Others, StorePrim, Mov, Halt, FailedJump, FailedCast, Illegal, NullFrame,
     GoOnPlain, FrameUntilError
<1>11. CASE UNCHANGED vars
  BY <1>1, <1>11 DEF vars
<1>12. QED
  BY <1>5, <1>7, <1>8, <1>9, <1>10, <1>11 DEF Next

(* Whatever the program does apart from what Risks name, and whenever       *)
(* memory runs out, every step before the first error reads and writes only *)
(* memory that the machine owns.                                           *)
THEOREM NoFaultBeforeError == Risks \subseteq {"oom"} /\ Spec => []CleanUntilError
<1>1. ASSUME Risks \subseteq {"oom"} PROVE Spec => []CleanUntilError
  <2>1. /\ "garbage" \notin Risks /\ "toplevel" \notin Risks
        /\ {"garbage", "movself", "getself"} \cap Risks = {}
    BY <1>1
  <2>2. Init => FrameUntilError /\ CleanUntilError
    BY DEF Init, FrameUntilError, CleanUntilError
  <2>3. Inv /\ FrameUntilError /\ [Next]_vars => FrameUntilError'
    BY <2>1, LastFrameStep
  <2>4. Inv /\ StoredIsAlive /\ DoomedOK /\ FrameUntilError /\ CleanUntilError /\ [Next]_vars
          => CleanUntilError'
    BY <1>1, FaultStep
  <2>5. Spec => []Inv /\ []StoredIsAlive /\ []DoomedOK
    BY <2>1, InvHolds, StoredSurvives, AlwaysDoomedOK
  <2>6. QED
    BY <2>2, <2>3, <2>4, <2>5, PTL DEF Spec
<1>2. QED
  BY <1>1
=============================================================================
